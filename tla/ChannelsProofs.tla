---------------------------- MODULE ChannelsProofs ----------------------------
(***************************************************************************)
(* Proofs about the channels of a link of module Channels, for any number  *)
(* of channels, packets, restarts of the peer and queue places: a packet   *)
(* finds one channel, never one of a later session, and no open is         *)
(* accepted twice.  At the end the proof about their timeouts, ChanTimer.  *)
(***************************************************************************)
EXTENDS Channels, ChanTimer, SequenceTheorems, FiniteSetTheorems, TLAPS

(* A packet, or a local error, that may wait in a channel created in       *)
(* session n, and a channel whose queue holds nothing else.                *)
Timely(m, n) == m.key # NoKey => m.key >= n
Pure(ch) == \A k \in DOMAIN ch.in : Timely(ch.in[k], ch.since)
ChanRecords == [id : Nat, handle : Handlers \cup {"drain"}, in : Seq(Packet),
                frees : Nat, since : Nat]
PureChans == {ch \in ChanRecords : Pure(ch)}

LinkType ==
  /\ x \in Exchanges
  /\ heap \in Seq(PureChans)
  /\ chans \subseteq DOMAIN heap
  /\ peer \in [key : 1 .. MaxKeys, cid : Nat, sent : 0 .. MaxPackets]
  /\ net \subseteq Packet
  /\ opens \in Seq(Packet)

(* Our ids are odd and below the next one; the peer's are even, so that    *)
(* the two sides never meet.                                               *)
IdsInv ==
  /\ x.cid % 2 = 1
  /\ \A i \in chans : heap[i].id % 2 = 1 => heap[i].id < x.cid
  /\ \A i, j \in chans : heap[i].id = heap[j].id => i = j

(* The current session is the newest that was ever in use, and a channel   *)
(* was created in one of them or while there was none.                     *)
SinceInv ==
  /\ used \subseteq Nat \ {NoKey}
  /\ x.eid # NoKey => x.eid \in used /\ \A k \in used : k <= x.eid
  /\ \A i \in DOMAIN heap : heap[i].since \in used \cup {NoKey}

(* In a step a channel keeps the session it was created in; a new one has  *)
(* the current session.                                                    *)
SinceKept ==
  \A i \in DOMAIN heap' :
    \/ heap'[i].since = x.eid
    \/ i \in DOMAIN heap /\ heap'[i].since = heap[i].since

(* An open that was accepted belongs to a session that was, and in the     *)
(* current session its id is used up.                                      *)
OpensInv ==
  /\ used \subseteq Nat \ {NoKey}
  /\ x.eid # NoKey => x.eid \in used
  /\ \A i \in DOMAIN opens :
       /\ opens[i].key \in used
       /\ opens[i].key = x.eid => opens[i].c <= x.last
  /\ OpenOnce

(* A packet put at the end of a queue, the error of link_down included.    *)
LEMMA QueueFacts ==
  ASSUME NEW ch \in PureChans, NEW m \in Packet, Timely(m, ch.since)
  PROVE  /\ [ch EXCEPT !.in = Append(@, m)] \in PureChans
         /\ [ch EXCEPT !.in = Append(@, m)].id = ch.id
         /\ [ch EXCEPT !.in = Append(@, m)].since = ch.since
         /\ [ch EXCEPT !.in = Append(@, m)].frees = ch.frees
         /\ [ch EXCEPT !.in = Append(@, m)].handle = ch.handle
<1> DEFINE q == Append(ch.in, m)
           d == [ch EXCEPT !.in = q]
<1>1. /\ ch \in ChanRecords
      /\ Pure(ch) /\ ch.in \in Seq(Packet)
  BY DEF PureChans, ChanRecords
<1>2. /\ q \in Seq(Packet) /\ Len(q) = Len(ch.in) + 1 /\ Len(ch.in) \in Nat
      /\ \A k \in 1 .. Len(ch.in) : q[k] = ch.in[k]
      /\ q[Len(ch.in) + 1] = m
  BY <1>1, AppendProperties
<1>3. \A k \in DOMAIN q : Timely(q[k], ch.since)
  <2> SUFFICES ASSUME NEW k \in DOMAIN q PROVE Timely(q[k], ch.since)
    OBVIOUS
  <2>1. k \in 1 .. Len(ch.in) \/ k = Len(ch.in) + 1
    BY <1>2
  <2>2. DOMAIN ch.in = 1 .. Len(ch.in)
    BY <1>1
  <2> QED BY <1>1, <1>2, <2>1, <2>2 DEF Pure
<1> HIDE DEF q
<1>4. /\ d \in ChanRecords
      /\ d.id = ch.id /\ d.in = q /\ d.frees = ch.frees /\ d.handle = ch.handle
      /\ d.since = ch.since
  BY <1>1, <1>2 DEF ChanRecords
<1>5. Pure(d)
  BY <1>3, <1>4 DEF Pure
<1> HIDE DEF d
<1>6. d \in PureChans
  BY <1>4, <1>5 DEF PureChans
<1>7. [ch EXCEPT !.in = Append(@, m)] = d
  BY DEF d, q
<1> QED BY <1>4, <1>6, <1>7

(* The error packet that link_down and a timeout make up.                  *)
LEMMA ErrFacts ==
  ASSUME NEW ch \in PureChans
  PROVE  /\ ChanErr(ch) \in PureChans /\ ChanErr(ch).id = ch.id
         /\ ChanErr(ch).frees = ch.frees /\ ChanErr(ch).handle = ch.handle
         /\ ChanErr(ch).since = ch.since
<1>1. ch.id \in Nat
  BY DEF PureChans, ChanRecords
<1>2. ErrPacket(ch.id) \in Packet /\ Timely(ErrPacket(ch.id), ch.since)
  BY <1>1, ChannelsAssumption DEF ErrPacket, Packet, Timely, NoKey
<1> QED BY <1>2, QueueFacts DEF ChanErr

(* chan_process leaves the queue or empties it, and may free the channel,  *)
(* which a channel without handler never does.                             *)
LEMMA ProcessFacts ==
  ASSUME NEW ch \in PureChans
  PROVE  /\ ChanProcess(ch) \in PureChans /\ ChanProcess(ch).id = ch.id
         /\ ChanProcess(ch).since = ch.since
         /\ ChanProcess(ch).frees \in {ch.frees, ch.frees + 1}
         /\ ch.handle = "none" => ChanProcess(ch).frees = ch.frees
<1> DEFINE q == IF Handled(ch) THEN <<>> ELSE ch.in
           f == IF Ended(ch) THEN ch.frees + 1 ELSE ch.frees
           d == [ch EXCEPT !.in = q, !.frees = f]
<1>1. /\ ch \in ChanRecords
      /\ Pure(ch) /\ ch.in \in Seq(Packet) /\ ch.frees \in Nat
  BY DEF PureChans, ChanRecords
<1>2. q \in Seq(Packet) /\ f \in Nat /\ f \in {ch.frees, ch.frees + 1}
  BY <1>1
<1>3. \A k \in DOMAIN q : Timely(q[k], ch.since)
  BY <1>1 DEF Pure
<1>4. ch.handle = "none" => f = ch.frees
  BY DEF Ended, Handled
<1> HIDE DEF q, f
<1>5. /\ d \in ChanRecords
      /\ d.id = ch.id /\ d.in = q /\ d.frees = f /\ d.since = ch.since
  BY <1>1, <1>2 DEF ChanRecords
<1>6. Pure(d)
  BY <1>3, <1>5 DEF Pure
<1> HIDE DEF d
<1>7. d \in PureChans
  BY <1>5, <1>6 DEF PureChans
<1>8. ChanProcess(ch) = d
  BY DEF ChanProcess, d, q, f
<1> QED BY <1>2, <1>4, <1>5, <1>7, <1>8

(* A channel that link_chan creates.                                       *)
LEMMA ChanFacts ==
  ASSUME x.eid \in Nat, NEW id \in Nat, NEW h \in Handlers \cup {"drain"}, NEW q \in Seq(Packet),
         \A k \in DOMAIN q : Timely(q[k], x.eid)
  PROVE  /\ Chan(id, h, q) \in PureChans /\ Chan(id, h, q).id = id
         /\ Chan(id, h, q).frees = 0 /\ Chan(id, h, q).handle = h
         /\ Chan(id, h, q).since = x.eid
BY DEF Chan, PureChans, ChanRecords, Pure

(* The channels that handlers open while the list is processed have the    *)
(* next ids of this side.                                                  *)
LEMMA NewChansFacts ==
  ASSUME x \in Exchanges, NEW n \in Nat
  PROVE  /\ NewChans(n) \in Seq(PureChans) /\ Len(NewChans(n)) = n
         /\ \A k \in 1 .. n : /\ NewChans(n)[k].id = x.cid + 2 * (k - 1)
                              /\ NewChans(n)[k].frees = 0
                              /\ NewChans(n)[k].since = x.eid
<1>1. x.cid \in Nat /\ x.eid \in Nat
  BY DEF Exchanges
<1>2. ASSUME NEW k \in 1 .. n
      PROVE  /\ Chan(x.cid + 2 * (k - 1), "drain", <<>>) \in PureChans
             /\ Chan(x.cid + 2 * (k - 1), "drain", <<>>).id = x.cid + 2 * (k - 1)
             /\ Chan(x.cid + 2 * (k - 1), "drain", <<>>).frees = 0
             /\ Chan(x.cid + 2 * (k - 1), "drain", <<>>).since = x.eid
  <2> DEFINE id == x.cid + 2 * (k - 1)
             q == <<>>
  <2>1. id \in Nat
    BY <1>1
  <2>2. q \in Seq(Packet) /\ \A j \in DOMAIN q : Timely(q[j], x.eid)
    OBVIOUS
  <2>3. "drain" \in Handlers \cup {"drain"}
    OBVIOUS
  <2> HIDE DEF id, q
  <2>4. /\ Chan(id, "drain", q) \in PureChans
        /\ Chan(id, "drain", q).id = id /\ Chan(id, "drain", q).frees = 0
        /\ Chan(id, "drain", q).since = x.eid
    BY <1>1, <2>1, <2>2, <2>3, ChanFacts, ZenonT(40)
  <2> QED BY <2>4 DEF id, q
<1>3. NewChans(n) \in [1 .. n -> PureChans]
  BY <1>2 DEF NewChans
<1> QED BY <1>2, <1>3 DEF NewChans

(* A queued packet or an error may have been put in some channels; then    *)
(* the channels of the list are processed, and n more are opened.          *)
LEMMA ProcessedFacts ==
  ASSUME LinkType, NEW n \in Nat, NEW hp \in Seq(PureChans), Len(hp) = Len(heap)
  PROVE  LET done == ProcessAll(hp, chans)
             all == done \o NewChans(n)
         IN  /\ done \in Seq(PureChans) /\ Len(done) = Len(heap)
             /\ all \in Seq(PureChans) /\ Len(all) = Len(heap) + n
             /\ DOMAIN all = DOMAIN heap \cup (Len(heap) + 1 .. Len(heap) + n)
             /\ \A i \in DOMAIN heap :
                  /\ all[i] = done[i] /\ all[i].id = hp[i].id
                  /\ all[i].since = hp[i].since
                  /\ i \notin chans => all[i] = hp[i]
                  /\ i \in chans => /\ all[i].frees \in {hp[i].frees, hp[i].frees + 1}
                                    /\ hp[i].handle = "none" => all[i].frees = hp[i].frees
             /\ \A i \in Len(heap) + 1 .. Len(heap) + n :
                  /\ all[i].id = x.cid + 2 * (i - Len(heap) - 1)
                  /\ all[i].frees = 0 /\ all[i].since = x.eid
<1> DEFINE done == ProcessAll(hp, chans)
           new == NewChans(n)
           all == done \o new
<1>1. /\ Len(heap) \in Nat /\ DOMAIN heap = 1 .. Len(heap) /\ DOMAIN hp = DOMAIN heap
      /\ x \in Exchanges
      /\ \A i \in DOMAIN heap : hp[i] \in PureChans
  BY DEF LinkType
<1>2. /\ DOMAIN done = DOMAIN heap
      /\ \A i \in DOMAIN heap :
           done[i] = IF i \in chans THEN ChanProcess(hp[i]) ELSE hp[i]
  BY <1>1 DEF ProcessAll
<1>3. \A i \in DOMAIN heap :
        /\ done[i] \in PureChans /\ done[i].id = hp[i].id
        /\ done[i].since = hp[i].since
        /\ i \notin chans => done[i] = hp[i]
        /\ i \in chans => /\ done[i].frees \in {hp[i].frees, hp[i].frees + 1}
                          /\ hp[i].handle = "none" => done[i].frees = hp[i].frees
  BY <1>1, <1>2, ProcessFacts
<1>4. done \in Seq(PureChans) /\ Len(done) = Len(heap)
  <2>1. done = [i \in DOMAIN heap |-> done[i]]
    BY <1>1 DEF ProcessAll
  <2>2. done \in [1 .. Len(heap) -> PureChans]
    BY <1>1, <1>3, <2>1
  <2> HIDE DEF done
  <2> QED BY <1>1, <2>2
<1>5. /\ new \in Seq(PureChans) /\ Len(new) = n
      /\ \A k \in 1 .. n : /\ new[k].id = x.cid + 2 * (k - 1) /\ new[k].frees = 0
                         /\ new[k].since = x.eid
  BY <1>1, NewChansFacts
<1> HIDE DEF done, new
<1>6. /\ all \in Seq(PureChans) /\ Len(all) = Len(heap) + n
      /\ \A i \in 1 .. Len(heap) + n :
           all[i] = IF i <= Len(heap) THEN done[i] ELSE new[i - Len(heap)]
  <2>1. done \in Seq(PureChans) /\ new \in Seq(PureChans)
    BY <1>4, <1>5
  <2>2. /\ all \in Seq(PureChans) /\ Len(all) = Len(done) + Len(new)
        /\ \A i \in 1 .. Len(done) + Len(new) :
             all[i] = IF i <= Len(done) THEN done[i] ELSE new[i - Len(done)]
    BY <2>1, ConcatProperties
  <2> HIDE DEF all
  <2> QED BY <1>4, <1>5, <2>2
<1> HIDE DEF all
<1>7. DOMAIN all = DOMAIN heap \cup (Len(heap) + 1 .. Len(heap) + n)
  <2>1. DOMAIN all = 1 .. Len(heap) + n
    BY <1>6
  <2> QED BY <1>1, <2>1
<1>8. \A i \in DOMAIN heap : all[i] = done[i]
  BY <1>1, <1>6
<1>9. ASSUME NEW i \in Len(heap) + 1 .. Len(heap) + n
      PROVE  /\ all[i].id = x.cid + 2 * (i - Len(heap) - 1) /\ all[i].frees = 0
             /\ all[i].since = x.eid
  <2>1. i - Len(heap) \in 1 .. n /\ i \in 1 .. Len(heap) + n /\ ~(i <= Len(heap))
    BY <1>1
  <2>2. all[i] = new[i - Len(heap)]
    BY <1>6, <2>1
  <2> QED BY <1>5, <2>1, <2>2
<1> QED BY <1>3, <1>4, <1>6, <1>7, <1>8, <1>9 DEF all, done, new

(* As many channels are opened as there are relays fired, a number.        *)
LEMMA RelaysFacts ==
  ASSUME LinkType, NEW hp \in Seq(PureChans), Len(hp) = Len(heap)
  PROVE  Cardinality(Relays(hp, chans)) \in Nat
<1>1. Len(heap) \in Nat /\ DOMAIN heap = 1 .. Len(heap) /\ chans \subseteq DOMAIN heap
  BY DEF LinkType
<1>2. Relays(hp, chans) \subseteq 1 .. Len(heap)
  BY <1>1 DEF Relays
<1>3. IsFiniteSet(1 .. Len(heap))
  BY <1>1, FS_Interval
<1> QED BY <1>2, <1>3, FS_Subset, FS_CardinalityType

(* Ids stay unique if the channels of the list keep their ids, and the     *)
(* ones added are opened by this side.                                     *)
LEMMA IdsKept ==
  ASSUME LinkType, IdsInv, NEW n \in Nat,
         x'.cid = x.cid + 2 * n,
         \A i \in chans : heap'[i].id = heap[i].id,
         chans' \subseteq chans \cup (Len(heap) + 1 .. Len(heap) + n),
         \A i \in Len(heap) + 1 .. Len(heap) + n :
           heap'[i].id = x.cid + 2 * (i - Len(heap) - 1)
  PROVE  IdsInv'
<1>1. /\ x.cid \in Nat /\ Len(heap) \in Nat /\ chans \subseteq 1 .. Len(heap)
      /\ \A i \in chans : heap[i].id \in Nat
  <2>1. /\ x \in Exchanges /\ heap \in Seq(PureChans)
        /\ chans \subseteq DOMAIN heap
    BY DEF LinkType
  <2>2. x.cid \in Nat
    BY <2>1 DEF Exchanges
  <2>3. /\ Len(heap) \in Nat /\ DOMAIN heap = 1 .. Len(heap)
        /\ \A i \in DOMAIN heap : heap[i] \in PureChans
    BY <2>1
  <2>4. \A i \in chans : heap[i] \in PureChans
    BY <2>1, <2>3
  <2> QED BY <2>1, <2>2, <2>3, <2>4 DEF PureChans, ChanRecords
<1>2. x'.cid % 2 = 1
  BY <1>1 DEF IdsInv
<1> DEFINE A == Len(heap) + 1 .. Len(heap) + n
<1>3. \A i \in A : /\ heap'[i].id \in Nat /\ heap'[i].id % 2 = 1
                   /\ heap'[i].id >= x.cid /\ heap'[i].id < x'.cid
  <2> SUFFICES ASSUME NEW i \in A
               PROVE  /\ heap'[i].id \in Nat /\ heap'[i].id % 2 = 1
                      /\ heap'[i].id >= x.cid /\ heap'[i].id < x'.cid
    OBVIOUS
  <2> DEFINE d == i - Len(heap) - 1
  <2>1. d \in Nat /\ d < n /\ heap'[i].id = x.cid + 2 * d
    BY <1>1
  <2>2. (x.cid + 2 * d) % 2 = 1
    BY <1>1, <2>1 DEF IdsInv
  <2> HIDE DEF d
  <2> QED BY <1>1, <2>1, <2>2
<1>4. \A i \in chans' : heap'[i].id % 2 = 1 => heap'[i].id < x'.cid
  BY <1>1, <1>3 DEF IdsInv
<1>5. ASSUME NEW i \in chans', NEW j \in chans', heap'[i].id = heap'[j].id
      PROVE  i = j
  <2>1. CASE i \in chans /\ j \in chans
    BY <1>5, <2>1 DEF IdsInv
  <2>2. CASE i \in A /\ j \in A
    <3>1. i \in Int /\ j \in Int /\ x.cid + 2 * (i - Len(heap) - 1) = x.cid + 2 * (j - Len(heap) - 1)
      BY <1>1, <1>5, <2>2
    <3> QED BY <1>1, <3>1
  <2>3. CASE i \in chans /\ j \in A
    BY <1>1, <1>3, <1>5, <2>3 DEF IdsInv
  <2>4. CASE i \in A /\ j \in chans
    BY <1>1, <1>3, <1>5, <2>4 DEF IdsInv
  <2> QED BY <2>1, <2>2, <2>3, <2>4
<1> QED BY <1>2, <1>4, <1>5 DEF IdsInv

-----------------------------------------------------------------------------
(* link_process_chan, on a heap that differs from the one before only by   *)
(* packets that were queued.                                               *)
LEMMA ProcessChanStep ==
  ASSUME LinkType, NEW hp \in Seq(PureChans), Len(hp) = Len(heap),
         \A i \in DOMAIN heap : hp[i].id = heap[i].id /\ hp[i].since = heap[i].since,
         LinkProcessChan(hp), UNCHANGED <<peer, net, opens>>
  PROVE  /\ LinkType'
         /\ IdsInv => IdsInv'
         /\ x'.eid = x.eid /\ x'.last = x.last
         /\ SinceKept
<1> DEFINE n == Cardinality(Relays(hp, chans))
           done == ProcessAll(hp, chans)
           all == done \o NewChans(n)
<1>1. n \in Nat
  BY RelaysFacts
<1>2. /\ heap' = all /\ chans' = {i \in chans : done[i].frees = 0}
      /\ x' = [x EXCEPT !.cid = @ + 2 * n]
  BY DEF LinkProcessChan, Unfreed
<1> HIDE DEF n
<1>3. /\ all \in Seq(PureChans) /\ Len(all) = Len(heap) + n
      /\ DOMAIN all = DOMAIN heap \cup (Len(heap) + 1 .. Len(heap) + n)
      /\ \A i \in DOMAIN heap :
           /\ all[i].id = hp[i].id /\ all[i].since = hp[i].since
      /\ \A i \in Len(heap) + 1 .. Len(heap) + n :
           /\ all[i].id = x.cid + 2 * (i - Len(heap) - 1)
           /\ all[i].since = x.eid
  BY <1>1, ProcessedFacts, ZenonT(40)
<1> HIDE DEF done, all
<1>4. /\ x \in Exchanges /\ chans \subseteq DOMAIN heap /\ Len(heap) \in Nat
      /\ DOMAIN heap = 1 .. Len(heap)
  BY DEF LinkType
<1>5. /\ x' \in Exchanges /\ x'.eid = x.eid /\ x'.last = x.last
      /\ x'.cid = x.cid + 2 * n
  BY <1>1, <1>2, <1>4 DEF Exchanges
<1>6. chans' \subseteq chans /\ chans' \subseteq DOMAIN heap'
  BY <1>2, <1>3, <1>4
<1>7. LinkType'
  BY <1>2, <1>3, <1>5, <1>6 DEF LinkType
<1>8. IdsInv => IdsInv'
  <2>1. /\ \A i \in chans : heap'[i].id = heap[i].id
        /\ chans' \subseteq chans \cup (Len(heap) + 1 .. Len(heap) + n)
        /\ \A i \in Len(heap) + 1 .. Len(heap) + n :
             heap'[i].id = x.cid + 2 * (i - Len(heap) - 1)
    BY <1>2, <1>3, <1>4, <1>6
  <2> QED BY <1>1, <1>5, <2>1, IdsKept
<1>9. SinceKept
  BY <1>2, <1>3 DEF SinceKept
<1> QED BY <1>5, <1>7, <1>8, <1>9

(* What link_down leaves: the old channels with their ids, the ones opened *)
(* meanwhile, and an exchange that is as it was or has no session.         *)
LEMMA DownedFacts ==
  ASSUME LinkType
  PROVE  \E n \in Nat :
           /\ Downed.heap \in Seq(PureChans) /\ Len(Downed.heap) = Len(heap) + n
           /\ DOMAIN Downed.heap = DOMAIN heap \cup (Len(heap) + 1 .. Len(heap) + n)
           /\ \A i \in DOMAIN heap :
                /\ Downed.heap[i].id = heap[i].id
                /\ Downed.heap[i].since = heap[i].since
           /\ \A i \in Len(heap) + 1 .. Len(heap) + n :
                /\ Downed.heap[i].id = x.cid + 2 * (i - Len(heap) - 1)
                /\ Downed.heap[i].since = x.eid
           /\ Downed.chans = chans \cup (Len(heap) + 1 .. Len(heap) + n)
           /\ Downed.x \in Exchanges /\ Downed.x.cid = x.cid + 2 * n
           /\ \/ Downed.x.eid = NoKey
              \/ Downed.x.eid = x.eid /\ Downed.x.last = x.last
<1> DEFINE hp == [i \in DOMAIN heap |->
                    IF i \in chans THEN ChanErr(heap[i]) ELSE heap[i]]
           n == Cardinality(Relays(hp, chans))
           all == ProcessAll(hp, chans) \o NewChans(n)
           y == IF XUp(x) THEN XDown(x) ELSE x
           z == [y EXCEPT !.cid = @ + 2 * n]
           down == [heap |-> all,
                    chans |-> chans \cup (Len(heap) + 1 .. Len(heap) + n),
                    x |-> z]
<1>1. Downed = down
  BY DEF Downed
<1>2. /\ x \in Exchanges /\ chans \subseteq DOMAIN heap /\ Len(heap) \in Nat
      /\ DOMAIN heap = 1 .. Len(heap)
      /\ \A i \in DOMAIN heap : heap[i] \in PureChans
  BY DEF LinkType
<1>3. \A i \in DOMAIN heap :
        /\ hp[i] \in PureChans /\ hp[i].id = heap[i].id
        /\ hp[i].since = heap[i].since
  BY <1>2, ErrFacts
<1>4. DOMAIN hp = 1 .. Len(heap) /\ hp = [i \in 1 .. Len(heap) |-> hp[i]]
  BY <1>2
<1> HIDE DEF hp
<1>5. hp \in Seq(PureChans) /\ Len(hp) = Len(heap)
  <2>1. hp \in [1 .. Len(heap) -> PureChans]
    BY <1>2, <1>3, <1>4
  <2> QED BY <1>2, <2>1
<1>6. n \in Nat
  BY <1>5, RelaysFacts
<1> HIDE DEF n
<1>7. /\ all \in Seq(PureChans) /\ Len(all) = Len(heap) + n
      /\ DOMAIN all = DOMAIN heap \cup (Len(heap) + 1 .. Len(heap) + n)
      /\ \A i \in DOMAIN heap :
           all[i].id = hp[i].id /\ all[i].since = hp[i].since
      /\ \A i \in Len(heap) + 1 .. Len(heap) + n :
           /\ all[i].id = x.cid + 2 * (i - Len(heap) - 1)
           /\ all[i].since = x.eid
  BY <1>5, <1>6, ProcessedFacts, ZenonT(40)
<1> HIDE DEF all
<1>8. /\ y \in Exchanges /\ y.cid = x.cid
      /\ y.eid = NoKey \/ (y.eid = x.eid /\ y.last = x.last)
  BY <1>2 DEF Exchanges, XDown, NoKey
<1> HIDE DEF y
<1>9. 2 * n \in Nat /\ x.cid \in Nat /\ y.cid + 2 * n \in Nat
  BY <1>2, <1>6, <1>8 DEF Exchanges
<1>10. /\ z \in Exchanges /\ z.cid = x.cid + 2 * n
       /\ z.eid = y.eid /\ z.last = y.last
  <2> DEFINE c == y.cid + 2 * n
  <2>1. z = [y EXCEPT !.cid = c] /\ c \in Nat /\ c = x.cid + 2 * n
    BY <1>8, <1>9
  <2> HIDE DEF c, z
  <2> QED BY <1>8, <2>1 DEF Exchanges
<1> HIDE DEF z
<1>11. /\ down.heap = all /\ down.x = z
       /\ down.chans = chans \cup (Len(heap) + 1 .. Len(heap) + n)
  OBVIOUS
<1> HIDE DEF down
<1>12. \A i \in DOMAIN heap :
          all[i].id = heap[i].id /\ all[i].since = heap[i].since
  BY <1>2, <1>3, <1>7
<1> QED BY <1>1, <1>6, <1>7, <1>8, <1>10, <1>11, <1>12

(* link_receive of a packet for a channel of the list.                     *)
LEMMA ReceiveStep ==
  ASSUME LinkType, SinceInv, NEW m \in net, LinkReceive(m)
  PROVE  /\ LinkType'
         /\ IdsInv => IdsInv'
         /\ x'.eid = x.eid /\ x'.last = x.last
         /\ SinceKept
<1>1. PICK i \in chans :
        /\ heap[i].id = m.c
        /\ LinkProcessChan([heap EXCEPT ![i].in = Append(@, m)])
  BY DEF LinkReceive
<1> DEFINE ch == [heap[i] EXCEPT !.in = Append(@, m)]
           hp == [heap EXCEPT ![i] = ch]
<1>2. m \in Packet /\ heap \in Seq(PureChans) /\ i \in DOMAIN heap
  BY DEF LinkType
<1>3. heap[i] \in PureChans
  BY <1>2
<1>4. Timely(m, heap[i].since)
  <2>1. m.key = x.eid /\ x.eid # NoKey
    BY DEF LinkReceive, Decrypts
  <2>2. heap[i].since \in used \cup {NoKey} /\ \A k \in used : k <= x.eid
    BY <1>2, <2>1 DEF SinceInv
  <2>3. x.eid \in Nat
    BY DEF LinkType, Exchanges
  <2>4. CASE heap[i].since \in used
    <3>1. heap[i].since \in Nat /\ heap[i].since <= x.eid
      BY <2>2, <2>4 DEF SinceInv
    <3> QED BY <2>1, <2>3, <3>1 DEF Timely
  <2>5. CASE heap[i].since = NoKey
    BY <2>1, <2>3, <2>5 DEF Timely, NoKey
  <2> QED BY <2>2, <2>4, <2>5
<1>5. ch \in PureChans /\ ch.id = heap[i].id /\ ch.since = heap[i].since
  BY <1>2, <1>3, <1>4, QueueFacts
<1>6. hp = [heap EXCEPT ![i].in = Append(@, m)]
  OBVIOUS
<1> HIDE DEF ch
<1>7. /\ hp \in Seq(PureChans) /\ Len(hp) = Len(heap)
      /\ \A k \in DOMAIN heap : hp[k].id = heap[k].id /\ hp[k].since = heap[k].since
  BY <1>2, <1>5
<1>8. LinkProcessChan(hp)
  BY <1>1, <1>6
<1>9. UNCHANGED <<peer, net, opens>>
  BY DEF LinkReceive
<1> HIDE DEF hp
<1> QED BY <1>7, <1>8, <1>9, ProcessChanStep

(* link_process: some timeouts are over, and the list is processed.        *)
LEMMA LinkProcessStep ==
  ASSUME LinkType, LinkProcess
  PROVE  /\ LinkType'
         /\ IdsInv => IdsInv'
         /\ x'.eid = x.eid /\ x'.last = x.last
         /\ SinceKept
<1>1. PICK late \in SUBSET chans :
        LinkProcessChan([i \in DOMAIN heap |->
                           IF i \in late /\ Len(heap[i].in) < MaxQueue
                           THEN ChanErr(heap[i]) ELSE heap[i]])
  BY DEF LinkProcess
<1> DEFINE hp == [i \in DOMAIN heap |->
                    IF i \in late /\ Len(heap[i].in) < MaxQueue
                    THEN ChanErr(heap[i]) ELSE heap[i]]
<1>2. /\ Len(heap) \in Nat /\ DOMAIN heap = 1 .. Len(heap)
      /\ \A i \in DOMAIN heap : heap[i] \in PureChans
  BY DEF LinkType
<1>3. \A i \in DOMAIN heap : /\ hp[i] \in PureChans /\ hp[i].id = heap[i].id
                             /\ hp[i].since = heap[i].since
  BY <1>2, ErrFacts
<1>4. DOMAIN hp = 1 .. Len(heap) /\ hp = [i \in 1 .. Len(heap) |-> hp[i]]
  BY <1>2
<1>5. LinkProcessChan(hp)
  BY <1>1
<1> HIDE DEF hp
<1>6. hp \in Seq(PureChans) /\ Len(hp) = Len(heap)
  <2>1. hp \in [1 .. Len(heap) -> PureChans]
    BY <1>2, <1>3, <1>4
  <2> QED BY <1>2, <2>1
<1>7. UNCHANGED <<peer, net, opens>>
  BY DEF LinkProcess
<1> QED BY <1>3, <1>5, <1>6, <1>7, ProcessChanStep

(* A channel with an id of its own is put in the list.                     *)
LEMMA NewChanStep ==
  ASSUME LinkType, NEW id \in Nat, NEW h \in Handlers, NEW q \in Seq(Packet),
         \A k \in DOMAIN q : Timely(q[k], x.eid),
         heap' = Append(heap, Chan(id, h, q)), chans' = chans \cup {Len(heap) + 1}
  PROVE  /\ heap' \in Seq(PureChans) /\ Len(heap') = Len(heap) + 1
         /\ chans' \subseteq DOMAIN heap'
         /\ \A i \in DOMAIN heap : heap'[i] = heap[i]
         /\ heap'[Len(heap) + 1].id = id
         /\ SinceKept
<1> DEFINE ch == Chan(id, h, q)
<1>1. /\ heap \in Seq(PureChans) /\ Len(heap) \in Nat /\ DOMAIN heap = 1 .. Len(heap)
      /\ chans \subseteq DOMAIN heap /\ x.eid \in Nat
  BY DEF LinkType, Exchanges
<1>2. ch \in PureChans /\ ch.id = id /\ ch.since = x.eid
  BY <1>1, ChanFacts
<1>3. heap' = Append(heap, ch)
  OBVIOUS
<1> HIDE DEF ch
<1>4. /\ heap' \in Seq(PureChans) /\ Len(heap') = Len(heap) + 1
      /\ \A i \in 1 .. Len(heap) : heap'[i] = heap[i]
      /\ heap'[Len(heap) + 1] = ch
  BY <1>1, <1>2, <1>3, AppendProperties
<1>5. DOMAIN heap' = DOMAIN heap \cup {Len(heap) + 1}
  <2>1. DOMAIN heap' = 1 .. Len(heap) + 1
    BY <1>4
  <2> QED BY <1>1, <2>1
<1>6. SinceKept
  BY <1>1, <1>2, <1>4, <1>5 DEF SinceKept
<1> QED BY <1>1, <1>2, <1>4, <1>5, <1>6

(* link_chan, by the application: the next id of this side.                *)
LEMMA LinkChanStep ==
  ASSUME LinkType, LinkChan
  PROVE  /\ LinkType'
         /\ IdsInv => IdsInv'
         /\ x'.eid = x.eid /\ x'.last = x.last
         /\ SinceKept
<1>1. PICK h \in Handlers : heap' = Append(heap, Chan(x.cid, h, <<>>))
  BY DEF LinkChan
<1>2. /\ chans' = chans \cup {Len(heap) + 1} /\ x' = XNextCid(x)
      /\ UNCHANGED <<peer, net, opens>>
  BY DEF LinkChan
<1>3. /\ x \in Exchanges /\ x.cid \in Nat /\ Len(heap) \in Nat
      /\ DOMAIN heap = 1 .. Len(heap) /\ chans \subseteq DOMAIN heap
  BY DEF LinkType, Exchanges
<1>4. /\ x' \in Exchanges /\ x'.cid = x.cid + 2
      /\ x'.eid = x.eid /\ x'.last = x.last
  BY <1>2, <1>3 DEF XNextCid, Exchanges
<1> DEFINE q == <<>>
<1>5. q \in Seq(Packet) /\ \A k \in DOMAIN q : Timely(q[k], x.eid)
  OBVIOUS
<1>6. heap' = Append(heap, Chan(x.cid, h, q))
  BY <1>1
<1> HIDE DEF q
<1>7. /\ heap' \in Seq(PureChans) /\ Len(heap') = Len(heap) + 1
      /\ chans' \subseteq DOMAIN heap'
      /\ \A i \in DOMAIN heap : heap'[i] = heap[i]
      /\ heap'[Len(heap) + 1].id = x.cid
      /\ SinceKept
  BY <1>2, <1>3, <1>5, <1>6, NewChanStep
<1>8. LinkType'
  BY <1>2, <1>4, <1>7 DEF LinkType
<1>9. IdsInv => IdsInv'
  <2>1. /\ x'.cid = x.cid + 2 * 1
        /\ \A i \in chans : heap'[i].id = heap[i].id
        /\ chans' \subseteq chans \cup (Len(heap) + 1 .. Len(heap) + 1)
        /\ \A i \in Len(heap) + 1 .. Len(heap) + 1 :
             heap'[i].id = x.cid + 2 * (i - Len(heap) - 1)
    BY <1>2, <1>3, <1>4, <1>7
  <2> QED BY <2>1, IdsKept
<1> QED BY <1>4, <1>7, <1>8, <1>9

(* An open: its id is even, above the last one and not in the list.        *)
LEMMA ReceiveOpenStep ==
  ASSUME LinkType, NEW m \in net, LinkReceiveOpen(m)
  PROVE  /\ LinkType'
         /\ IdsInv => IdsInv'
         /\ x'.eid = x.eid
         /\ SinceKept
<1>1. /\ m \in Packet /\ m.c \in Nat
      /\ x \in Exchanges /\ x.cid \in Nat
      /\ heap \in Seq(PureChans) /\ Len(heap) \in Nat /\ DOMAIN heap = 1 .. Len(heap)
      /\ chans \subseteq DOMAIN heap /\ opens \in Seq(Packet)
  BY DEF LinkType, Packet, Exchanges
<1>2. /\ \A i \in chans : heap[i].id # m.c
      /\ m.c % 2 # x.cid % 2 /\ m.key = x.eid
      /\ x' = [x EXCEPT !.last = m.c] /\ opens' = Append(opens, m)
      /\ UNCHANGED <<peer, net>>
  BY DEF LinkReceiveOpen, Decrypts, ValidCid, XTakeCid
<1>3. x' \in Exchanges /\ x'.cid = x.cid /\ x'.eid = x.eid /\ opens' \in Seq(Packet)
  <2>1. x' \in Exchanges /\ x'.cid = x.cid /\ x'.eid = x.eid
    BY <1>1, <1>2 DEF Exchanges
  <2>2. opens' \in Seq(Packet)
    BY <1>1, <1>2, AppendProperties
  <2> QED BY <2>1, <2>2
<1>4. CASE UNCHANGED <<heap, chans>>
  <2>1. LinkType'
    BY <1>2, <1>3, <1>4 DEF LinkType
  <2> QED BY <1>3, <1>4, <2>1 DEF IdsInv, SinceKept
<1>5. CASE ~UNCHANGED <<heap, chans>>
  <2>1. PICK h \in Handlers : heap' = Append(heap, Chan(m.c, h, <<m>>))
    BY <1>5 DEF LinkReceiveOpen
  <2>2. chans' = chans \cup {Len(heap) + 1}
    BY <1>5 DEF LinkReceiveOpen
  <2> DEFINE q == <<m>>
  <2>3. q \in Seq(Packet) /\ \A k \in DOMAIN q : Timely(q[k], x.eid)
    BY <1>1, <1>2 DEF Timely, Exchanges
  <2>4. heap' = Append(heap, Chan(m.c, h, q))
    BY <2>1
  <2> HIDE DEF q
  <2>5. /\ heap' \in Seq(PureChans) /\ chans' \subseteq DOMAIN heap'
        /\ \A i \in DOMAIN heap : heap'[i] = heap[i]
        /\ heap'[Len(heap) + 1].id = m.c
        /\ SinceKept
    BY <1>1, <2>2, <2>3, <2>4, NewChanStep
  <2>6. LinkType'
    BY <1>2, <1>3, <2>5 DEF LinkType
  <2>7. IdsInv => IdsInv'
    <3> SUFFICES ASSUME IdsInv PROVE IdsInv'
      OBVIOUS
    <3>1. x'.cid % 2 = 1 /\ m.c % 2 # 1
      BY <1>2, <1>3 DEF IdsInv
    <3>2. \A i \in chans : heap'[i] = heap[i] /\ heap[i].id # m.c
      BY <1>1, <1>2, <2>5
    <3>3. \A i \in chans' : heap'[i].id % 2 = 1 => heap'[i].id < x'.cid
      BY <1>3, <2>2, <2>5, <3>1, <3>2 DEF IdsInv
    <3>4. \A i, j \in chans' : heap'[i].id = heap'[j].id => i = j
      BY <2>2, <2>5, <3>2 DEF IdsInv
    <3> QED BY <3>1, <3>3, <3>4 DEF IdsInv
  <2> QED BY <1>3, <2>5, <2>6, <2>7
<1> QED BY <1>4, <1>5

(* link_down.                                                              *)
LEMMA LinkDownStep ==
  ASSUME LinkType, LinkDown
  PROVE  /\ LinkType'
         /\ IdsInv => IdsInv'
         /\ x'.eid = NoKey \/ (x'.eid = x.eid /\ x'.last = x.last)
         /\ SinceKept
<1>1. /\ heap' = Downed.heap /\ chans' = Downed.chans /\ x' = Downed.x
      /\ UNCHANGED <<peer, net, opens>>
  BY DEF LinkDown
<1>2. Len(heap) \in Nat /\ DOMAIN heap = 1 .. Len(heap) /\ chans \subseteq DOMAIN heap
  BY DEF LinkType
<1>3. PICK n \in Nat :
        /\ heap' \in Seq(PureChans)
        /\ DOMAIN heap' = DOMAIN heap \cup (Len(heap) + 1 .. Len(heap) + n)
        /\ \A i \in DOMAIN heap :
             heap'[i].id = heap[i].id /\ heap'[i].since = heap[i].since
        /\ \A i \in Len(heap) + 1 .. Len(heap) + n :
             /\ heap'[i].id = x.cid + 2 * (i - Len(heap) - 1)
             /\ heap'[i].since = x.eid
        /\ chans' = chans \cup (Len(heap) + 1 .. Len(heap) + n)
        /\ x' \in Exchanges /\ x'.cid = x.cid + 2 * n
        /\ x'.eid = NoKey \/ (x'.eid = x.eid /\ x'.last = x.last)
  BY <1>1, DownedFacts
<1>4. LinkType'
  BY <1>1, <1>2, <1>3 DEF LinkType
<1>5. IdsInv => IdsInv'
  <2>1. \A i \in chans : heap'[i].id = heap[i].id
    BY <1>2, <1>3
  <2> QED BY <1>3, <2>1, IdsKept
<1>6. SinceKept
  BY <1>3 DEF SinceKept
<1> QED BY <1>3, <1>4, <1>5, <1>6

(* link_process of a link that is to go.                                   *)
LEMMA LinkRemoveStep ==
  ASSUME LinkType, LinkRemove
  PROVE  /\ LinkType'
         /\ IdsInv'
         /\ x'.eid = NoKey
         /\ SinceKept
<1> DEFINE hp == [i \in DOMAIN Downed.heap |->
                    IF i \in Downed.chans
                    THEN [Downed.heap[i] EXCEPT !.frees = @ + 1]
                    ELSE Downed.heap[i]]
<1>1. /\ heap' = hp /\ chans' = {} /\ x' = XNew(1, NoKey)
      /\ UNCHANGED <<peer, net, opens>>
  BY DEF LinkRemove
<1>2. Len(heap) \in Nat /\ DOMAIN heap = 1 .. Len(heap) /\ chans \subseteq DOMAIN heap
  BY DEF LinkType
<1>3. PICK n \in Nat :
        /\ Downed.heap \in Seq(PureChans)
        /\ DOMAIN Downed.heap = DOMAIN heap \cup (Len(heap) + 1 .. Len(heap) + n)
        /\ \A i \in DOMAIN heap : Downed.heap[i].since = heap[i].since
        /\ \A i \in Len(heap) + 1 .. Len(heap) + n : Downed.heap[i].since = x.eid
  BY DownedFacts
<1>4. /\ hp \in Seq(PureChans) /\ DOMAIN hp = DOMAIN Downed.heap
      /\ \A i \in DOMAIN hp : hp[i].since = Downed.heap[i].since
  <2> DEFINE dh == Downed.heap
  <2>1. /\ dh \in Seq(PureChans) /\ Len(dh) \in Nat /\ DOMAIN dh = 1 .. Len(dh)
    BY <1>3
  <2>2. ASSUME NEW i \in DOMAIN dh PROVE hp[i] \in PureChans /\ hp[i].since = dh[i].since
    <3>1. dh[i] \in PureChans
      BY <2>1
    <3>2. /\ [dh[i] EXCEPT !.frees = @ + 1] \in PureChans
          /\ [dh[i] EXCEPT !.frees = @ + 1].since = dh[i].since
      BY <3>1 DEF PureChans, ChanRecords, Pure
    <3> QED BY <3>1, <3>2
  <2>3. DOMAIN hp = 1 .. Len(dh) /\ hp = [i \in 1 .. Len(dh) |-> hp[i]]
    BY <2>1
  <2> HIDE DEF hp
  <2>4. hp \in [1 .. Len(dh) -> PureChans]
    BY <2>1, <2>2, <2>3
  <2> HIDE DEF dh
  <2>5. hp \in Seq(PureChans)
    BY <2>1, <2>4
  <2> QED BY <2>1, <2>2, <2>3, <2>5 DEF dh
<1>5. XNew(1, NoKey) \in Exchanges /\ XNew(1, NoKey).eid = NoKey
      /\ XNew(1, NoKey).cid = 1
  BY DEF XNew, NoKey, Exchanges
<1>6. LinkType'
  <2> HIDE DEF hp
  <2> QED BY <1>1, <1>4, <1>5 DEF LinkType
<1>7. IdsInv'
  BY <1>1, <1>5 DEF IdsInv
<1>8. SinceKept
  <2> HIDE DEF hp
  <2> QED BY <1>1, <1>3, <1>4 DEF SinceKept
<1> QED BY <1>1, <1>5, <1>6, <1>7, <1>8

(* What the peer sends is a packet; it changes nothing on this side.       *)
LEMMA PeerStep ==
  ASSUME LinkType, PeerOpen \/ PeerSend \/ PeerRestart
  PROVE  LinkType' /\ UNCHANGED <<x, heap, chans, used, opens>>
<1>1. /\ peer \in [key : 1 .. MaxKeys, cid : Nat, sent : 0 .. MaxPackets]
      /\ x.cid \in Nat /\ MaxPackets \in Nat /\ MaxKeys \in Nat /\ peer.cid \in Nat
  BY ChannelsAssumption DEF LinkType, Exchanges
<1>2. ASSUME NEW c \in Nat, NEW open \in BOOLEAN, NEW end \in BOOLEAN,
             peer.sent < MaxPackets
      PROVE  PeerPacket(c, open, end) \in Packet
  BY <1>1, <1>2 DEF PeerPacket, Packet
<1>3. CASE PeerOpen
  <2>1. PeerPacket(peer.cid, TRUE, FALSE) \in Packet
    BY <1>1, <1>2, <1>3 DEF PeerOpen
  <2>2. net' = net \cup {PeerPacket(peer.cid, TRUE, FALSE)}
    BY <1>3 DEF PeerOpen
  <2>3. net' \subseteq Packet
    BY <2>1, <2>2 DEF LinkType
  <2>4. peer' \in [key : 1 .. MaxKeys, cid : Nat, sent : 0 .. MaxPackets]
    <3> DEFINE c == peer.cid + 2
               n == peer.sent + 1
    <3>1. c \in Nat /\ n \in 0 .. MaxPackets
      BY <1>1, <1>3 DEF PeerOpen
    <3>2. peer' = [peer EXCEPT !.cid = c, !.sent = n]
      BY <1>3 DEF PeerOpen
    <3> HIDE DEF c, n
    <3> QED BY <1>1, <3>1, <3>2
  <2> QED BY <1>3, <2>3, <2>4 DEF PeerOpen, LinkType
<1>4. CASE PeerSend
  <2> DEFINE C == {i \in 1 .. peer.cid - 1 : i % 2 = 0}
                    \cup {i \in 1 .. x.cid - 1 : i % 2 = 1}
  <2>1. PICK c \in C, end \in BOOLEAN :
          net' = net \cup {PeerPacket(c, FALSE, end)}
    BY <1>4 DEF PeerSend
  <2>2. c \in Nat
    BY <1>1
  <2>3. PeerPacket(c, FALSE, end) \in Packet
    BY <1>2, <1>4, <2>2 DEF PeerSend
  <2>4. net' \subseteq Packet
    BY <2>1, <2>3 DEF LinkType
  <2>5. peer' \in [key : 1 .. MaxKeys, cid : Nat, sent : 0 .. MaxPackets]
    BY <1>1, <1>4 DEF PeerSend
  <2> QED BY <1>4, <2>4, <2>5 DEF PeerSend, LinkType
<1>5. CASE PeerRestart
  <2>1. peer' \in [key : 1 .. MaxKeys, cid : Nat, sent : 0 .. MaxPackets]
    <3> DEFINE k == peer.key + 1
    <3>1. k \in 1 .. MaxKeys
      BY <1>1, <1>5 DEF PeerRestart
    <3>2. peer' = [peer EXCEPT !.key = k, !.cid = 2]
      BY <1>5 DEF PeerRestart
    <3> HIDE DEF k
    <3> QED BY <1>1, <3>1, <3>2
  <2> QED BY <1>5, <2>1 DEF PeerRestart, LinkType
<1> QED BY <1>3, <1>4, <1>5

(* An acceptable handshake: the ids of the other side start again, ours do *)
(* not.                                                                    *)
LEMMA HandshakeStep ==
  ASSUME LinkType, NEW key \in 1 .. peer.key, key # x.eid,
         x' = XSync([x EXCEPT !.out = 1, !.in = 1], key),
         UNCHANGED <<heap, chans, peer, net, opens>>
  PROVE  LinkType' /\ x'.cid = x.cid /\ x'.eid = key /\ key \in Nat \ {NoKey}
<1>1. x \in Exchanges /\ key \in Nat \ {NoKey}
  BY DEF LinkType, NoKey
<1> DEFINE y == [x EXCEPT !.out = 1, !.in = 1]
<1>2. y \in Exchanges /\ y.cid = x.cid
  BY <1>1 DEF Exchanges
<1> HIDE DEF y
<1>3. XSync(y, key) \in Exchanges /\ XSync(y, key).cid = y.cid /\ XSync(y, key).eid = key
  BY <1>1, <1>2 DEF XSync, Exchanges
<1>4. x' = XSync(y, key)
  BY DEF y
<1>5. LinkType'
  BY <1>3, <1>4 DEF LinkType
<1> QED BY <1>1, <1>2, <1>3, <1>4, <1>5

(* A link is created with a session and without channels.                  *)
LEMMA LinkInit ==
  ASSUME Init
  PROVE  /\ LinkType /\ IdsInv /\ SinceInv
         /\ x.eid = 1 /\ used = {1} /\ opens = <<>>
<1> DEFINE y == XSync(XOut(XNew(1, 1), 1), 1)
<1>1. y \in Exchanges /\ y.cid = 1 /\ y.eid = 1
  <2> DEFINE a == XNew(1, 1)
             b == XOut(a, 1)
  <2>1. /\ a \in Exchanges /\ a.cid = 1 /\ a.eid = 0 /\ a.out = 0 /\ a.order = 1
        /\ a.last = 0 /\ a.in = 0
    BY DEF XNew, Exchanges, NoKey
  <2> HIDE DEF a
  <2>2. Align(a.order, 1) = 1
    BY <2>1 DEF Align
  <2>3. b = [a EXCEPT !.out = 1]
    BY <2>1, <2>2 DEF XOut
  <2> HIDE DEF b
  <2>4. b \in Exchanges /\ b.cid = 1
    BY <2>1, <2>3 DEF Exchanges
  <2>5. /\ XSync(b, 1) \in Exchanges /\ XSync(b, 1).cid = 1
        /\ XSync(b, 1).eid = 1
    BY <2>4 DEF XSync, Exchanges
  <2> QED BY <2>5 DEF a, b
<1>2. x = [y EXCEPT !.in = 1]
  BY DEF Init
<1> HIDE DEF y
<1>3. x \in Exchanges /\ x.cid = 1 /\ x.eid = 1
  BY <1>1, <1>2 DEF Exchanges
<1>4. peer \in [key : 1 .. MaxKeys, cid : Nat, sent : 0 .. MaxPackets]
  BY ChannelsAssumption DEF Init
<1>5. LinkType /\ used = {1} /\ opens = <<>>
  BY <1>3, <1>4 DEF Init, LinkType
<1>6. IdsInv
  BY <1>3 DEF Init, IdsInv
<1>7. SinceInv
  BY <1>3 DEF Init, SinceInv, NoKey
<1> QED BY <1>3, <1>5, <1>6, <1>7

(* A step that leaves the session, or ends it, keeps the sessions of the   *)
(* channels.                                                               *)
LEMMA SinceStep ==
  ASSUME SinceInv, SinceKept, used' = used, x'.eid = NoKey \/ x'.eid = x.eid
  PROVE  SinceInv'
<1>1. ASSUME NEW i \in DOMAIN heap' PROVE heap'[i].since \in used \cup {NoKey}
  BY <1>1 DEF SinceInv, SinceKept
<1> QED BY <1>1 DEF SinceInv

(* A handshake that brings a session never used before.                    *)
LEMMA SinceRenewed ==
  ASSUME ~OldSessions, LinkType, SinceInv, Handshake
  PROVE  SinceInv'
<1>1. PICK key \in 1 .. peer.key :
        /\ key # x.eid /\ \A k \in used : k < key
        /\ x' = XSync([x EXCEPT !.out = 1, !.in = 1], key)
        /\ used' = used \cup {key} /\ UNCHANGED <<heap, chans, peer, net, opens>>
  BY DEF Handshake
<1>2. x'.eid = key /\ key \in Nat \ {NoKey}
  BY <1>1, HandshakeStep
<1>3. used \subseteq Nat
  BY DEF SinceInv
<1>4. \A k \in used' : k <= key
  BY <1>1, <1>2, <1>3
<1> QED BY <1>1, <1>2, <1>4 DEF SinceInv

(* Every step keeps the types, the ids and the sessions.                   *)
LEMMA LinkStep ==
  ASSUME ~OldSessions, LinkType, IdsInv, SinceInv, [Next]_vars
  PROVE  LinkType' /\ IdsInv' /\ SinceInv'
<1>1. CASE PeerOpen \/ PeerSend \/ PeerRestart
  <2>1. LinkType' /\ UNCHANGED <<x, heap, chans, used, opens>>
    BY <1>1, PeerStep
  <2> QED BY <2>1 DEF IdsInv, SinceInv
<1>2. CASE Handshake
  <2>1. LinkType' /\ IdsInv'
    BY <1>2, HandshakeStep DEF Handshake, IdsInv
  <2> QED BY <1>2, <2>1, SinceRenewed
<1>3. CASE LinkChan
  BY <1>3, LinkChanStep, SinceStep DEF LinkChan
<1>4. ASSUME NEW m \in net, LinkReceive(m) PROVE LinkType' /\ IdsInv' /\ SinceInv'
  BY <1>4, ReceiveStep, SinceStep DEF LinkReceive
<1>5. ASSUME NEW m \in net, LinkReceiveOpen(m)
      PROVE  LinkType' /\ IdsInv' /\ SinceInv'
  BY <1>5, ReceiveOpenStep, SinceStep DEF LinkReceiveOpen
<1>6. CASE LinkProcess
  BY <1>6, LinkProcessStep, SinceStep DEF LinkProcess
<1>7. CASE LinkDown
  BY <1>7, LinkDownStep, SinceStep DEF LinkDown
<1>8. CASE LinkRemove
  BY <1>8, LinkRemoveStep, SinceStep DEF LinkRemove
<1>9. CASE UNCHANGED vars
  BY <1>9 DEF vars, LinkType, IdsInv, SinceInv
<1> QED BY <1>1, <1>2, <1>3, <1>4, <1>5, <1>6, <1>7, <1>8, <1>9 DEF Next, Receive

(* Types, ids and sessions are right in every state.                       *)
LEMMA LinkTypeIds ==
  ASSUME ~OldSessions
  PROVE  Spec => [](LinkType /\ IdsInv /\ SinceInv)
<1>1. Init => LinkType /\ IdsInv /\ SinceInv
  BY LinkInit
<1>2. LinkType /\ IdsInv /\ SinceInv /\ [Next]_vars =>
        (LinkType /\ IdsInv /\ SinceInv)'
  BY LinkStep
<1> QED BY <1>1, <1>2, PTL DEF Spec

(* link_chan_get is unambiguous and never too young: no two channels of    *)
(* the list ever have the same id, whoever opened them, whatever the       *)
(* network replays and however often the peer restarts its numbering; and  *)
(* no packet of an earlier session waits in a channel of a later one.  A   *)
(* handshake that brings back a session used before is left out, handlers  *)
(* that open channels and link_down on channels with handlers are not.     *)
THEOREM ChannelsFindsChannel ==
  ASSUME ~OldSessions
  PROVE  Spec => []FindsChannel
<1>1. LinkType /\ IdsInv => FindsChannel
  <2> SUFFICES ASSUME LinkType, IdsInv PROVE FindsChannel
    OBVIOUS
  <2>1. \A i \in chans : heap[i] \in PureChans
    BY DEF LinkType
  <2>2. \A i \in chans : Pure(heap[i])
    BY <2>1 DEF PureChans
  <2> QED BY <2>2 DEF FindsChannel, IdsInv, Pure, Timely
<1>2. Spec => [](LinkType /\ IdsInv /\ SinceInv)
  BY LinkTypeIds
<1> QED BY <1>1, <1>2, PTL

(* An open is accepted at most once, however often the network delivers it *)
(* and whatever became of its channel, if no handshake brings back a       *)
(* session that was used before.                                           *)
THEOREM ChannelsOpenOnce ==
  ASSUME ~OldSessions
  PROVE  Spec => []OpenOnce
<1>1. Init => OpensInv
  <2> SUFFICES ASSUME Init PROVE OpensInv
    OBVIOUS
  <2> QED BY LinkInit DEF OpensInv, OpenOnce, NoKey
<1>2. ASSUME LinkType, SinceInv, OpensInv, [Next]_vars PROVE OpensInv'
  <2>1. ASSUME UNCHANGED <<used, opens>>,
               x'.eid = NoKey \/ (x'.eid = x.eid /\ x'.last = x.last)
        PROVE  OpensInv'
    BY <1>2, <2>1 DEF OpensInv, OpenOnce
  <2>2. CASE PeerOpen \/ PeerSend \/ PeerRestart
    BY <1>2, <2>1, <2>2, PeerStep
  <2>3. CASE Handshake
    <3>1. PICK key \in 1 .. peer.key :
            /\ key # x.eid /\ \A k \in used : k < key
            /\ x' = XSync([x EXCEPT !.out = 1, !.in = 1], key)
            /\ used' = used \cup {key} /\ UNCHANGED <<heap, chans, peer, net, opens>>
      BY <2>3 DEF Handshake
    <3>2. x'.eid = key /\ key \in Nat \ {NoKey}
      BY <1>2, <3>1, HandshakeStep
    <3>3. key \notin used
      BY <1>2, <3>1, <3>2 DEF OpensInv
    <3> QED BY <1>2, <3>1, <3>2, <3>3 DEF OpensInv, OpenOnce
  <2>4. CASE LinkChan
    BY <1>2, <2>1, <2>4, LinkChanStep DEF LinkChan
  <2>5. ASSUME NEW m \in net, LinkReceive(m) PROVE OpensInv'
    BY <1>2, <2>1, <2>5, ReceiveStep DEF LinkReceive
  <2>6. ASSUME NEW m \in net, LinkReceiveOpen(m) PROVE OpensInv'
    <3>1. /\ x.eid # NoKey /\ m.key = x.eid /\ m.c > x.last
          /\ x' = [x EXCEPT !.last = m.c] /\ opens' = Append(opens, m)
          /\ used' = used
      BY <2>6 DEF LinkReceiveOpen, Decrypts, ValidCid, XTakeCid
    <3>2. /\ m \in Packet /\ m.c \in Nat /\ x \in Exchanges /\ x.last \in Nat
          /\ opens \in Seq(Packet) /\ Len(opens) \in Nat
          /\ DOMAIN opens = 1 .. Len(opens)
      BY <1>2 DEF LinkType, Packet, Exchanges
    <3>3. x'.eid = x.eid /\ x'.last = m.c
      BY <3>1, <3>2 DEF Exchanges
    <3>4. /\ opens' \in Seq(Packet) /\ Len(opens') = Len(opens) + 1
          /\ \A i \in 1 .. Len(opens) : opens'[i] = opens[i]
          /\ opens'[Len(opens) + 1] = m
      BY <3>1, <3>2, AppendProperties
    <3>5. DOMAIN opens' = DOMAIN opens \cup {Len(opens) + 1}
      <4>1. DOMAIN opens' = 1 .. Len(opens) + 1
        BY <3>4
      <4> QED BY <3>2, <4>1
    <3>6. \A i \in DOMAIN opens : opens[i].c \in Nat
      <4>1. \A i \in DOMAIN opens : opens[i] \in Packet
        BY <3>2
      <4> QED BY <4>1 DEF Packet
    <3>7. \A i \in DOMAIN opens : opens[i].key = x.eid => opens[i].c < m.c
      BY <1>2, <3>1, <3>2, <3>6 DEF OpensInv
    <3>8. \A i \in DOMAIN opens' :
            /\ opens'[i].key \in used'
            /\ opens'[i].key = x'.eid => opens'[i].c <= x'.last
      BY <1>2, <3>1, <3>2, <3>3, <3>4, <3>5, <3>6, <3>7 DEF OpensInv
    <3>9. \A i \in DOMAIN opens : opens[i] # m
      BY <3>1, <3>2, <3>7
    <3>10. OpenOnce'
      BY <1>2, <3>2, <3>4, <3>5, <3>9 DEF OpensInv, OpenOnce
    <3> QED BY <1>2, <3>1, <3>3, <3>8, <3>10 DEF OpensInv
  <2>7. CASE LinkProcess
    BY <1>2, <2>1, <2>7, LinkProcessStep DEF LinkProcess
  <2>8. CASE LinkDown
    BY <1>2, <2>1, <2>8, LinkDownStep DEF LinkDown
  <2>9. CASE LinkRemove
    BY <1>2, <2>1, <2>9, LinkRemoveStep DEF LinkRemove
  <2>10. CASE UNCHANGED vars
    BY <1>2, <2>1, <2>10 DEF vars
  <2> QED BY <1>2, <2>2, <2>3, <2>4, <2>5, <2>6, <2>7, <2>8, <2>9, <2>10 DEF Next, Receive
<1>3. LinkType /\ SinceInv /\ OpensInv /\ [Next]_vars => OpensInv'
  BY <1>2
<1>4. OpensInv => OpenOnce
  BY DEF OpensInv
<1>5. Spec => [](LinkType /\ IdsInv /\ SinceInv)
  BY LinkTypeIds
<1> QED BY <1>1, <1>3, <1>4, <1>5, PTL DEF Spec

-----------------------------------------------------------------------------
(* The timeout of a channel: module ChanTimer, for every rhythm of         *)
(* link_process and every timeout.                                         *)

(* Kicking the timeout forward (chan_process) keeps it at or past the time *)
(* the application set.                                                    *)
Kicked ==
  /\ left + ago <= MaxTimeout + MaxGap
  /\ left + ago >= 0
  /\ armed => due < 0 \/ due <= left
  /\ ~armed => left = 0

TimerInv == TimerTypeOK /\ Kicked /\ NotEarly

(* The invariant holds in a fresh channel (chan_new zeroes the struct).    *)
LEMMA TimerFirst == TimerInit => TimerInv
<1> SUFFICES ASSUME TimerInit PROVE TimerInv
  OBVIOUS
<1>1. TimerTypeOK
  <2>1. /\ left \in (0 - MaxGap) .. (MaxTimeout + MaxGap)
        /\ due \in -1 .. MaxTimeout
        /\ ago \in 0 .. MaxGap
    BY ChanTimerAssumption, SMT DEF TimerInit
  <2>2. armed \in BOOLEAN /\ seen \in BOOLEAN /\ failed \in BOOLEAN
    BY DEF TimerInit
  <2> QED
    BY <2>1, <2>2 DEF TimerTypeOK
<1>2. Kicked
  BY ChanTimerAssumption DEF TimerInit, Kicked
<1>3. NotEarly
  BY DEF TimerInit, NotEarly
<1> QED
  BY <1>1, <1>2, <1>3 DEF TimerInv

(* Every step of the clock, of chan_timeout and of chan_process keeps it.  *)
LEMMA TimerStep == TimerInv /\ [TimerNext]_timerVars => TimerInv'
<1> SUFFICES ASSUME TimerInv, [TimerNext]_timerVars PROVE TimerInv'
  OBVIOUS
<1> USE ChanTimerAssumption DEF TimerInv, TimerTypeOK, Kicked, NotEarly
<1>1. CASE Tick
  BY <1>1 DEF Tick
<1>2. CASE ChanTimeout
  BY <1>2 DEF ChanTimeout
<1>3. CASE ChanProcessTime
  <2>1. CASE ~armed
    BY <1>3, <2>1 DEF ChanProcessTime, Over
  <2>2. CASE armed /\ Over(left)
    BY <1>3, <2>2 DEF ChanProcessTime, Over
  <2>3. CASE armed /\ ~Over(left)
    <3>1. /\ left' = (IF seen THEN left + ago ELSE left)
          /\ ago' = 0 /\ due' = due
          /\ armed' = TRUE /\ seen' = TRUE /\ failed' = failed
      BY <1>3, <2>3 DEF ChanProcessTime, Over
    <3> QED
      BY <2>3, <3>1 DEF Over
  <2> QED
    BY <2>1, <2>2, <2>3
<1>4. CASE UNCHANGED timerVars
  BY <1>4 DEF timerVars
<1> QED
  BY <1>1, <1>2, <1>3, <1>4 DEF TimerNext

(* chan_process never queues the timeout error before the time that        *)
(* chan_timeout set last, whatever MaxGap and MaxTimeout are.              *)
THEOREM TimerNotEarly == TimerSpec => []NotEarly
<1>1. TimerInv => NotEarly
  BY DEF TimerInv
<1>2. TimerInit => TimerInv
  BY TimerFirst
<1>3. TimerInv /\ [TimerNext]_timerVars => TimerInv'
  BY TimerStep
<1> QED
  BY <1>1, <1>2, <1>3, PTL DEF TimerSpec
=============================================================================
