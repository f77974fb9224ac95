------------------------------ MODULE MeshProofs ------------------------------
(***************************************************************************)
(* Proofs about the list of links of module Mesh, for any endpoints and    *)
(* any number of links: mesh_process never meets a freed link, the list    *)
(* holds one link for a hashname, a link that is freed was reported down,  *)
(* and a link the application got is there until it unlinks it.            *)
(* Then about Frames, for every length, bound and transport: its locks are *)
(* enough, an interrupt by util_frames_inbox or util_frames_outbox does    *)
(* not free the node at which util_frames_receive or util_frames_send is;  *)
(* what comes out of a stream is what was sent, in order; and the types.   *)
(***************************************************************************)
EXTENDS Mesh, Frames, SequenceTheorems, WellFoundedInduction, TLAPS

(* The list has no link twice and is what is left of the heap, and what    *)
(* mesh_process has in hand is two different links of the list: its next   *)
(* is not the link it may free.                                            *)
ListInv ==
  /\ \A i, j \in DOMAIN links : links[i] = links[j] => i = j
  /\ Listed = {p \in DOMAIN heap : ~heap[p].freed}
  /\ \A p, q \in Listed : heap[p].id = heap[q].id => p = q
  /\ walk.link # 0 => walk.link \in Listed
  /\ walk.next # 0 => walk.next \in Listed /\ walk.next # walk.link

MeshInv == TypeOK /\ ListInv

(* What was told follows the session, and the down event of a link that is *)
(* being removed is the last one.                                          *)
EventInv ==
  /\ \A p \in DOMAIN heap : heap[p].told => heap[p].up
  /\ \A p \in DOMAIN heap : heap[p].freed => ~heap[p].told
  /\ walk.stage = "event" => ~heap[walk.link].told

(* What the application holds is listed, has no mark and is not about to   *)
(* be freed.                                                               *)
KeptInv ==
  /\ held \subseteq Listed
  /\ \A p \in held : ~heap[p].marked
  /\ walk.stage = "event" => walk.link \notin held

(* Taking one element out of a sequence moves up those behind it.          *)
LEMMA RemoveAtFacts ==
  ASSUME NEW S, NEW s \in Seq(S), NEW i \in 1 .. Len(s)
  PROVE  /\ RemoveAt(s, i) \in Seq(S)
         /\ Len(RemoveAt(s, i)) = Len(s) - 1
         /\ \A j \in 1 .. Len(s) - 1 :
              RemoveAt(s, i)[j] = IF j < i THEN s[j] ELSE s[j + 1]
<1> DEFINE a == SubSeq(s, 1, i - 1)
           b == SubSeq(s, i + 1, Len(s))
<1>1. Len(s) \in Nat /\ i \in Nat /\ \A j \in 1 .. Len(s) : s[j] \in S
  OBVIOUS
<1>2. a \in Seq(S) /\ Len(a) = i - 1 /\ \A j \in 1 .. i - 1 : a[j] = s[j]
  <2>1. 1 \in Int /\ i - 1 \in Int /\ \A j \in 1 .. i - 1 : s[j] \in S
    BY <1>1
  <2>2. /\ a \in Seq(S) /\ Len(a) = (IF 1 <= i - 1 THEN (i - 1) - 1 + 1 ELSE 0)
        /\ \A j \in 1 .. (i - 1) - 1 + 1 : a[j] = s[1 + j - 1]
    BY <2>1, SubSeqProperties
  <2> HIDE DEF a
  <2> QED BY <1>1, <2>2
<1>3. b \in Seq(S) /\ Len(b) = Len(s) - i /\ \A j \in 1 .. Len(s) - i : b[j] = s[i + j]
  <2>1. i + 1 \in Int /\ Len(s) \in Int /\ \A j \in i + 1 .. Len(s) : s[j] \in S
    BY <1>1
  <2>2. /\ b \in Seq(S) /\ Len(b) = (IF i + 1 <= Len(s) THEN Len(s) - (i + 1) + 1 ELSE 0)
        /\ \A j \in 1 .. Len(s) - (i + 1) + 1 : b[j] = s[(i + 1) + j - 1]
    BY <2>1, SubSeqProperties
  <2> HIDE DEF b
  <2> QED BY <1>1, <2>2
<1> HIDE DEF a, b
<1>4. /\ a \o b \in Seq(S) /\ Len(a \o b) = Len(a) + Len(b)
      /\ \A j \in 1 .. Len(a) + Len(b) :
           (a \o b)[j] = IF j <= Len(a) THEN a[j] ELSE b[j - Len(a)]
  BY <1>2, <1>3, ConcatProperties
<1>5. RemoveAt(s, i) = a \o b
  BY DEF RemoveAt, a, b
<1>6. Len(a \o b) = Len(s) - 1
  BY <1>1, <1>2, <1>3, <1>4
<1>7. ASSUME NEW j \in 1 .. Len(s) - 1
      PROVE  (a \o b)[j] = IF j < i THEN s[j] ELSE s[j + 1]
  <2>1. j \in 1 .. Len(a) + Len(b)
    BY <1>1, <1>2, <1>3
  <2>2. CASE j < i
    BY <1>1, <1>2, <1>4, <2>1, <2>2
  <2>3. CASE ~(j < i)
    <3>1. /\ ~(j <= Len(a)) /\ j - Len(a) \in 1 .. Len(s) - i
          /\ i + (j - Len(a)) = j + 1
      BY <1>1, <1>2, <2>3
    <3> QED BY <1>3, <1>4, <2>1, <2>3, <3>1
  <2> QED BY <2>2, <2>3
<1> QED BY <1>4, <1>5, <1>6, <1>7

(* link_free takes the link, and only it, out of the list.                 *)
LEMMA UnlistedFacts ==
  ASSUME NEW S, links \in Seq(S), NEW p \in Listed,
         \A i, j \in DOMAIN links : links[i] = links[j] => i = j
  PROVE  /\ Unlisted(p) \in Seq(S)
         /\ \A i, j \in DOMAIN Unlisted(p) :
              Unlisted(p)[i] = Unlisted(p)[j] => i = j
         /\ {Unlisted(p)[i] : i \in DOMAIN Unlisted(p)} = Listed \ {p}
<1> DEFINE k == Place(links, p)
           r == RemoveAt(links, k)
<1>1. Len(links) \in Nat /\ DOMAIN links = 1 .. Len(links)
  OBVIOUS
<1>2. k \in 1 .. Len(links) /\ links[k] = p
  BY <1>1 DEF Listed, Place
<1> HIDE DEF k
<1>3. /\ r \in Seq(S) /\ Len(r) = Len(links) - 1
      /\ \A j \in 1 .. Len(links) - 1 :
           r[j] = IF j < k THEN links[j] ELSE links[j + 1]
  BY <1>2, RemoveAtFacts
<1>4. Unlisted(p) = r
  BY DEF Unlisted, k
<1> HIDE DEF r
<1>5. DOMAIN r = 1 .. Len(links) - 1
  BY <1>3
<1>6. ASSUME NEW i \in DOMAIN r, NEW j \in DOMAIN r, r[i] = r[j] PROVE i = j
  <2> DEFINE f(n) == IF n < k THEN n ELSE n + 1
  <2>1. f(i) \in DOMAIN links /\ f(j) \in DOMAIN links
    BY <1>1, <1>2, <1>5
  <2>2. r[i] = links[f(i)] /\ r[j] = links[f(j)]
    BY <1>3, <1>5
  <2>3. f(i) = f(j)
    BY <1>6, <2>1, <2>2
  <2> QED BY <1>2, <1>5, <2>3
<1>7. ASSUME NEW i \in DOMAIN r PROVE r[i] \in Listed \ {p}
  <2> DEFINE n == IF i < k THEN i ELSE i + 1
  <2>1. n \in DOMAIN links /\ n # k
    BY <1>1, <1>2, <1>5
  <2>2. r[i] = links[n]
    BY <1>3, <1>5
  <2>3. links[n] # p
    BY <1>1, <1>2, <2>1
  <2> QED BY <2>1, <2>2, <2>3 DEF Listed
<1>8. ASSUME NEW q \in Listed \ {p} PROVE \E i \in DOMAIN r : r[i] = q
  <2>1. PICK n \in DOMAIN links : links[n] = q
    BY DEF Listed
  <2>2. n # k
    BY <1>2, <2>1
  <2>3. CASE n < k
    <3>1. n \in 1 .. Len(links) - 1
      BY <1>1, <1>2, <2>3
    <3> QED BY <1>3, <1>5, <2>1, <2>3, <3>1
  <2>4. CASE n > k
    <3>1. n - 1 \in 1 .. Len(links) - 1 /\ ~(n - 1 < k) /\ (n - 1) + 1 = n
      BY <1>1, <1>2, <2>4
    <3> QED BY <1>3, <1>5, <2>1, <3>1
  <2> QED BY <1>1, <1>2, <2>2, <2>3, <2>4
<1> QED BY <1>3, <1>4, <1>6, <1>7, <1>8

(* What a turn has in hand is the link it is for and the one behind it.    *)
LEMMA TurnFacts ==
  ASSUME NEW S, NEW list \in Seq(S), 0 \notin S,
         \A i, j \in DOMAIN list : list[i] = list[j] => i = j,
         NEW p, p = 0 \/ \E i \in DOMAIN list : list[i] = p
  PROVE  /\ Turn(list, p).stage \in {"idle", "handlers"}
         /\ Turn(list, p).link = p
         /\ Turn(list, p).next # 0 =>
              /\ \E i \in DOMAIN list : list[i] = Turn(list, p).next
              /\ Turn(list, p).next # p
         /\ (Turn(list, p).stage = "idle") = (p = 0)
         /\ Turn(list, p) =
              [stage |-> Turn(list, p).stage, link |-> p, next |-> Turn(list, p).next]
<1>1. CASE p = 0
  BY <1>1 DEF Turn, Idle
<1>2. CASE p # 0
  <2> DEFINE k == Place(list, p)
  <2>1. Len(list) \in Nat /\ DOMAIN list = 1 .. Len(list)
    OBVIOUS
  <2>2. k \in 1 .. Len(list) /\ list[k] = p
    BY <1>2, <2>1 DEF Place
  <2> HIDE DEF k
  <2>3. Behind(list, p) = IF k < Len(list) THEN list[k + 1] ELSE 0
    BY DEF Behind, k
  <2>4. k < Len(list) => k + 1 \in DOMAIN list /\ list[k + 1] # p
    BY <2>1, <2>2
  <2>5. Behind(list, p) # 0 =>
          (\E i \in DOMAIN list : list[i] = Behind(list, p)) /\ Behind(list, p) # p
    BY <2>3, <2>4
  <2>6. Turn(list, p) = [stage |-> "handlers", link |-> p, next |-> Behind(list, p)]
    BY <1>2 DEF Turn
  <2> QED BY <1>2, <2>5, <2>6
<1> QED BY <1>1, <1>2

(* What the loads of link_get, link_get_key and mesh_add, the handshake    *)
(* and link_down leave alone.                                              *)
LEMMA LinkChanges ==
  ASSUME NEW l \in Links
  PROVE  /\ LinkLoad(l) \in Links /\ LinkLoad(l).id = l.id
         /\ LinkLoad(l).freed = l.freed /\ LinkLoad(l).told = l.told
         /\ LinkLoad(l).up = l.up /\ ~LinkLoad(l).marked
         /\ Downed(l) \in Links /\ Downed(l).id = l.id
         /\ Downed(l).freed = l.freed /\ Downed(l).marked = l.marked
         /\ Downed(l).up = FALSE
         /\ Downed(l).told = IF l.up THEN FALSE ELSE l.told
<1>1. LinkLoad(l) \in Links /\ LinkLoad(l).id = l.id
      /\ LinkLoad(l).freed = l.freed /\ LinkLoad(l).told = l.told
      /\ LinkLoad(l).up = l.up /\ ~LinkLoad(l).marked
  BY DEF Links, LinkLoad
<1>2. Downed(l).id = l.id /\ Downed(l).freed = l.freed /\ Downed(l).marked = l.marked
      /\ Downed(l).up = FALSE /\ Downed(l).told = IF l.up THEN FALSE ELSE l.told
  BY Zenon DEF Links, Downed
<1>3. Downed(l) \in Links
  BY Zenon DEF Links, Downed
<1> QED BY <1>1, <1>2, <1>3

(* The same for a load that may or may not take place.                     *)
LEMMA GotFacts ==
  ASSUME NEW l \in Links, NEW how
  PROVE  /\ Got(l, how) \in Links /\ Got(l, how).id = l.id
         /\ Got(l, how).freed = l.freed /\ Got(l, how).told = l.told
         /\ Got(l, how).up = l.up
         /\ Loads(l, how) \/ ~l.marked => ~Got(l, how).marked
<1>1. CASE Loads(l, how)
  BY <1>1, LinkChanges DEF Got
<1>2. CASE ~Loads(l, how)
  BY <1>2 DEF Got
<1> QED BY <1>1, <1>2

(* A step that changes the fields of one link, neither its name nor        *)
(* freed, and leaves the list and what mesh_process has in hand.           *)
LEMMA OneLinkChanges ==
  ASSUME MeshInv, NEW p \in DOMAIN heap, NEW l \in Links,
         l.id = heap[p].id, l.freed = heap[p].freed,
         heap' = [heap EXCEPT ![p] = l], links' = links,
         walk' = walk \/ (walk.stage # "idle" /\ walk' = [walk EXCEPT !.stage = "event"]),
         held' \subseteq DOMAIN heap
  PROVE  /\ MeshInv' /\ Listed' = Listed /\ DOMAIN heap' = DOMAIN heap
         /\ heap'[p] = l /\ \A q \in DOMAIN heap : q # p => heap'[q] = heap[q]
<1>1. heap \in Seq(Links)
  BY DEF MeshInv, TypeOK
<1>2. /\ heap' \in Seq(Links) /\ Len(heap') = Len(heap) /\ DOMAIN heap' = DOMAIN heap
      /\ heap'[p] = l /\ \A q \in DOMAIN heap : q # p => heap'[q] = heap[q]
  BY <1>1
<1>3. \A q \in DOMAIN heap : heap'[q].id = heap[q].id /\ heap'[q].freed = heap[q].freed
  BY <1>2
<1>4. Listed' = Listed
  BY DEF Listed
<1>5. /\ walk' \in [stage : {"idle", "handlers", "event"},
                    link : 0 .. Len(heap), next : 0 .. Len(heap)]
      /\ walk'.link = walk.link /\ walk'.next = walk.next
      /\ (walk'.stage = "idle") = (walk.link = 0)
  <2>1. CASE walk' = walk
    BY <2>1 DEF MeshInv, TypeOK
  <2>2. CASE walk.stage # "idle" /\ walk' = [walk EXCEPT !.stage = "event"]
    BY <2>2 DEF MeshInv, TypeOK
  <2> QED BY <2>1, <2>2
<1>6. TypeOK'
  BY <1>2, <1>5 DEF MeshInv, TypeOK
<1>7. Listed \subseteq DOMAIN heap
  BY DEF MeshInv, ListInv
<1>8. ListInv'
  BY <1>2, <1>3, <1>4, <1>5, <1>7 DEF MeshInv, ListInv
<1> QED BY <1>2, <1>4, <1>6, <1>8 DEF MeshInv

(* A link that link_new puts at the head of the list.                      *)
LEMMA NewLinkFacts ==
  ASSUME MeshInv, NEW l \in Links, ~l.freed, Of(l.id) = {},
         heap' = Append(heap, l), links' = <<Len(heap) + 1>> \o links,
         walk' = walk, held' \subseteq DOMAIN heap'
  PROVE  /\ MeshInv' /\ Listed' = Listed \cup {Len(heap) + 1}
         /\ DOMAIN heap' = DOMAIN heap \cup {Len(heap) + 1}
         /\ heap'[Len(heap) + 1] = l /\ \A q \in DOMAIN heap : heap'[q] = heap[q]
         /\ Len(heap) + 1 \notin DOMAIN heap
<1> DEFINE n == Len(heap) + 1
<1>1. /\ heap \in Seq(Links) /\ links \in Seq(DOMAIN heap)
      /\ DOMAIN heap = 1 .. Len(heap) /\ Len(heap) \in Nat /\ Len(links) \in Nat
      /\ DOMAIN links = 1 .. Len(links)
  BY DEF MeshInv, TypeOK
<1>2. /\ heap' \in Seq(Links) /\ Len(heap') = n /\ DOMAIN heap' = DOMAIN heap \cup {n}
      /\ heap'[n] = l /\ (\A q \in DOMAIN heap : heap'[q] = heap[q])
      /\ n \notin DOMAIN heap
  BY <1>1, AppendProperties
<1>3. links \in Seq(DOMAIN heap') /\ <<n>> \in Seq(DOMAIN heap') /\ Len(<<n>>) = 1
      /\ <<n>>[1] = n
  <2> DEFINE D == DOMAIN heap
             S == DOMAIN heap'
  <2>1. D \subseteq S /\ n \in S /\ links \in Seq(D)
    BY <1>1, <1>2
  <2> HIDE DEF D, S, n
  <2>2. links \in Seq(S)
    BY <2>1
  <2>3. <<n>> \in Seq(S) /\ Len(<<n>>) = 1 /\ <<n>>[1] = n
    BY <2>1
  <2> QED BY <2>2, <2>3 DEF S
<1> HIDE DEF n
<1>4. /\ links' \in Seq(DOMAIN heap') /\ Len(links') = 1 + Len(links)
      /\ \A j \in 1 .. 1 + Len(links) :
           links'[j] = IF j <= 1 THEN <<n>>[j] ELSE links[j - 1]
  <2> DEFINE S == DOMAIN heap'
             t == <<n>>
  <2>1. links' = t \o links
    BY DEF n
  <2>2. t \in Seq(S) /\ links \in Seq(S) /\ Len(t) = 1
    BY <1>3
  <2> HIDE DEF S, t
  <2>3. /\ t \o links \in Seq(S) /\ Len(t \o links) = Len(t) + Len(links)
        /\ \A j \in 1 .. Len(t) + Len(links) :
             (t \o links)[j] = IF j <= Len(t) THEN t[j] ELSE links[j - Len(t)]
    BY <2>2, ConcatProperties
  <2> QED BY <2>1, <2>2, <2>3 DEF S, t
<1>5. DOMAIN links' = 1 .. 1 + Len(links)
  BY <1>4
<1>6. links'[1] = n /\ \A j \in 1 .. Len(links) : links'[j + 1] = links[j]
  <2>1. links'[1] = n
    BY <1>1, <1>3, <1>4
  <2>2. ASSUME NEW j \in 1 .. Len(links) PROVE links'[j + 1] = links[j]
    <3>1. j + 1 \in 1 .. 1 + Len(links) /\ ~(j + 1 <= 1) /\ (j + 1) - 1 = j
      BY <1>1
    <3> QED BY <1>4, <3>1
  <2> QED BY <2>1, <2>2
<1>7. Listed \subseteq DOMAIN heap
  BY DEF MeshInv, ListInv
<1>8. Listed' = Listed \cup {n}
  <2>1. ASSUME NEW i \in DOMAIN links' PROVE links'[i] \in Listed \cup {n}
    <3>1. CASE i = 1
      BY <1>6, <3>1
    <3>2. CASE i # 1
      <4>1. i - 1 \in 1 .. Len(links) /\ (i - 1) + 1 = i
        BY <1>1, <1>5, <3>2
      <4> QED BY <1>1, <1>6, <4>1 DEF Listed
    <3> QED BY <3>1, <3>2
  <2>2. n \in Listed'
    BY <1>1, <1>5, <1>6, SMTT(20) DEF Listed
  <2>3. ASSUME NEW q \in Listed PROVE q \in Listed'
    <3>1. PICK j \in 1 .. Len(links) : links[j] = q
      BY <1>1 DEF Listed
    <3>2. j + 1 \in DOMAIN links' /\ links'[j + 1] = q
      BY <1>1, <1>5, <1>6, <3>1
    <3> QED BY <3>2 DEF Listed
  <2> QED BY <2>1, <2>2, <2>3 DEF Listed
<1>9. ASSUME NEW i \in DOMAIN links', NEW j \in DOMAIN links', links'[i] = links'[j]
      PROVE  i = j
  <2>1. \A k \in 1 .. Len(links) : links[k] # n
    BY <1>1, <1>2, <1>7 DEF Listed
  <2>2. \A k \in DOMAIN links' : k # 1 =>
          k - 1 \in 1 .. Len(links) /\ links'[k] = links[k - 1] /\ links'[k] # n
    <3> SUFFICES ASSUME NEW k \in DOMAIN links', k # 1
                 PROVE  /\ k - 1 \in 1 .. Len(links) /\ links'[k] = links[k - 1]
                        /\ links'[k] # n
      OBVIOUS
    <3>1. k - 1 \in 1 .. Len(links) /\ (k - 1) + 1 = k
      BY <1>1, <1>5
    <3> QED BY <1>6, <2>1, <3>1
  <2>3. CASE i = 1 \/ j = 1
    BY <1>6, <1>9, <2>2, <2>3
  <2>4. CASE i # 1 /\ j # 1
    <3>1. i - 1 = j - 1
      BY <1>1, <1>9, <2>2, <2>4 DEF MeshInv, ListInv
    <3> QED BY <1>5, <3>1
  <2> QED BY <2>3, <2>4
<1>10. TypeOK'
  <2>1. walk' \in [stage : {"idle", "handlers", "event"},
                   link : 0 .. Len(heap'), next : 0 .. Len(heap')]
    BY <1>1, <1>2 DEF MeshInv, TypeOK, n
  <2> QED BY <1>2, <1>4, <2>1 DEF MeshInv, TypeOK
<1>11. Listed' = {p \in DOMAIN heap' : ~heap'[p].freed}
  BY <1>2, <1>8 DEF MeshInv, ListInv
<1>12. ASSUME NEW p \in Listed', NEW q \in Listed', heap'[p].id = heap'[q].id
       PROVE  p = q
  <2>1. \A r \in Listed : heap[r].id # l.id
    BY DEF Of
  <2> QED BY <1>2, <1>7, <1>8, <1>12, <2>1 DEF MeshInv, ListInv
<1>13. ListInv'
  BY <1>8, <1>9, <1>11, <1>12 DEF MeshInv, ListInv
<1> QED BY <1>2, <1>8, <1>10, <1>13 DEF MeshInv, n

(* link_free, and the turn of the link behind.                             *)
LEMMA FreeFacts ==
  ASSUME MeshInv, DropFree
  PROVE  /\ MeshInv' /\ Listed' = Listed \ {walk.link}
         /\ walk.link \in Listed /\ walk.link \in DOMAIN heap
         /\ DOMAIN heap' = DOMAIN heap /\ heap'[walk.link] = [heap[walk.link] EXCEPT !.freed = TRUE]
         /\ \A q \in DOMAIN heap : q # walk.link => heap'[q] = heap[q]
         /\ walk'.stage # "event"
<1> DEFINE p == walk.link
           n == walk.next
<1>1. /\ heap' = [heap EXCEPT ![p].freed = TRUE] /\ links' = Unlisted(p)
      /\ walk' = Turn(links', n) /\ held' = held /\ walk.stage = "event"
  BY DEF DropFree
<1>2. p \in Listed /\ p \in DOMAIN heap
  BY <1>1 DEF MeshInv, TypeOK, ListInv
<1>3. /\ heap \in Seq(Links) /\ links \in Seq(DOMAIN heap) /\ heap[p] \in Links
      /\ DOMAIN heap = 1 .. Len(heap) /\ Len(heap) \in Nat
  BY <1>2 DEF MeshInv, TypeOK
<1> HIDE DEF p, n
<1>4. [heap[p] EXCEPT !.freed = TRUE] \in Links
  BY <1>3 DEF Links
<1>5. /\ heap' \in Seq(Links) /\ Len(heap') = Len(heap) /\ DOMAIN heap' = DOMAIN heap
      /\ heap'[p] = [heap[p] EXCEPT !.freed = TRUE]
      /\ \A q \in DOMAIN heap : q # p => heap'[q] = heap[q]
  BY <1>1, <1>2, <1>3, <1>4
<1>6. /\ links' \in Seq(DOMAIN heap)
      /\ \A i, j \in DOMAIN links' : links'[i] = links'[j] => i = j
      /\ {links'[i] : i \in DOMAIN links'} = Listed \ {p}
  BY <1>1, <1>2, <1>3, UnlistedFacts, SMTT(20) DEF MeshInv, ListInv
<1>7. Listed' = Listed \ {p}
  BY <1>6 DEF Listed
<1>8. 0 \notin DOMAIN heap /\ (n = 0 \/ n \in Listed \ {p})
  BY <1>3 DEF MeshInv, ListInv, p, n
<1>9. n = 0 \/ \E i \in DOMAIN links' : links'[i] = n
  BY <1>6, <1>8
<1>10. /\ walk'.stage \in {"idle", "handlers"} /\ walk'.link = n
       /\ walk'.next # 0 => walk'.next \in Listed' /\ walk'.next # n
       /\ (walk'.stage = "idle") = (n = 0)
       /\ walk' = [stage |-> walk'.stage, link |-> n, next |-> walk'.next]
  BY <1>1, <1>6, <1>8, <1>9, TurnFacts DEF Listed
<1>11. Listed \subseteq DOMAIN heap
  BY DEF MeshInv, ListInv
<1>12. TypeOK'
  <2>1. walk' \in [stage : {"idle", "handlers", "event"},
                   link : 0 .. Len(heap'), next : 0 .. Len(heap')]
    <3>1. n \in 0 .. Len(heap') /\ walk'.next \in 0 .. Len(heap')
      BY <1>3, <1>5, <1>7, <1>8, <1>10, <1>11
    <3> QED BY <1>10, <3>1
  <2> QED BY <1>1, <1>5, <1>6, <1>10, <2>1 DEF MeshInv, TypeOK
<1>13. Listed' = {q \in DOMAIN heap' : ~heap'[q].freed}
  <2>1. heap'[p].freed
    BY <1>3, <1>5 DEF Links
  <2> QED BY <1>2, <1>5, <1>7, <2>1 DEF MeshInv, ListInv
<1>14. \A q, r \in Listed' : heap'[q].id = heap'[r].id => q = r
  BY <1>5, <1>7, <1>11 DEF MeshInv, ListInv
<1>15. ListInv'
  BY <1>6, <1>7, <1>8, <1>10, <1>13, <1>14 DEF ListInv
<1> QED BY <1>2, <1>5, <1>7, <1>10, <1>12, <1>15 DEF MeshInv, p

(* Each step changes nothing of the heap and the list, or one link, or     *)
(* adds one, or frees one.                                                 *)
Found(id, how) ==
  \E p \in Of(id) :
    /\ Reget \/ Loads(heap[p], how) \/ ~heap[p].marked
    /\ LastMoment \/ ~Going(p)
    /\ heap' = [heap EXCEPT ![p] = Got(heap[p], how)]
    /\ held' = held \cup {p}
    /\ UNCHANGED <<links, walk>>
Created(id, how) ==
  /\ Of(id) = {}
  /\ heap' = Append(heap, Got(Link(id), how))
  /\ links' = <<Len(heap) + 1>> \o links
  /\ held' = held \cup {Len(heap) + 1}
  /\ UNCHANGED walk
Handshaken(l, good) ==
  LET k == IF l.loaded THEN l ELSE LinkLoad(l)
  IN  IF good THEN [k EXCEPT !.up = TRUE, !.told = TRUE] ELSE k

(* The cases of the next-state relation, with the link each one changes.   *)
LEMMA Cases ==
  ASSUME MeshInv, [Next]_vars
  PROVE  \/ \E id \in Hashname, how \in {"id", "key", "add"} :
              Found(id, how) \/ Created(id, how)
         \/ \E p \in DOMAIN heap :
              /\ p \in held
              /\ heap' = [heap EXCEPT ![p] = [heap[p] EXCEPT !.marked = TRUE]]
              /\ held' = held \ {p} /\ UNCHANGED <<links, walk>>
         \/ \E p \in DOMAIN heap :
              /\ p \in held
              /\ heap' = [heap EXCEPT ![p] = Downed(heap[p])]
              /\ UNCHANGED <<links, walk, held>>
         \/ \E p \in DOMAIN heap, good \in BOOLEAN :
              /\ p \in Listed /\ (LastMoment \/ ~Going(p))
              /\ heap' = [heap EXCEPT ![p] = Handshaken(heap[p], good)]
              /\ UNCHANGED <<links, walk, held>>
         \/ Process \/ Stay \/ DropDown \/ DropFree \/ UNCHANGED vars
<1>1. heap \in Seq(Links) /\ Listed \subseteq DOMAIN heap
  BY DEF MeshInv, TypeOK, ListInv
<1>2. ASSUME NEW id \in Hashname, NEW how \in {"id", "key", "add"}, Get(id, how)
      PROVE  Found(id, how) \/ Created(id, how)
  BY <1>2 DEF Get, Found, Created
<1>3. ASSUME NEW p \in DOMAIN heap, Unlink(p)
      PROVE  /\ p \in held
             /\ heap' = [heap EXCEPT ![p] = [heap[p] EXCEPT !.marked = TRUE]]
             /\ held' = held \ {p} /\ UNCHANGED <<links, walk>>
  BY <1>3 DEF Unlink
<1>4. ASSUME NEW p \in DOMAIN heap, LinkDown(p)
      PROVE  /\ p \in held
             /\ heap' = [heap EXCEPT ![p] = Downed(heap[p])]
             /\ UNCHANGED <<links, walk, held>>
  BY <1>4 DEF LinkDown
<1>5. ASSUME NEW p \in DOMAIN heap, NEW good \in BOOLEAN, ReceiveHandshake(p, good)
      PROVE  /\ p \in Listed /\ (LastMoment \/ ~Going(p))
             /\ heap' = [heap EXCEPT ![p] = Handshaken(heap[p], good)]
             /\ UNCHANGED <<links, walk, held>>
  BY <1>5, Zenon DEF ReceiveHandshake, Handshaken
<1> QED BY <1>2, <1>3, <1>4, <1>5 DEF Next

(* What a handshake does to a link.                                        *)
LEMMA HandshakenFacts ==
  ASSUME NEW l \in Links, NEW good \in BOOLEAN
  PROVE  /\ Handshaken(l, good) \in Links /\ Handshaken(l, good).id = l.id
         /\ Handshaken(l, good).freed = l.freed
         /\ (l.told => l.up) => (Handshaken(l, good).told => Handshaken(l, good).up)
         /\ ~l.marked => ~Handshaken(l, good).marked
<1> DEFINE k == IF l.loaded THEN l ELSE LinkLoad(l)
<1>1. /\ k \in Links /\ k.id = l.id /\ k.freed = l.freed
      /\ k.told = l.told /\ k.up = l.up /\ (~l.marked => ~k.marked)
  BY LinkChanges
<1> HIDE DEF k
<1>2. CASE good
  <2> DEFINE h == [k EXCEPT !.up = TRUE, !.told = TRUE]
  <2>1. Handshaken(l, good) = h
    BY <1>2 DEF Handshaken, k
  <2>2. /\ h \in Links /\ h.id = k.id /\ h.freed = k.freed
        /\ h.marked = k.marked /\ h.up
    BY <1>1 DEF Links
  <2> HIDE DEF h
  <2> QED BY <1>1, <2>1, <2>2
<1>3. CASE ~good
  <2>1. Handshaken(l, good) = k
    BY <1>3 DEF Handshaken, k
  <2> QED BY <1>1, <2>1
<1> QED BY <1>2, <1>3

(* What link_new starts with.                                              *)
LEMMA LinkFacts ==
  ASSUME NEW id \in Hashname, NEW how
  PROVE  /\ Got(Link(id), how) \in Links /\ Got(Link(id), how).id = id
         /\ ~Got(Link(id), how).freed /\ ~Got(Link(id), how).told
         /\ ~Got(Link(id), how).marked
<1>1. Link(id) \in Links /\ Link(id).id = id /\ ~Link(id).freed
      /\ ~Link(id).told /\ ~Link(id).marked
  BY DEF Link, Links
<1> QED BY <1>1, GotFacts

(* No step breaks the list; none breaks the rest either if the hypotheses  *)
(* hold under which the application's events and pointers can be trusted.  *)
LEMMA MeshInductive ==
  ASSUME MeshInv, [Next]_vars
  PROVE  /\ MeshInv'
         /\ ~LastMoment /\ EventInv => EventInv'
         /\ ~LastMoment /\ ~Reget /\ KeptInv => KeptInv'
<1>1. /\ heap \in Seq(Links) /\ Listed \subseteq DOMAIN heap /\ held \subseteq DOMAIN heap
      /\ \A p \in DOMAIN heap : heap[p] \in Links
      /\ 0 \notin DOMAIN heap
      /\ walk.stage = "event" => walk.link \in Listed
  BY DEF MeshInv, TypeOK, ListInv
<1>2. ASSUME NEW id \in Hashname, NEW how \in {"id", "key", "add"}, Found(id, how)
      PROVE  /\ MeshInv'
             /\ ~LastMoment /\ EventInv => EventInv'
             /\ ~LastMoment /\ ~Reget /\ KeptInv => KeptInv'
  <2>1. PICK p \in Of(id) :
          /\ Reget \/ Loads(heap[p], how) \/ ~heap[p].marked
          /\ LastMoment \/ ~Going(p)
          /\ heap' = [heap EXCEPT ![p] = Got(heap[p], how)]
          /\ held' = held \cup {p}
          /\ UNCHANGED <<links, walk>>
    BY <1>2 DEF Found
  <2>2. p \in DOMAIN heap /\ p \in Listed /\ heap[p] \in Links
    BY <1>1 DEF Of
  <2> DEFINE l == Got(heap[p], how)
  <2>3. /\ l \in Links /\ l.id = heap[p].id /\ l.freed = heap[p].freed
        /\ l.told = heap[p].told /\ l.up = heap[p].up
        /\ Loads(heap[p], how) \/ ~heap[p].marked => ~l.marked
    BY <2>2, GotFacts
  <2>4. heap' = [heap EXCEPT ![p] = l] /\ held' \subseteq DOMAIN heap
    BY <1>1, <2>1, <2>2
  <2> HIDE DEF l
  <2>5. /\ MeshInv' /\ Listed' = Listed /\ DOMAIN heap' = DOMAIN heap
        /\ heap'[p] = l /\ \A q \in DOMAIN heap : q # p => heap'[q] = heap[q]
    BY <2>1, <2>2, <2>3, <2>4, OneLinkChanges
  <2>6. EventInv => EventInv'
    BY <1>1, <2>1, <2>2, <2>3, <2>5 DEF EventInv
  <2>7. ~LastMoment /\ ~Reget /\ KeptInv => KeptInv'
    BY <1>1, <2>1, <2>2, <2>3, <2>5 DEF KeptInv, Going
  <2> QED BY <2>5, <2>6, <2>7
<1>3. ASSUME NEW id \in Hashname, NEW how \in {"id", "key", "add"}, Created(id, how)
      PROVE  /\ MeshInv'
             /\ ~LastMoment /\ EventInv => EventInv'
             /\ ~LastMoment /\ ~Reget /\ KeptInv => KeptInv'
  <2> DEFINE l == Got(Link(id), how)
             n == Len(heap) + 1
  <2>1. l \in Links /\ l.id = id /\ ~l.freed /\ ~l.told /\ ~l.marked
    BY LinkFacts
  <2>2. /\ Of(id) = {} /\ heap' = Append(heap, l) /\ links' = <<n>> \o links
        /\ held' = held \cup {n} /\ walk' = walk
    BY <1>3 DEF Created
  <2> HIDE DEF l
  <2>3. held' \subseteq DOMAIN heap'
    <3>1. DOMAIN heap' = DOMAIN heap \cup {n}
      BY <1>1, <2>1, <2>2
    <3> QED BY <1>1, <2>2, <3>1
  <2>4. /\ MeshInv' /\ Listed' = Listed \cup {n}
        /\ DOMAIN heap' = DOMAIN heap \cup {n} /\ n \notin DOMAIN heap
        /\ heap'[n] = l /\ \A q \in DOMAIN heap : heap'[q] = heap[q]
    BY <2>1, <2>2, <2>3, NewLinkFacts
  <2> HIDE DEF n
  <2>5. EventInv => EventInv'
    BY <1>1, <2>1, <2>2, <2>4 DEF EventInv
  <2>6. KeptInv => KeptInv'
    BY <1>1, <2>1, <2>2, <2>4 DEF KeptInv
  <2> QED BY <2>4, <2>5, <2>6
<1>4. ASSUME NEW p \in DOMAIN heap, p \in held,
             heap' = [heap EXCEPT ![p] = [heap[p] EXCEPT !.marked = TRUE]],
             held' = held \ {p}, UNCHANGED <<links, walk>>
      PROVE  /\ MeshInv'
             /\ ~LastMoment /\ EventInv => EventInv'
             /\ ~LastMoment /\ ~Reget /\ KeptInv => KeptInv'
  <2> DEFINE l == [heap[p] EXCEPT !.marked = TRUE]
  <2>1. /\ l \in Links /\ l.id = heap[p].id /\ l.freed = heap[p].freed
        /\ l.told = heap[p].told /\ l.up = heap[p].up
    BY <1>1 DEF Links
  <2>2. heap' = [heap EXCEPT ![p] = l] /\ held' \subseteq DOMAIN heap
    BY <1>1, <1>4
  <2> HIDE DEF l
  <2>3. /\ MeshInv' /\ Listed' = Listed /\ DOMAIN heap' = DOMAIN heap
        /\ heap'[p] = l /\ \A q \in DOMAIN heap : q # p => heap'[q] = heap[q]
    BY <1>4, <2>1, <2>2, OneLinkChanges
  <2>4. EventInv => EventInv'
    BY <1>1, <1>4, <2>1, <2>3 DEF EventInv
  <2>5. KeptInv => KeptInv'
    BY <1>1, <1>4, <2>1, <2>3 DEF KeptInv
  <2> QED BY <2>3, <2>4, <2>5
<1>5. ASSUME NEW p \in DOMAIN heap, p \in held,
             heap' = [heap EXCEPT ![p] = Downed(heap[p])], UNCHANGED <<links, walk, held>>
      PROVE  /\ MeshInv'
             /\ ~LastMoment /\ EventInv => EventInv'
             /\ ~LastMoment /\ ~Reget /\ KeptInv => KeptInv'
  <2> DEFINE l == Downed(heap[p])
  <2>1. /\ l \in Links /\ l.id = heap[p].id /\ l.freed = heap[p].freed
        /\ l.marked = heap[p].marked
        /\ (heap[p].told => heap[p].up) => ~l.told
    <3>1. /\ l \in Links /\ l.id = heap[p].id /\ l.freed = heap[p].freed
          /\ l.marked = heap[p].marked /\ l.told = IF heap[p].up THEN FALSE ELSE heap[p].told
      BY <1>1, LinkChanges
    <3> QED BY <3>1
  <2>2. heap' = [heap EXCEPT ![p] = l] /\ held' \subseteq DOMAIN heap
    BY <1>1, <1>5
  <2> HIDE DEF l
  <2>3. /\ MeshInv' /\ Listed' = Listed /\ DOMAIN heap' = DOMAIN heap
        /\ heap'[p] = l /\ \A q \in DOMAIN heap : q # p => heap'[q] = heap[q]
    BY <1>5, <2>1, <2>2, OneLinkChanges
  <2>4. EventInv => EventInv'
    BY <1>1, <1>5, <2>1, <2>3 DEF EventInv
  <2>5. KeptInv => KeptInv'
    BY <1>1, <1>5, <2>1, <2>3 DEF KeptInv
  <2> QED BY <2>3, <2>4, <2>5
<1>6. ASSUME NEW p \in DOMAIN heap, NEW good \in BOOLEAN,
             p \in Listed, LastMoment \/ ~Going(p),
             heap' = [heap EXCEPT ![p] = Handshaken(heap[p], good)],
             UNCHANGED <<links, walk, held>>
      PROVE  /\ MeshInv'
             /\ ~LastMoment /\ EventInv => EventInv'
             /\ ~LastMoment /\ ~Reget /\ KeptInv => KeptInv'
  <2> DEFINE l == Handshaken(heap[p], good)
  <2>1. /\ l \in Links /\ l.id = heap[p].id /\ l.freed = heap[p].freed
        /\ (heap[p].told => heap[p].up) => (l.told => l.up)
        /\ ~heap[p].marked => ~l.marked
    BY <1>1, HandshakenFacts
  <2>2. heap' = [heap EXCEPT ![p] = l] /\ held' \subseteq DOMAIN heap
    BY <1>1, <1>6
  <2> HIDE DEF l
  <2>3. /\ MeshInv' /\ Listed' = Listed /\ DOMAIN heap' = DOMAIN heap
        /\ heap'[p] = l /\ \A q \in DOMAIN heap : q # p => heap'[q] = heap[q]
    BY <1>6, <2>1, <2>2, OneLinkChanges
  <2>4. ~heap[p].freed
    BY <1>6 DEF MeshInv, ListInv
  <2>5. ~LastMoment /\ EventInv => EventInv'
    BY <1>1, <1>6, <2>1, <2>3, <2>4 DEF EventInv, Going
  <2>6. KeptInv => KeptInv'
    BY <1>1, <1>6, <2>1, <2>3 DEF KeptInv
  <2> QED BY <2>3, <2>5, <2>6
<1>7. CASE Process \/ Stay
  <2>1. PICK p : /\ UNCHANGED <<heap, links, held>> /\ walk' = Turn(links, p)
                 /\ p = 0 \/ p \in Listed
    <3>1. CASE Process
      <4>1. links # <<>> => Head(links) \in Listed
        BY <1>1 DEF Listed, MeshInv, TypeOK
      <4> QED BY <3>1, <4>1 DEF Process
    <3>2. CASE Stay
      BY <3>2 DEF Stay, MeshInv, ListInv
    <3> QED BY <1>7, <3>1, <3>2
  <2>2. links \in Seq(DOMAIN heap) /\ \A i, j \in DOMAIN links : links[i] = links[j] => i = j
    BY DEF MeshInv, TypeOK, ListInv
  <2>3. p = 0 \/ \E i \in DOMAIN links : links[i] = p
    BY <2>1 DEF Listed
  <2>4. /\ walk'.stage \in {"idle", "handlers"} /\ walk'.link = p
        /\ walk'.next # 0 => walk'.next \in Listed /\ walk'.next # p
        /\ (walk'.stage = "idle") = (p = 0)
        /\ walk' = [stage |-> walk'.stage, link |-> p, next |-> walk'.next]
    BY <1>1, <2>1, <2>2, <2>3, TurnFacts DEF Listed
  <2>5. Listed' = Listed
    BY <2>1 DEF Listed
  <2>6. TypeOK'
    <3>1. /\ p \in 0 .. Len(heap) /\ walk'.next \in 0 .. Len(heap)
          /\ DOMAIN heap = 1 .. Len(heap) /\ Len(heap) \in Nat
      BY <1>1, <2>1, <2>4
    <3>2. walk' \in [stage : {"idle", "handlers", "event"},
                     link : 0 .. Len(heap), next : 0 .. Len(heap)]
      BY <2>4, <3>1
    <3> QED BY <2>1, <2>4, <3>2 DEF MeshInv, TypeOK
  <2>7. ListInv'
    BY <2>1, <2>4, <2>5 DEF MeshInv, ListInv
  <2> QED BY <2>1, <2>4, <2>5, <2>6, <2>7 DEF MeshInv, EventInv, KeptInv
<1>8. CASE DropDown
  <2> DEFINE p == walk.link
             l == Downed(heap[p])
  <2>1. /\ walk.stage = "handlers" /\ heap[p].marked /\ heap' = [heap EXCEPT ![p] = l]
        /\ walk' = [walk EXCEPT !.stage = "event"] /\ UNCHANGED <<links, held>>
    BY <1>8 DEF DropDown
  <2>2. p \in Listed /\ p \in DOMAIN heap
    BY <1>1, <2>1 DEF MeshInv, TypeOK, ListInv
  <2>3. /\ l \in Links /\ l.id = heap[p].id /\ l.freed = heap[p].freed
        /\ l.marked = heap[p].marked
        /\ (heap[p].told => heap[p].up) => ~l.told
    <3>1. /\ l \in Links /\ l.id = heap[p].id /\ l.freed = heap[p].freed
          /\ l.marked = heap[p].marked /\ l.told = IF heap[p].up THEN FALSE ELSE heap[p].told
      BY <1>1, <2>2, LinkChanges
    <3> QED BY <3>1
  <2> HIDE DEF p, l
  <2>4. /\ MeshInv' /\ Listed' = Listed /\ DOMAIN heap' = DOMAIN heap
        /\ heap'[p] = l /\ \A q \in DOMAIN heap : q # p => heap'[q] = heap[q]
    BY <1>1, <2>1, <2>2, <2>3, OneLinkChanges
  <2>5. walk'.link = p
    BY <2>1 DEF MeshInv, TypeOK, p
  <2>6. EventInv => EventInv'
    BY <1>1, <2>1, <2>2, <2>3, <2>4, <2>5 DEF EventInv
  <2>7. KeptInv => KeptInv'
    BY <1>1, <2>1, <2>2, <2>3, <2>4, <2>5 DEF KeptInv
  <2> QED BY <2>4, <2>6, <2>7
<1>9. CASE DropFree
  <2> DEFINE p == walk.link
  <2>1. /\ MeshInv' /\ Listed' = Listed \ {p} /\ p \in Listed /\ p \in DOMAIN heap
        /\ DOMAIN heap' = DOMAIN heap /\ heap'[p] = [heap[p] EXCEPT !.freed = TRUE]
        /\ \A q \in DOMAIN heap : q # p => heap'[q] = heap[q]
        /\ walk'.stage # "event"
    BY <1>9, FreeFacts
  <2>2. walk.stage = "event" /\ held' = held
    BY <1>9 DEF DropFree
  <2>3. heap'[p].told = heap[p].told /\ heap'[p].up = heap[p].up
        /\ heap'[p].marked = heap[p].marked
    BY <1>1, <2>1 DEF Links
  <2>4. EventInv => EventInv'
    BY <2>1, <2>2, <2>3 DEF EventInv
  <2>5. KeptInv => KeptInv'
    BY <1>1, <2>1, <2>2, <2>3 DEF KeptInv
  <2> QED BY <2>1, <2>4, <2>5
<1>10. CASE UNCHANGED vars
  BY <1>10 DEF vars, MeshInv, TypeOK, ListInv, Listed, EventInv, KeptInv
<1> QED
  BY <1>2, <1>3, <1>4, <1>5, <1>6, <1>7, <1>8, <1>9, <1>10, Cases

(* An empty mesh has nothing that could be wrong.                          *)
LEMMA MeshInitially == Init => MeshInv /\ EventInv /\ KeptInv
<1> SUFFICES ASSUME Init PROVE MeshInv /\ EventInv /\ KeptInv
  OBVIOUS
<1>1. /\ heap = <<>> /\ links = <<>> /\ held = {}
      /\ walk = [stage |-> "idle", link |-> 0, next |-> 0]
  BY DEF Init, Idle
<1>2. DOMAIN heap = {} /\ DOMAIN links = {} /\ Len(heap) = 0
  BY <1>1
<1>3. TypeOK
  BY <1>1, <1>2 DEF TypeOK
<1>4. ListInv /\ EventInv /\ KeptInv
  BY <1>1, <1>2 DEF ListInv, EventInv, KeptInv, Listed
<1> QED BY <1>3, <1>4 DEF MeshInv

(* The types of the list, the heap and what mesh_process has in hand.      *)
THEOREM MeshTypeCorrect == Spec => []TypeOK
<1>1. MeshInv /\ [Next]_vars => MeshInv'
  BY MeshInductive
<1>2. MeshInv => TypeOK
  BY DEF MeshInv
<1> QED BY MeshInitially, <1>1, <1>2, PTL DEF Spec

(* mesh_process meets no freed link, whatever handlers and events do in    *)
(* the middle of its walk, also when they bring back the link whose down   *)
(* event runs.                                                             *)
THEOREM MeshWalkIsSafe == Spec => []WalkIsSafe
<1>1. MeshInv /\ [Next]_vars => MeshInv'
  BY MeshInductive
<1>2. MeshInv => WalkIsSafe
  BY DEF MeshInv, ListInv, WalkIsSafe
<1> QED BY MeshInitially, <1>1, <1>2, PTL DEF Spec

(* The list is the links that are not freed, each once and one for a       *)
(* hashname, whatever handlers and events do.                              *)
THEOREM MeshListIsHeap == Spec => []ListIsHeap
<1>1. MeshInv /\ [Next]_vars => MeshInv'
  BY MeshInductive
<1>2. MeshInv => ListIsHeap
  BY DEF MeshInv, ListInv, ListIsHeap
<1> QED BY MeshInitially, <1>1, <1>2, PTL DEF Spec

(* If the down event of a link that is being removed does not bring the    *)
(* link back, no link is freed that the application believes to be up.     *)
THEOREM MeshEventedDown ==
  ASSUME ~LastMoment
  PROVE  Spec => []EventedDown
<1>1. MeshInv /\ EventInv /\ [Next]_vars => MeshInv' /\ EventInv'
  BY MeshInductive
<1>2. EventInv => EventedDown
  BY DEF EventInv, EventedDown
<1> QED BY MeshInitially, <1>1, <1>2, PTL DEF Spec

(* If, besides, the application gets a link it has unlinked only by a call *)
(* that takes the mark away, a link it got is there until it unlinks it.   *)
THEOREM MeshKeptLink ==
  ASSUME ~LastMoment, ~Reget
  PROVE  Spec => []KeptLink
<1>1. MeshInv /\ KeptInv /\ [Next]_vars => MeshInv' /\ KeptInv'
  BY MeshInductive
<1>2. MeshInv /\ KeptInv => KeptLink
  BY DEF MeshInv, ListInv, KeptInv, KeptLink
<1> QED BY MeshInitially, <1>1, <1>2, PTL DEF Spec
-----------------------------------------------------------------------------
(* Frames.                                                                 *)

(* A head pointer is kept only while is_sending is set; the walk of        *)
(* util_frames_receive is at a node that has not been freed.               *)
SenderInv ==
  /\ outgone \in Nat /\ sending.head \in Nat
  /\ ~sending.busy => sending.head = 0
  /\ sending.head # 0 => sending.head > outgone
ReaderInv ==
  /\ ingone \in Nat /\ reading \in Nat
  /\ reading # 0 => reading > ingone
LockInv == SenderInv /\ ReaderInv

(* The loop that frees leading empty nodes does nothing while the          *)
(* application holds the queue.                                            *)
LEMMA FreedHeld == \A q, owned, n : owned /\ Freed(q, owned, n) => n = 0
  BY DEF Freed

(* No pointer is held at first.                                            *)
LEMMA LockInit == FrameInit => LockInv
  BY DEF FrameInit, NotSending, LockInv, SenderInv, ReaderInv

(* What util_frames_inbox does to the receiver's queue, whatever the data  *)
(* and however many frames it completes.                                   *)
LEMMA InboxLocks ==
  ASSUME ReaderInv, NEW data, Inbox(data) PROVE ReaderInv'
<1>1. PICK s \in Outcomes(data) : \E q \in {inbox \o s.q} :
        \E n \in 0 .. Len(q) :
          /\ IF s.q = <<>> THEN n = 0 ELSE Freed(Front(q), reading # 0, n)
          /\ ingone' = ingone + n
          /\ reading' = reading
  BY DEF Inbox
<1>2. PICK q \in {inbox \o s.q} : \E n \in 0 .. Len(q) :
          /\ IF s.q = <<>> THEN n = 0 ELSE Freed(Front(q), reading # 0, n)
          /\ ingone' = ingone + n
          /\ reading' = reading
  BY <1>1
<1>3. PICK n \in 0 .. Len(q) :
          /\ IF s.q = <<>> THEN n = 0 ELSE Freed(Front(q), reading # 0, n)
          /\ ingone' = ingone + n
          /\ reading' = reading
  BY <1>2
<1>4. n \in Nat
  BY <1>3, SMT
<1>5. reading # 0 => n = 0
  BY <1>3, FreedHeld, Zenon
<1> QED
  BY <1>3, <1>4, <1>5 DEF ReaderInv

(* Each step keeps the invariant: only Outbox and Inbox free nodes.        *)
LEMMA LockStep == LockInv /\ [FrameNext]_frameVars => LockInv'
<1> SUFFICES ASSUME LockInv, [FrameNext]_frameVars PROVE LockInv'
  OBVIOUS
<1> USE DEF LockInv
<1>1. CASE Send
  <2>1. PICK len \in Lens :
          sending' = [busy |-> TRUE,
                      head |-> IF outbox = <<>> THEN 0 ELSE outgone + 1,
                      pkt |-> Packet(Len(sent) + 1, len)]
    BY <1>1 DEF Send
  <2>2. /\ sending'.busy
        /\ sending'.head = IF outbox = <<>> THEN 0 ELSE outgone + 1
    BY <2>1
  <2>3. outgone' = outgone /\ ingone' = ingone /\ reading' = reading
    BY <1>1 DEF Send, receiver
  <2> QED
    BY <2>2, <2>3 DEF SenderInv, ReaderInv
<1>2. CASE SendLink
  BY <1>2 DEF SendLink, NotSending, receiver, SenderInv, ReaderInv
<1>3. CASE Outbox
  <2>1. UNCHANGED <<sending, ingone, reading>>
    BY <1>3 DEF Outbox, receiver
  <2>2. \/ outgone' = outgone
        \/ \E n \in 0 .. Len(outbox) :
             Freed(outbox, sending.busy, n) /\ outgone' = outgone + n
    BY <1>3 DEF Outbox
  <2>3. CASE outgone' = outgone
    BY <2>1, <2>3 DEF SenderInv, ReaderInv
  <2>4. ASSUME NEW n \in 0 .. Len(outbox),
               Freed(outbox, sending.busy, n), outgone' = outgone + n
        PROVE  LockInv'
    <3>1. n \in Nat
      BY <2>4, SMT
    <3>2. sending.busy => n = 0
      BY <2>4, FreedHeld, Zenon
    <3> QED
      BY <2>1, <2>4, <3>1, <3>2 DEF SenderInv, ReaderInv
  <2> QED
    BY <2>2, <2>3, <2>4
<1>4. CASE Sent
  BY <1>4 DEF Sent, receiver, SenderInv, ReaderInv
<1>5. CASE InboxStream
  <2>1. PICK n : Inbox(SubSeq(FlattenSeq(wire), 1, n))
    BY <1>5 DEF InboxStream
  <2>2. ReaderInv'
    BY <2>1, InboxLocks
  <2> QED
    BY <1>5, <2>2 DEF InboxStream, sender, SenderInv
<1>6. CASE InboxDatagram
  <2>1. ReaderInv'
    BY <1>6, InboxLocks DEF InboxDatagram
  <2> QED
    BY <1>6, <2>1 DEF InboxDatagram, sender, SenderInv
<1>7. CASE Lose
  BY <1>7 DEF Lose, sender, receiver, SenderInv, ReaderInv
<1>8. CASE Clear
  BY <1>8 DEF Clear, sender, SenderInv, ReaderInv
<1>9. CASE Receive
  BY <1>9 DEF Receive, sender, SenderInv, ReaderInv
<1>10. CASE ReceiveWalk
  <2>1. UNCHANGED <<sender, ingone>>
    BY <1>10 DEF ReceiveWalk
  <2>2. reading' \in {0, reading, reading + 1} /\ reading > ingone
    BY <1>10 DEF ReceiveWalk
  <2> QED
    BY <2>1, <2>2 DEF sender, SenderInv, ReaderInv
<1>11. CASE UNCHANGED frameVars
  BY <1>11 DEF frameVars, SenderInv, ReaderInv
<1> QED
  BY <1>1, <1>2, <1>3, <1>4, <1>5, <1>6, <1>7, <1>8, <1>9, <1>10, <1>11
  DEF FrameNext

(* "internal queues for ISR safety": for every header and packet length,   *)
(* transport and number of losses, no pointer into a queue of util_frames  *)
(* that a call of the application holds is freed under it.                 *)
THEOREM FramesNoDangling == FrameSpec => []NoDangling
<1>1. LockInv => NoDangling
  BY DEF LockInv, SenderInv, ReaderInv, NoDangling
<1> QED
  BY <1>1, LockInit, LockStep, PTL DEF FrameSpec
-----------------------------------------------------------------------------
(* A set of numbers has a least one: what stands here for an induction.    *)
LEMMA LeastNumber ==
  ASSUME NEW S \in SUBSET Nat, S # {}
  PROVE  \E m \in S : \A k \in S : m <= k
<1> DEFINE R == OpToRel(<, Nat)
<1>1. IsWellFoundedOn(R, Nat)
  BY NatLessThanWellFounded
<1>2. \A x, y \in Nat : <<x, y>> \in R <=> x < y
  BY DEF OpToRel
<1> HIDE DEF R
<1>3. PICK m \in S : \A y \in S : ~(<<y, m>> \in R)
  BY <1>1, WFMin
<1>4. ASSUME NEW k \in S PROVE m <= k
  <2>1. ~(<<k, m>> \in R) /\ k \in Nat /\ m \in Nat
    BY <1>3
  <2>2. ~(k < m)
    BY <1>2, <2>1
  <2> QED BY <2>1, <2>2
<1> QED BY <1>4

(* So a set of numbers that holds n + 1 if it holds n goes on to the end.  *)
LEMMA Counting ==
  ASSUME NEW a \in Nat, NEW b \in Nat, NEW T,
         a \in T, \A n \in a .. b : n \in T /\ n + 1 <= b => n + 1 \in T
  PROVE  \A n \in a .. b : n \in T
<1> DEFINE bad == {n \in a .. b : n \notin T}
<1> SUFFICES ASSUME bad # {} PROVE FALSE
  OBVIOUS
<1>1. bad \in SUBSET Nat
  OBVIOUS
<1>2. PICK m \in bad : \A k \in bad : m <= k
  BY <1>1, LeastNumber
<1>3. m \in a .. b /\ m \notin T /\ m # a
  OBVIOUS
<1>4. m - 1 \in a .. b /\ (m - 1) + 1 = m /\ (m - 1) + 1 <= b /\ ~(m <= m - 1)
  BY <1>3
<1>5. m - 1 \in T
  BY <1>2, <1>4
<1> QED BY <1>3, <1>4, <1>5

(* The flattening of some chunks, and of one chunk more.                   *)
Flattening(w, n, g) ==
  g = [i \in 1 .. n |-> IF i = 1 THEN w[i] ELSE g[i - 1] \o w[i]]

LEMMA FlatteningExists ==
  ASSUME NEW w, NEW n \in Nat \ {0}
  PROVE  \E g : Flattening(w, n, g)
<1> DEFINE T == {k \in 1 .. n : \E g : Flattening(w, k, g)}
<1>1. 1 \in T
  <2> DEFINE g == [i \in 1 .. 1 |-> w[i]]
  <2>1. Flattening(w, 1, g)
    BY DEF Flattening
  <2> QED BY <2>1
<1>2. ASSUME NEW k \in 1 .. n, k \in T, k + 1 <= n PROVE k + 1 \in T
  <2>1. PICK g : Flattening(w, k, g)
    BY <1>2
  <2> DEFINE h == [i \in 1 .. k + 1 |->
                     IF i = k + 1 THEN g[k] \o w[k + 1] ELSE g[i]]
             e == [i \in 1 .. k + 1 |->
                     IF i = 1 THEN w[i] ELSE h[i - 1] \o w[i]]
  <2>2. ASSUME NEW i \in 1 .. k + 1 PROVE h[i] = e[i]
    <3>1. CASE i = k + 1
      <4>1. i # 1 /\ i - 1 = k /\ k \in 1 .. k + 1 /\ k # k + 1
        BY <3>1
      <4>2. h[k] = g[k]
        BY <4>1
      <4> QED BY <3>1, <4>1, <4>2
    <3>2. CASE i # k + 1
      <4>1. i \in 1 .. k
        BY <3>2
      <4>2. h[i] = g[i]
        BY <3>2
      <4>3. g[i] = IF i = 1 THEN w[i] ELSE g[i - 1] \o w[i]
        BY <2>1, <4>1 DEF Flattening
      <4>4. i # 1 => i - 1 \in 1 .. k + 1 /\ i - 1 # k + 1
        BY <4>1
      <4>5. i # 1 => h[i - 1] = g[i - 1]
        BY <4>4
      <4>6. e[i] = IF i = 1 THEN w[i] ELSE h[i - 1] \o w[i]
        OBVIOUS
      <4> HIDE DEF h, e
      <4> QED BY <4>2, <4>3, <4>5, <4>6
    <3> QED BY <3>1, <3>2
  <2>3. h = e
    BY <2>2
  <2>4. Flattening(w, k + 1, h)
    <3> HIDE DEF h
    <3> QED BY <2>3 DEF Flattening
  <2> QED BY <1>2, <2>4
<1> HIDE DEF T
<1>3. n \in T
  <2>1. \A k \in 1 .. n : k \in T
    BY <1>1, <1>2, Counting
  <2> QED BY <2>1
<1> QED BY <1>3 DEF T

LEMMA FlatteningIsFlatten ==
  ASSUME NEW w, Len(w) \in Nat \ {0}
  PROVE  \E g : Flattening(w, Len(w), g) /\ FlattenSeq(w) = g[Len(w)]
<1>1. \E g : g = [i \in 1 .. Len(w) |-> IF i = 1 THEN w[i] ELSE g[i - 1] \o w[i]]
  BY FlatteningExists DEF Flattening
<1> DEFINE f == CHOOSE g : g = [i \in 1 .. Len(w) |->
                                  IF i = 1 THEN w[i] ELSE g[i - 1] \o w[i]]
<1>2. f = [i \in 1 .. Len(w) |-> IF i = 1 THEN w[i] ELSE f[i - 1] \o w[i]]
  BY <1>1
<1>3. FlattenSeq(w) = f[Len(w)]
  BY DEF FlattenSeq
<1> HIDE DEF f
<1> QED BY <1>2, <1>3 DEF Flattening

LEMMA FlattenOne ==
  ASSUME NEW x
  PROVE  FlattenSeq(<<x>>) = x /\ FlattenSeq(<<>>) = <<>>
<1> DEFINE w == <<x>>
<1>1. Len(w) = 1 /\ w[1] = x
  OBVIOUS
<1> HIDE DEF w
<1>e. Len(w) \in Nat \ {0} /\ 1 \in 1 .. Len(w)
  BY <1>1
<1>2. PICK g : Flattening(w, Len(w), g) /\ FlattenSeq(w) = g[Len(w)]
  BY <1>e, FlatteningIsFlatten
<1>3. g[1] = w[1]
  BY <1>e, <1>2 DEF Flattening
<1>4. FlattenSeq(<<>>) = <<>>
  BY DEF FlattenSeq
<1> QED BY <1>1, <1>2, <1>3, <1>4 DEF w

LEMMA FlattenType ==
  ASSUME NEW S, NEW w \in Seq(Seq(S))
  PROVE  FlattenSeq(w) \in Seq(S)
<1>1. CASE w = <<>>
  <2>1. FlattenSeq(<<>>) = <<>>
    BY DEF FlattenSeq
  <2>2. FlattenSeq(w) = FlattenSeq(<<>>)
    BY <1>1, Zenon
  <2>3. <<>> \in Seq(S)
    OBVIOUS
  <2> QED BY <2>1, <2>2, <2>3, Zenon
<1>2. CASE w # <<>>
  <2>1. Len(w) \in Nat \ {0}
    BY <1>2
  <2>2. \A i \in 1 .. Len(w) : w[i] \in Seq(S)
    OBVIOUS
  <2>3. PICK g : Flattening(w, Len(w), g) /\ FlattenSeq(w) = g[Len(w)]
    BY <2>1, FlatteningIsFlatten
  <2>4. \A i \in 1 .. Len(w) : g[i] = IF i = 1 THEN w[i] ELSE g[i - 1] \o w[i]
    BY <2>3 DEF Flattening
  <2> DEFINE T == {i \in 1 .. Len(w) : g[i] \in Seq(S)}
  <2>5. 1 \in T
    BY <2>1, <2>2, <2>4
  <2>6. ASSUME NEW i \in 1 .. Len(w), i \in T, i + 1 <= Len(w)
        PROVE  i + 1 \in T
    <3>1. i + 1 \in 1 .. Len(w) /\ i + 1 # 1 /\ (i + 1) - 1 = i
      BY <2>1, <2>6
    <3>2. g[i + 1] = g[i] \o w[i + 1]
      BY <2>4, <3>1
    <3>3. g[i] \o w[i + 1] \in Seq(S)
      BY <2>2, <2>6, <3>1, ConcatProperties
    <3> QED BY <3>1, <3>2, <3>3
  <2> HIDE DEF T
  <2>7. Len(w) \in T
    <3>1. 1 \in Nat /\ Len(w) \in Nat /\ Len(w) \in 1 .. Len(w)
      BY <2>1
    <3>2. \A i \in 1 .. Len(w) : i \in T
      BY <2>5, <2>6, <3>1, Counting
    <3> QED BY <3>1, <3>2
  <2> QED BY <2>3, <2>7 DEF T
<1> QED BY <1>1, <1>2

LEMMA FlattenAppend ==
  ASSUME NEW S, NEW w \in Seq(Seq(S)), NEW x \in Seq(S)
  PROVE  FlattenSeq(Append(w, x)) = FlattenSeq(w) \o x
<1> DEFINE u == Append(w, x)
           L == Len(w)
<1>1. /\ Len(u) = L + 1 /\ L \in Nat /\ u[L + 1] = x
      /\ \A i \in 1 .. L : u[i] = w[i]
  OBVIOUS
<1>2. CASE w = <<>>
  <2>1. u = <<x>>
    BY <1>2
  <2>2. <<>> \o x = x
    OBVIOUS
  <2> HIDE DEF u
  <2> QED BY <1>2, <2>1, <2>2, FlattenOne DEF u
<1>3. CASE w # <<>>
  <2>1. L \in Nat \ {0}
    BY <1>3
  <2> HIDE DEF u
  <2>2. PICK g : Flattening(w, L, g) /\ FlattenSeq(w) = g[L]
    BY <2>1, FlatteningIsFlatten
  <2>3. PICK h : Flattening(u, L + 1, h) /\ FlattenSeq(u) = h[L + 1]
    BY <1>1, FlatteningIsFlatten
  <2> HIDE DEF L
  <2>4. \A i \in 1 .. L : g[i] = IF i = 1 THEN w[i] ELSE g[i - 1] \o w[i]
    BY <2>2 DEF Flattening
  <2>5. \A i \in 1 .. L + 1 : h[i] = IF i = 1 THEN u[i] ELSE h[i - 1] \o u[i]
    BY <2>3 DEF Flattening
  <2> DEFINE T == {i \in 1 .. L : h[i] = g[i]}
  <2>6. 1 \in T
    <3>1. 1 \in 1 .. L /\ 1 \in 1 .. L + 1
      BY <2>1
    <3> QED BY <1>1, <2>4, <2>5, <3>1
  <2>7. ASSUME NEW i \in 1 .. L, i \in T, i + 1 <= L
        PROVE  i + 1 \in T
    <3>1. i + 1 \in 1 .. L /\ i + 1 # 1 /\ (i + 1) - 1 = i /\ i + 1 \in 1 .. L + 1
      BY <2>1, <2>7
    <3>2. g[i + 1] = g[i] \o w[i + 1] /\ h[i + 1] = h[i] \o u[i + 1]
      BY <2>4, <2>5, <3>1
    <3>3. h[i] = g[i] /\ u[i + 1] = w[i + 1]
      BY <1>1, <2>7, <3>1
    <3> QED BY <3>1, <3>2, <3>3
  <2> HIDE DEF T
  <2>8. L \in T
    <3>1. 1 \in Nat /\ L \in Nat /\ L \in 1 .. L
      BY <2>1
    <3>2. \A i \in 1 .. L : i \in T
      BY <2>6, <2>7, <3>1, Counting
    <3> QED BY <3>1, <3>2
  <2>9. h[L + 1] = h[L] \o u[L + 1]
    <3>1. L + 1 \in 1 .. L + 1 /\ L + 1 # 1 /\ (L + 1) - 1 = L
      BY <2>1
    <3> QED BY <2>5, <3>1
  <2>10. h[L] = g[L]
    BY <2>8 DEF T
  <2> QED BY <1>1, <2>2, <2>3, <2>9, <2>10 DEF u
<1> QED BY <1>2, <1>3

(* The states of util_frames_inbox after the bytes 0 .. n of its data.     *)
InboxRun(s0, data, n, g) ==
  g = [i \in 0 .. n |->
         IF i = 0 THEN {s0} ELSE UNION {After(s, data, i) : s \in g[i - 1]}]

LEMMA InboxRunExists ==
  ASSUME NEW s0, NEW data, NEW n \in Nat
  PROVE  \E g : InboxRun(s0, data, n, g)
<1> DEFINE T == {k \in 0 .. n : \E g : InboxRun(s0, data, k, g)}
<1>1. 0 \in T
  <2> DEFINE g == [i \in 0 .. 0 |-> {s0}]
  <2>1. InboxRun(s0, data, 0, g)
    BY DEF InboxRun
  <2> QED BY <2>1
<1>2. ASSUME NEW k \in 0 .. n, k \in T, k + 1 <= n PROVE k + 1 \in T
  <2>1. PICK g : InboxRun(s0, data, k, g)
    BY <1>2
  <2> DEFINE last == UNION {After(s, data, k + 1) : s \in g[k]}
             h == [i \in 0 .. k + 1 |-> IF i = k + 1 THEN last ELSE g[i]]
             e == [i \in 0 .. k + 1 |->
                     IF i = 0 THEN {s0}
                     ELSE UNION {After(s, data, i) : s \in h[i - 1]}]
  <2>2. ASSUME NEW i \in 0 .. k + 1 PROVE h[i] = e[i]
    <3>1. CASE i = k + 1
      <4>1. i # 0 /\ i - 1 = k /\ k \in 0 .. k + 1 /\ k # k + 1
        BY <3>1
      <4>2. h[k] = g[k] /\ h[i] = last
        BY <3>1, <4>1
      <4>3. e[i] = UNION {After(s, data, i) : s \in h[i - 1]}
        BY <4>1
      <4> HIDE DEF h, e
      <4> QED BY <3>1, <4>1, <4>2, <4>3
    <3>2. CASE i # k + 1
      <4>1. i \in 0 .. k
        BY <3>2
      <4>2. h[i] = g[i]
        BY <3>2
      <4>3. g[i] = IF i = 0 THEN {s0}
                   ELSE UNION {After(s, data, i) : s \in g[i - 1]}
        BY <2>1, <4>1 DEF InboxRun
      <4>4. i # 0 => i - 1 \in 0 .. k + 1 /\ i - 1 # k + 1
        BY <4>1
      <4>5. i # 0 => h[i - 1] = g[i - 1]
        BY <4>4
      <4>6. e[i] = IF i = 0 THEN {s0}
                   ELSE UNION {After(s, data, i) : s \in h[i - 1]}
        OBVIOUS
      <4> HIDE DEF h, e
      <4> QED BY <4>2, <4>3, <4>5, <4>6
    <3> QED BY <3>1, <3>2
  <2>3. h = e
    <3>1. DOMAIN h = 0 .. k + 1 /\ DOMAIN e = 0 .. k + 1
      OBVIOUS
    <3>2. h = [i \in 0 .. k + 1 |-> h[i]] /\ e = [i \in 0 .. k + 1 |-> e[i]]
      OBVIOUS
    <3> HIDE DEF h, e
    <3> QED BY <2>2, <3>1, <3>2
  <2>4. InboxRun(s0, data, k + 1, h)
    <3> HIDE DEF h
    <3> QED BY <2>3 DEF InboxRun
  <2>5. k + 1 \in 0 .. n
    BY <1>2
  <2> QED BY <2>4, <2>5
<1> HIDE DEF T
<1>3. n \in T
  <2>1. 0 \in Nat /\ n \in 0 .. n
    OBVIOUS
  <2>2. \A k \in 0 .. n : k \in T
    BY <1>1, <1>2, <2>1, Counting
  <2> QED BY <2>1, <2>2
<1> QED BY <1>3 DEF T

(* What every byte keeps holds at the end of the data.                     *)
LEMMA InboxInduction ==
  ASSUME NEW data, Len(data) \in Nat, NEW K,
         [len |-> in.len, buf |-> in.buf, q |-> <<>>, from |-> 1,
          dead |-> FALSE] \in K[0],
         \A i \in 1 .. Len(data) : \A s \in K[i - 1] :
           After(s, data, i) \subseteq K[i]
  PROVE  Outcomes(data) \subseteq K[Len(data)]
<1> DEFINE n == Len(data)
           s0 == [len |-> in.len, buf |-> in.buf, q |-> <<>>, from |-> 1,
                  dead |-> FALSE]
           f == CHOOSE g : g = [i \in 0 .. n |-> IF i = 0 THEN {s0}
                   ELSE UNION {After(s, data, i) : s \in g[i - 1]}]
<1>1. Outcomes(data) = f[n]
  BY DEF Outcomes
<1>2. s0 \in K[0]
  OBVIOUS
<1> HIDE DEF s0
<1>3. f = [i \in 0 .. n |-> IF i = 0 THEN {s0}
             ELSE UNION {After(s, data, i) : s \in f[i - 1]}]
  <2>1. \E g : g = [i \in 0 .. n |-> IF i = 0 THEN {s0}
                      ELSE UNION {After(s, data, i) : s \in g[i - 1]}]
    <3>1. n \in Nat
      OBVIOUS
    <3> HIDE DEF n
    <3>2. PICK g : InboxRun(s0, data, n, g)
      BY <3>1, InboxRunExists, Zenon
    <3> QED BY <3>2, Zenon DEF InboxRun
  <2> QED BY <2>1, Zenon
<1> HIDE DEF f
<1> DEFINE T == {i \in 0 .. n : f[i] \subseteq K[i]}
<1>4. 0 \in T
  <2>1. 0 \in 0 .. n
    OBVIOUS
  <2>2. f[0] = {s0}
    BY <1>3, <2>1
  <2> QED BY <1>2, <2>1, <2>2
<1>5. ASSUME NEW i \in 0 .. n, i \in T, i + 1 <= n PROVE i + 1 \in T
  <2>1. i + 1 \in 0 .. n /\ i + 1 # 0 /\ (i + 1) - 1 = i /\ i + 1 \in 1 .. n
    BY <1>5
  <2>2. f[i + 1] = UNION {After(s, data, i + 1) : s \in f[i]}
    BY <1>3, <2>1
  <2>3. \A s \in K[i] : After(s, data, i + 1) \subseteq K[i + 1]
    BY <2>1
  <2>4. f[i] \subseteq K[i]
    BY <1>5
  <2>5. f[i + 1] \subseteq K[i + 1]
    BY <2>2, <2>3, <2>4
  <2> QED BY <2>1, <2>5
<1> HIDE DEF T
<1>6. n \in T
  <2>1. 0 \in Nat /\ n \in 0 .. n /\ n \in Nat
    OBVIOUS
  <2> HIDE DEF n
  <2>2. \A k \in 0 .. n : k \in T
    BY <1>4, <1>5, <2>1, Counting
  <2> QED BY <2>1, <2>2
<1> QED BY <1>1, <1>6 DEF T
-----------------------------------------------------------------------------
(* Headers and packets, byte by byte.                                      *)

(* What a sequence holds with one more.                                    *)
LEMMA OneMoreByte ==
  ASSUME NEW S, NEW p \in Seq(S), NEW b \in S
  PROVE  LET z == Append(p, b) IN
         /\ z \in Seq(S) /\ Len(z) = Len(p) + 1 /\ z[Len(p) + 1] = b
         /\ \A i \in 1 .. Len(p) : z[i] = p[i]
         /\ Len(p) \in Nat /\ DOMAIN z = 1 .. Len(p) + 1 /\ z # <<>>
OBVIOUS

LEMMA SameBytes ==
  ASSUME NEW S, NEW s \in Seq(S), NEW t \in Seq(S), Len(s) = Len(t),
         \A j \in 1 .. Len(s) : s[j] = t[j]
  PROVE  s = t
BY SeqEqual

LEMMA LensFacts ==
  /\ HeaderLen \in Nat \ {0} /\ MaxLen \in Nat
  /\ \A m \in Lens : m \in Nat /\ m >= HeaderLen /\ m <= MaxLen
BY FramesAssumption

LEMMA HeaderFacts ==
  ASSUME NEW m \in Nat
  PROVE  /\ Header(m) \in Seq(Byte) /\ Len(Header(m)) = HeaderLen
         /\ DOMAIN Header(m) = 1 .. HeaderLen
         /\ \A j \in 1 .. HeaderLen :
              Header(m)[j] = [kind |-> "head", n |-> m, at |-> j]
<1>1. HeaderLen \in Nat
  BY LensFacts
<1>2. \A j \in 1 .. HeaderLen : [kind |-> "head", n |-> m, at |-> j] \in Byte
  BY DEF Byte
<1> QED BY <1>1, <1>2 DEF Header

LEMMA PacketFacts ==
  ASSUME NEW x \in Nat, NEW m \in Nat
  PROVE  /\ Packet(x, m) \in Seq(Byte) /\ Len(Packet(x, m)) = m
         /\ DOMAIN Packet(x, m) = 1 .. m
         /\ \A j \in 1 .. m :
              Packet(x, m)[j] = [kind |-> "data", n |-> x, at |-> j]
<1>1. \A j \in 1 .. m : [kind |-> "data", n |-> x, at |-> j] \in Byte
  BY DEF Byte
<1> QED BY <1>1 DEF Packet

(* The packets sent are numbered.                                          *)
Numbered(ss) ==
  /\ ss \in Seq(Seq(Byte))
  /\ \A x \in 1 .. Len(ss) : Len(ss[x]) \in Lens /\ ss[x] = Packet(x, Len(ss[x]))

(* A spot in the stream of frames: the bytes up to i of a header with the  *)
(* length m and the m bytes of packet x behind it.  The header of an empty *)
(* node comes after packet x and has nothing behind it.                    *)
Spots == [x : Nat, m : Nat, i : Nat]
ByteAt(l) ==
  IF l.i <= HeaderLen THEN [kind |-> "head", n |-> l.m, at |-> l.i]
  ELSE [kind |-> "data", n |-> l.x, at |-> l.i - HeaderLen]
Ended(l) == l.i = HeaderLen + l.m
Fits(ss, l) ==
  /\ l \in Spots /\ l.i \in 1 .. HeaderLen + l.m /\ l.x \in 0 .. Len(ss)
  /\ l.m # 0 => l.x \in 1 .. Len(ss) /\ l.m = Len(ss[l.x])
Follows(l, k) ==
  IF Ended(l) THEN k.i = 1 /\ k.x = IF k.m = 0 THEN l.x ELSE l.x + 1
  ELSE k.x = l.x /\ k.m = l.m /\ k.i = l.i + 1

(* The states of util_frames_inbox, and what is right at spot l of the     *)
(* stream after i bytes of the data, if r packets came before: q has those *)
(* behind, and len, buf and from are what this spot asks for.              *)
InStates == [len : Nat, buf : Seq(Byte), q : Seq(Seq(Byte)),
             from : Nat \ {0}, dead : BOOLEAN]
InHeader(r, l, s, data, i) ==
  /\ s.len = HeaderLen
  /\ l.i = Len(s.buf) /\ l.i < HeaderLen /\ s.from + l.i = i + 1
  /\ l.x = r + Len(s.q) + (IF l.m = 0 THEN 0 ELSE 1)
  /\ \A j \in 1 .. l.i :
       data[s.from + j - 1] = [kind |-> "head", n |-> l.m, at |-> j]
Between(r, l, s, i) ==
  /\ s.len = HeaderLen /\ s.buf = <<>> /\ s.from = i + 1
  /\ Ended(l) /\ l.x = r + Len(s.q)
InPacket(ss, r, l, s) ==
  /\ s.len # HeaderLen /\ s.len = l.m
  /\ l.i = HeaderLen + Len(s.buf) /\ ~Ended(l)
  /\ l.x = r + Len(s.q) + 1
  /\ \A j \in 1 .. Len(s.buf) : s.buf[j] = ss[l.x][j]
Parsing(ss, r, l, s, data, i) ==
  /\ s \in InStates /\ ~s.dead
  /\ \A j \in 1 .. Len(s.q) : s.q[j] = ss[r + j]
  /\ \/ InHeader(r, l, s, data, i)
     \/ Between(r, l, s, i)
     \/ InPacket(ss, r, l, s)

(* What the parts of a state are.                                          *)
LEMMA InStateParts ==
  ASSUME NEW s \in InStates
  PROVE  /\ s.len \in Nat /\ s.buf \in Seq(Byte) /\ s.q \in Seq(Seq(Byte))
         /\ s.from \in Nat /\ s.from # 0 /\ Len(s.q) \in Nat /\ Len(s.buf) \in Nat
<1>1. s.len \in Nat /\ s.buf \in Seq(Byte) /\ s.q \in Seq(Seq(Byte))
      /\ s.from \in Nat \ {0}
  BY DEF InStates
<1> QED BY <1>1, LenProperties

(* A byte of a header.                                                     *)
LEMMA HeaderByte ==
  ASSUME HeaderLen \notin Lens,
         NEW ss, Numbered(ss), NEW r \in Nat, NEW l, NEW k, NEW s, NEW data,
         NEW i \in Nat, i + 1 <= Len(data), data \in Seq(Byte),
         Fits(ss, l), Fits(ss, k), Follows(l, k), data[i + 1] = ByteAt(k),
         Parsing(ss, r, l, s, data, i),
         InHeader(r, l, s, data, i) \/ Between(r, l, s, i)
  PROVE  \A t \in After(s, data, i + 1) : Parsing(ss, r, k, t, data, i + 1)
<1> DEFINE bytes == Append(s.buf, data[i + 1])
           H == HeaderLen
<1>1. /\ l.x \in Nat /\ l.m \in Nat /\ l.i \in Nat /\ l.i \in 1 .. H + l.m
      /\ k.x \in Nat /\ k.m \in Nat /\ k.i \in Nat /\ k.i \in 1 .. H + k.m
      /\ k.m # 0 => k.x \in 1 .. Len(ss) /\ k.m \in Lens
      /\ H \in Nat \ {0}
  BY LensFacts DEF Fits, Spots, Numbered
<1>2. /\ s.len \in Nat /\ s.buf \in Seq(Byte) /\ s.q \in Seq(Seq(Byte))
      /\ s.from \in Nat /\ s.from # 0 /\ Len(s.q) \in Nat /\ Len(s.buf) \in Nat
      /\ s \in InStates /\ s.len = H /\ ~s.dead
  BY InStateParts DEF Parsing, InHeader, Between
<1>3. /\ bytes \in Seq(Byte) /\ Len(bytes) = Len(s.buf) + 1
      /\ Len(data) \in Nat
  <2>1. i + 1 \in 1 .. Len(data) /\ Len(data) \in Nat
    OBVIOUS
  <2>2. data[i + 1] \in Byte
    BY <2>1
  <2> QED BY <1>2, <2>1, <2>2, OneMoreByte
<1> HIDE DEF bytes
<1>4. /\ k.i = Len(bytes) /\ k.i <= H /\ s.from + k.i = i + 2
      /\ k.x = r + Len(s.q) + (IF k.m = 0 THEN 0 ELSE 1)
      /\ \A j \in 1 .. k.i :
           data[s.from + j - 1] = [kind |-> "head", n |-> k.m, at |-> j]
  <2>1. CASE InHeader(r, l, s, data, i)
    <3>1. /\ l.i = Len(s.buf) /\ l.i < H /\ s.from + l.i = i + 1
          /\ l.x = r + Len(s.q) + (IF l.m = 0 THEN 0 ELSE 1)
          /\ \A j \in 1 .. l.i :
               data[s.from + j - 1] = [kind |-> "head", n |-> l.m, at |-> j]
      BY <2>1 DEF InHeader
    <3>2. ~Ended(l)
      BY <1>1, <3>1 DEF Ended
    <3>3. k.x = l.x /\ k.m = l.m /\ k.i = l.i + 1
      BY <3>2 DEF Follows
    <3>4. k.i <= H /\ s.from + k.i = i + 2 /\ s.from + k.i - 1 = i + 1
      <4>1. /\ l.i \in Nat /\ H \in Nat /\ s.from \in Nat
            /\ k.i = l.i + 1 /\ l.i < H /\ s.from + l.i = i + 1
        BY <1>1, <1>2, <3>1, <3>3
      <4> HIDE DEF H
      <4> QED BY <4>1, SMTT(20)
    <3>5. data[i + 1] = [kind |-> "head", n |-> k.m, at |-> k.i]
      BY <3>4 DEF ByteAt
    <3>6. ASSUME NEW j \in 1 .. k.i
          PROVE  data[s.from + j - 1] = [kind |-> "head", n |-> k.m, at |-> j]
      <4>1. CASE j = k.i
        BY <3>4, <3>5, <4>1
      <4>2. CASE j # k.i
        <5>1. j \in 1 .. l.i
          BY <1>1, <3>3, <4>2
        <5> QED BY <3>1, <3>3, <5>1
      <4> QED BY <4>1, <4>2
    <3> QED BY <1>3, <3>1, <3>3, <3>4, <3>6
  <2>2. CASE Between(r, l, s, i)
    <3>1. s.buf = <<>> /\ s.from = i + 1 /\ Ended(l) /\ l.x = r + Len(s.q)
      BY <2>2 DEF Between
    <3>2. k.i = 1 /\ k.x = IF k.m = 0 THEN l.x ELSE l.x + 1
      BY <3>1 DEF Follows
    <3>3. k.i <= H /\ Len(s.buf) = 0 /\ s.from + 1 = i + 2 /\ s.from + 1 - 1 = i + 1
      BY <1>1, <3>1, <3>2
    <3>4. data[i + 1] = [kind |-> "head", n |-> k.m, at |-> 1]
      BY <3>2, <3>3 DEF ByteAt
    <3>5. ASSUME NEW j \in 1 .. k.i
          PROVE  data[s.from + j - 1] = [kind |-> "head", n |-> k.m, at |-> j]
      <4>1. j = 1
        BY <3>2
      <4> QED BY <3>3, <3>4, <4>1
    <3>6. k.x = r + Len(s.q) + (IF k.m = 0 THEN 0 ELSE 1)
      <4>1. l.x \in Nat /\ Len(s.q) \in Nat /\ l.x = r + Len(s.q)
        BY <1>1, <1>2, <3>1
      <4>2. CASE k.m = 0
        <5>1. k.x = l.x
          BY <3>2, <4>2
        <5> QED BY <4>1, <4>2, <5>1
      <4>3. CASE k.m # 0
        <5>1. k.x = l.x + 1
          BY <3>2, <4>3
        <5> QED BY <4>1, <4>3, <5>1
      <4> QED BY <4>2, <4>3
    <3>7. s.from + k.i = i + 2 /\ k.i = Len(bytes)
      BY <1>3, <3>2, <3>3
    <3> QED BY <3>3, <3>5, <3>6, <3>7
  <2> QED BY <2>1, <2>2
<1>5. \A j \in 1 .. Len(s.q) : s.q[j] = ss[r + j]
  BY DEF Parsing
<1>6. CASE Len(bytes) < H
  <2> DEFINE t == [s EXCEPT !.buf = bytes]
  <2>1. After(s, data, i + 1) = {t}
    BY <1>2, <1>6 DEF After, bytes
  <2>2. /\ t \in InStates /\ t.len = s.len /\ t.buf = bytes /\ t.q = s.q
        /\ t.from = s.from /\ t.dead = s.dead
    BY <1>2, <1>3 DEF InStates
  <2> HIDE DEF t
  <2>3. InHeader(r, k, t, data, i + 1)
    <3>1. s.from + k.i = (i + 1) + 1 /\ k.i < H
      BY <1>4, <1>6
    <3> QED BY <1>2, <1>4, <2>2, <3>1 DEF InHeader
  <2>4. Parsing(ss, r, k, t, data, i + 1)
    BY <1>2, <1>5, <2>2, <2>3 DEF Parsing
  <2> QED BY <2>1, <2>4
<1>7. CASE ~(Len(bytes) < H)
  <2>1. Len(bytes) = H /\ k.i = H /\ s.from + H - 1 = i + 1 /\ s.from + H = i + 2
    <3>1. /\ H \in Nat /\ s.from \in Nat /\ k.i = Len(bytes) /\ k.i <= H
          /\ s.from + k.i = i + 2 /\ k.i \in Nat
      BY <1>1, <1>2, <1>4
    <3> HIDE DEF H
    <3>2. k.i = H
      BY <1>7, <3>1
    <3> QED BY <3>1, <3>2
  <2> DEFINE seen == SubSeq(data, s.from, s.from + H - 1)
  <2>2. seen = Header(k.m) /\ seen[1].n = k.m
    <3>1. \A j \in s.from .. s.from + H - 1 : data[j] \in Byte
      <4>1. \A j \in 1 .. Len(data) : data[j] \in Byte
        OBVIOUS
      <4>2. \A j \in s.from .. s.from + H - 1 : j \in 1 .. Len(data)
        BY <1>2, <1>3, <2>1
      <4> QED BY <4>1, <4>2
    <3> DEFINE a == s.from
               b == s.from + H - 1
    <3>2. a \in Int /\ b \in Int /\ \A j \in a .. b : data[j] \in Byte
      BY <1>1, <1>2, <3>1
    <3>3. a <= b /\ b - a + 1 = H /\ 1 \in 1 .. H
      BY <1>1, <1>2, SMTT(20)
    <3>s. seen = SubSeq(data, a, b)
      OBVIOUS
    <3> HIDE DEF b, seen, H
    <3>4. /\ seen \in Seq(Byte) /\ Len(seen) = H
          /\ \A j \in 1 .. H : seen[j] = data[s.from + j - 1]
      <4> HIDE DEF a
      <4>1. /\ seen \in Seq(Byte)
            /\ Len(seen) = IF a <= b THEN b - a + 1 ELSE 0
            /\ \A j \in 1 .. b - a + 1 : seen[j] = data[a + j - 1]
        BY <3>2, <3>s, SubSeqProperties
      <4>2. /\ seen \in Seq(Byte) /\ Len(seen) = H
            /\ \A j \in 1 .. H : seen[j] = data[a + j - 1]
        BY <3>3, <4>1, Zenon
      <4> QED BY <4>2 DEF a
    <3> USE DEF H
    <3>5. \A j \in 1 .. H : seen[j] = [kind |-> "head", n |-> k.m, at |-> j]
      BY <1>4, <2>1, <3>4
    <3>6. seen = Header(k.m)
      <4>1. /\ Header(k.m) \in Seq(Byte) /\ Len(Header(k.m)) = H
            /\ \A j \in 1 .. H : Header(k.m)[j] = seen[j]
        BY <1>1, <3>5, HeaderFacts
      <4>2. \A j \in 1 .. Len(seen) : seen[j] = Header(k.m)[j]
        BY <3>4, <4>1
      <4>3. seen \in Seq(Byte) /\ Len(seen) = Len(Header(k.m))
        BY <3>4, <4>1
      <4> DEFINE hd == Header(k.m)
      <4>4. hd \in Seq(Byte) /\ Len(seen) = Len(hd)
            /\ \A j \in 1 .. Len(seen) : seen[j] = hd[j]
        BY <4>1, <4>2, <4>3
      <4> HIDE DEF hd
      <4>5. seen = hd
        BY <4>3, <4>4, SameBytes
      <4> QED BY <4>5 DEF hd
    <3>7. seen[1] = [kind |-> "head", n |-> k.m, at |-> 1]
      BY <3>3, <3>5
    <3>8. seen[1].n = k.m
      BY <3>7
    <3> QED BY <3>6, <3>8
  <2>3. k.m <= MaxLen /\ k.m # Refused
    BY <1>1, LensFacts DEF Refused
  <2>4. ReadHeader(data, s.from) = k.m
    <3> HIDE DEF seen
    <3>1. ReadHeader(data, s.from) =
            IF s.from + H - 1 <= Len(data) /\ seen = Header(seen[1].n)
               /\ seen[1].n <= MaxLen THEN seen[1].n ELSE Refused
      BY DEF ReadHeader, seen
    <3> QED BY <2>1, <2>2, <2>3, <3>1
  <2> HIDE DEF seen
  <2> DEFINE t == HeaderDone(s, i + 1, k.m)
  <2>5. After(s, data, i + 1) = {t}
    BY <1>2, <1>7, <2>4 DEF After, bytes
  <2>6. /\ t \in InStates /\ t.len = IF k.m = 0 THEN H ELSE k.m
        /\ t.buf = <<>> /\ t.q = s.q /\ t.from = i + 2 /\ ~t.dead
    <3>1. t = [s EXCEPT !.from = i + 1 + 1, !.buf = <<>>,
                        !.len = IF k.m \in {0, Refused} THEN H ELSE k.m,
                        !.dead = k.m = Refused]
      BY DEF HeaderDone
    <3>2. /\ i + 1 + 1 \in Nat \ {0} /\ i + 1 + 1 = i + 2
          /\ <<>> \in Seq(Byte) /\ FALSE \in BOOLEAN
          /\ (k.m \in {0, Refused}) = (k.m = 0)
          /\ (k.m = Refused) = FALSE /\ k.m \in Nat /\ H \in Nat
      BY <1>1, <2>3
    <3> HIDE DEF t
    <3> DEFINE len == IF k.m = 0 THEN H ELSE k.m
    <3>3. t = [s EXCEPT !.from = i + 2, !.buf = <<>>, !.len = len,
                        !.dead = FALSE]
      BY <3>1, <3>2
    <3>4. len \in Nat
      BY <3>2
    <3> HIDE DEF len
    <3>5. t \in InStates
      BY <1>2, <3>2, <3>3, <3>4 DEF InStates
    <3>6. t.len = len /\ t.buf = <<>> /\ t.q = s.q /\ t.from = i + 2 /\ ~t.dead
      BY <1>2, <3>3 DEF InStates
    <3> QED BY <3>5, <3>6 DEF len
  <2> HIDE DEF t
  <2>7. CASE k.m = 0
    <3>1. Between(r, k, t, i + 1)
      BY <1>1, <1>2, <1>4, <2>1, <2>6, <2>7 DEF Between, Ended
    <3>2. Parsing(ss, r, k, t, data, i + 1)
      BY <1>5, <2>6, <3>1 DEF Parsing
    <3> QED BY <2>5, <3>2
  <2>8. CASE k.m # 0
    <3>1. k.m # H /\ k.m \in Nat
      BY <1>1, <2>8, LensFacts
    <3>2. Len(t.buf) = 0 /\ ~Ended(k)
      BY <1>1, <2>1, <2>6, <2>8 DEF Ended
    <3>3. InPacket(ss, r, k, t)
      BY <1>1, <1>4, <2>1, <2>6, <2>8, <3>1, <3>2 DEF InPacket
    <3>4. Parsing(ss, r, k, t, data, i + 1)
      BY <1>5, <2>6, <3>3 DEF Parsing
    <3> QED BY <2>5, <3>4
  <2> QED BY <2>7, <2>8
<1> QED BY <1>6, <1>7

(* A byte of a packet.                                                     *)
LEMMA PacketByte ==
  ASSUME NEW ss, Numbered(ss), NEW r \in Nat, NEW l, NEW k, NEW s, NEW data,
         NEW i \in Nat, i + 1 <= Len(data), data \in Seq(Byte),
         Fits(ss, l), Fits(ss, k), Follows(l, k), data[i + 1] = ByteAt(k),
         Parsing(ss, r, l, s, data, i), InPacket(ss, r, l, s)
  PROVE  \A t \in After(s, data, i + 1) : Parsing(ss, r, k, t, data, i + 1)
<1> DEFINE bytes == Append(s.buf, data[i + 1])
           H == HeaderLen
<1>1. /\ l.x \in Nat /\ l.m \in Nat /\ l.i \in Nat /\ l.i \in 1 .. H + l.m
      /\ k.i \in Nat /\ k.i \in 1 .. H + k.m
      /\ H \in Nat \ {0}
  BY LensFacts DEF Fits, Spots
<1>2. /\ s.len \in Nat /\ s.buf \in Seq(Byte) /\ s.q \in Seq(Seq(Byte))
      /\ s.from \in Nat /\ s.from # 0 /\ Len(s.q) \in Nat /\ Len(s.buf) \in Nat
      /\ s \in InStates /\ ~s.dead
      /\ \A j \in 1 .. Len(s.q) : s.q[j] = ss[r + j]
  BY InStateParts DEF Parsing
<1>3. /\ s.len # H /\ s.len = l.m
      /\ l.i = H + Len(s.buf) /\ l.i # H + l.m
      /\ l.x = r + Len(s.q) + 1
      /\ \A j \in 1 .. Len(s.buf) : s.buf[j] = ss[l.x][j]
  BY DEF InPacket, Ended
<1>4. Len(s.buf) < l.m /\ l.m # 0
  <2> DEFINE b == Len(s.buf)
             y == l.m
  <2>1. b \in Nat /\ H \in Nat /\ y \in Nat /\ H + b <= H + y /\ H + b # H + y
    BY <1>1, <1>2, <1>3
  <2> HIDE DEF H, b, y
  <2>2. b < y /\ y # 0
    BY <2>1
  <2> QED BY <2>2 DEF b, y
<1>5. /\ l.x \in 1 .. Len(ss) /\ Len(ss[l.x]) = l.m /\ ss[l.x] = Packet(l.x, l.m)
      /\ ss[l.x] \in Seq(Byte) /\ ss \in Seq(Seq(Byte))
  BY <1>4 DEF Fits, Numbered
<1>6. k.x = l.x /\ k.m = l.m /\ k.i = l.i + 1
  BY <1>3 DEF Follows, Ended
<1>7. data[i + 1] = [kind |-> "data", n |-> l.x, at |-> Len(s.buf) + 1]
  <2>1. ~(k.i <= H) /\ k.i - H = Len(s.buf) + 1
    BY <1>1, <1>2, <1>3, <1>6
  <2> QED BY <1>6, <2>1 DEF ByteAt
<1>8. data[i + 1] = ss[l.x][Len(s.buf) + 1]
  <2>1. Len(s.buf) + 1 \in 1 .. l.m
    BY <1>1, <1>2, <1>4, SMTT(20)
  <2>2. \A j \in 1 .. l.m :
          Packet(l.x, l.m)[j] = [kind |-> "data", n |-> l.x, at |-> j]
    BY <1>1, PacketFacts
  <2>3. Packet(l.x, l.m)[Len(s.buf) + 1]
          = [kind |-> "data", n |-> l.x, at |-> Len(s.buf) + 1]
    BY <2>1, <2>2
  <2> QED BY <1>5, <1>7, <2>3
<1>9. /\ bytes \in Seq(Byte) /\ Len(bytes) = Len(s.buf) + 1
      /\ \A j \in 1 .. Len(bytes) : bytes[j] = ss[l.x][j]
  <2>1. i + 1 \in 1 .. Len(data)
    OBVIOUS
  <2>2. data[i + 1] \in Byte
    BY <2>1
  <2>3. /\ bytes \in Seq(Byte) /\ Len(bytes) = Len(s.buf) + 1
        /\ bytes[Len(s.buf) + 1] = data[i + 1]
        /\ \A j \in 1 .. Len(s.buf) : bytes[j] = s.buf[j]
    BY <1>2, <2>2, OneMoreByte
  <2> HIDE DEF bytes
  <2>4. ASSUME NEW j \in 1 .. Len(bytes) PROVE bytes[j] = ss[l.x][j]
    <3>1. CASE j = Len(s.buf) + 1
      BY <1>8, <2>3, <3>1
    <3>2. CASE j # Len(s.buf) + 1
      <4>1. j \in 1 .. Len(s.buf)
        BY <1>2, <2>3, <3>2
      <4> QED BY <1>3, <2>3, <4>1
    <3> QED BY <3>1, <3>2
  <2> QED BY <2>3, <2>4
<1> HIDE DEF bytes
<1>10. CASE Len(bytes) < s.len
  <2> DEFINE t == [s EXCEPT !.buf = bytes]
  <2>1. After(s, data, i + 1) = {t}
    BY <1>2, <1>10 DEF After, bytes
  <2>2. /\ t \in InStates /\ t.len = s.len /\ t.buf = bytes /\ t.q = s.q
        /\ t.from = s.from /\ t.dead = s.dead
    BY <1>2, <1>9 DEF InStates
  <2> HIDE DEF t
  <2>3. k.i = H + Len(bytes) /\ ~Ended(k)
    <3>1. /\ H \in Nat /\ Len(s.buf) \in Nat /\ l.m \in Nat
          /\ Len(bytes) = Len(s.buf) + 1 /\ k.i = l.i + 1
          /\ l.i = H + Len(s.buf) /\ k.m = l.m /\ Len(bytes) < l.m
      BY <1>1, <1>2, <1>3, <1>6, <1>9, <1>10
    <3> HIDE DEF H
    <3>2. k.i = H + Len(bytes) /\ k.i # H + k.m
      BY <3>1
    <3> QED BY <3>2 DEF Ended, H
  <2>4. InPacket(ss, r, k, t)
    BY <1>3, <1>6, <1>9, <2>2, <2>3 DEF InPacket
  <2>5. Parsing(ss, r, k, t, data, i + 1)
    BY <1>2, <2>2, <2>4 DEF Parsing
  <2> QED BY <2>1, <2>5
<1>11. CASE ~(Len(bytes) < s.len)
  <2>1. Len(bytes) = l.m /\ k.i = H + l.m
    <3>1. /\ H \in Nat /\ Len(s.buf) \in Nat /\ l.m \in Nat
          /\ Len(bytes) = Len(s.buf) + 1 /\ k.i = l.i + 1
          /\ l.i = H + Len(s.buf) /\ Len(s.buf) < l.m /\ ~(Len(bytes) < l.m)
      BY <1>1, <1>2, <1>3, <1>4, <1>6, <1>9, <1>11
    <3> HIDE DEF H
    <3> QED BY <3>1
  <2>2. bytes = ss[l.x]
    <3> DEFINE z == ss[l.x]
    <3>1. z \in Seq(Byte) /\ Len(bytes) = Len(z)
          /\ \A j \in 1 .. Len(bytes) : bytes[j] = z[j]
      BY <1>5, <1>9, <2>1
    <3> HIDE DEF z
    <3>2. bytes = z
      BY <1>9, <3>1, SameBytes
    <3> QED BY <3>2 DEF z
  <2>3. bytes = Packet(bytes[1].n, Len(bytes))
    <3>1. 1 \in 1 .. l.m
      BY <1>1, <1>4
    <3>2. Packet(l.x, l.m)[1] = [kind |-> "data", n |-> l.x, at |-> 1]
      BY <1>1, <3>1, PacketFacts
    <3>3. bytes[1] = [kind |-> "data", n |-> l.x, at |-> 1]
      BY <1>5, <2>2, <3>2
    <3>4. bytes[1].n = l.x
      BY <3>3
    <3> QED BY <1>5, <2>1, <2>2, <3>4
  <2>4. Parsed(bytes) = {bytes}
    BY <2>3 DEF Parsed
  <2> DEFINE t == PacketDone(s, i + 1, bytes)
  <2>5. After(s, data, i + 1) = {t}
    <3>1. Append(s.buf, data[i + 1]) = bytes
      BY DEF bytes
    <3>2. After(s, data, i + 1) = {PacketDone(s, i + 1, p) : p \in Parsed(bytes)}
      BY <1>2, <1>3, <1>11, <3>1 DEF After
    <3> QED BY <2>4, <3>2
  <2>6. /\ t \in InStates /\ t.len = H /\ t.buf = <<>> /\ t.from = i + 2
        /\ t.q = Append(s.q, bytes) /\ ~t.dead
    <3> DEFINE qq == Append(s.q, bytes)
    <3>1. /\ qq \in Seq(Seq(Byte)) /\ i + 2 \in Nat \ {0} /\ i + 1 + 1 = i + 2
          /\ H \in Nat /\ <<>> \in Seq(Byte)
      BY <1>1, <1>2, <1>9
    <3>2. t = [s EXCEPT !.from = i + 2, !.buf = <<>>, !.q = qq, !.len = H]
      BY <3>1 DEF PacketDone
    <3> HIDE DEF t, qq
    <3> QED BY <1>2, <3>1, <3>2 DEF InStates, qq
  <2> HIDE DEF t
  <2>7. /\ Len(t.q) = Len(s.q) + 1 /\ t.q[Len(s.q) + 1] = bytes
        /\ \A j \in 1 .. Len(s.q) : t.q[j] = s.q[j]
    BY <1>2, <1>9, <2>6
  <2>8. ASSUME NEW j \in 1 .. Len(t.q) PROVE t.q[j] = ss[r + j]
    <3>1. CASE j = Len(s.q) + 1
      <4>1. r + j = l.x
        BY <1>2, <1>3, <3>1
      <4> QED BY <2>2, <2>7, <3>1, <4>1
    <3>2. CASE j # Len(s.q) + 1
      <4>1. j \in 1 .. Len(s.q)
        BY <1>2, <2>7, <3>2
      <4> QED BY <1>2, <2>7, <4>1
    <3> QED BY <3>1, <3>2
  <2>9. Between(r, k, t, i + 1)
    <3>1. k.x = r + Len(t.q)
      BY <1>2, <1>3, <1>6, <2>7
    <3>2. Ended(k)
      BY <1>6, <2>1 DEF Ended
    <3>3. t.from = i + 1 + 1
      BY <2>6
    <3> QED BY <2>6, <3>1, <3>2, <3>3 DEF Between
  <2>10. Parsing(ss, r, k, t, data, i + 1)
    BY <2>6, <2>8, <2>9 DEF Parsing
  <2> QED BY <2>5, <2>10
<1> QED BY <1>10, <1>11

(* The stream from spot ls[1] to the last of ls.                           *)
Path(ss, ls, v) ==
  /\ v \in Seq(Byte)
  /\ \A j \in 1 .. Len(v) + 1 : Fits(ss, ls[j])
  /\ \A j \in 1 .. Len(v) : Follows(ls[j], ls[j + 1]) /\ v[j] = ByteAt(ls[j + 1])

(* "in" stands at spot l, with r packets handed over.                      *)
AtSpot(ss, r, c, l) ==
  LET s == [len |-> c.len, buf |-> c.buf, q |-> <<>>, from |-> 1, dead |-> FALSE]
  IN  Between(r, l, s, 0) \/ InPacket(ss, r, l, s)

(* What is left of a sequence without its first n.                         *)
LEMMA RestOf ==
  ASSUME NEW S, NEW q \in Seq(S), NEW n \in 0 .. Len(q)
  PROVE  LET z == SubSeq(q, n + 1, Len(q)) IN
         /\ z \in Seq(S) /\ Len(z) = Len(q) - n /\ Len(z) \in Nat
         /\ \A j \in 1 .. Len(z) : z[j] = q[j + n]
<1> DEFINE z == SubSeq(q, n + 1, Len(q))
           L == Len(q)
           a == n + 1
<1>1. L \in Nat /\ n \in Nat /\ n <= L /\ \A j \in 1 .. L : q[j] \in S
  OBVIOUS
<1>2. z = SubSeq(q, a, L)
  OBVIOUS
<1> HIDE DEF z, L
<1>3. a \in Int /\ L \in Int /\ \A j \in a .. L : q[j] \in S
  <2>1. \A j \in a .. L : j \in 1 .. L
    BY <1>1
  <2> QED BY <1>1, <2>1
<1>4. L - a + 1 = L - n /\ (a <= L => L - a + 1 = L - n) /\ (~(a <= L) => L - n = 0)
      /\ L - n \in Nat /\ \A j \in 1 .. L - n : a + j - 1 = j + n
  BY <1>1
<1> HIDE DEF a
<1>5. /\ z \in Seq(S) /\ Len(z) = IF a <= L THEN L - a + 1 ELSE 0
      /\ \A j \in 1 .. L - a + 1 : z[j] = q[a + j - 1]
  BY <1>2, <1>3, SubSeqProperties
<1>6. Len(z) = L - n
  BY <1>4, <1>5, Zenon
<1>7. \A j \in 1 .. L - n : z[j] = q[j + n]
  BY <1>4, <1>5
<1> QED BY <1>4, <1>5, <1>6, <1>7 DEF z, L

LEMMA PathDrop ==
  ASSUME NEW ss, NEW ls, NEW v, Path(ss, ls, v), NEW n \in 1 .. Len(v)
  PROVE  LET rest == [j \in 1 .. Len(v) - n + 1 |-> ls[j + n]] IN
         /\ Path(ss, rest, SubSeq(v, n + 1, Len(v)))
         /\ rest[1] = ls[n + 1] /\ Len(SubSeq(v, n + 1, Len(v))) = Len(v) - n
         /\ rest[Len(v) - n + 1] = ls[Len(v) + 1]
<1> DEFINE rest == [j \in 1 .. Len(v) - n + 1 |-> ls[j + n]]
           w == SubSeq(v, n + 1, Len(v))
           L == Len(v)
<1>1. v \in Seq(Byte) /\ L \in Nat /\ n \in 1 .. L
  BY DEF Path
<1>2. \A j \in 1 .. L : v[j] \in Byte
  BY <1>1
<1>3. /\ \A j \in 1 .. L + 1 : Fits(ss, ls[j])
      /\ \A j \in 1 .. L : Follows(ls[j], ls[j + 1]) /\ v[j] = ByteAt(ls[j + 1])
  BY DEF Path
<1>4. w = SubSeq(v, n + 1, L)
  OBVIOUS
<1>5. \A j \in 1 .. L - n + 1 : rest[j] = ls[j + n]
  OBVIOUS
<1> HIDE DEF rest, w, L
<1>6. /\ w \in Seq(Byte) /\ Len(w) = L - n
      /\ \A j \in 1 .. L - n : w[j] = v[j + n]
  BY <1>1, RestOf DEF w, L
<1>7. rest[1] = ls[n + 1] /\ rest[L - n + 1] = ls[L + 1]
  <2>1. 1 \in 1 .. L - n + 1 /\ L - n + 1 \in 1 .. L - n + 1
        /\ L - n + 1 + n = L + 1 /\ 1 + n = n + 1
    BY <1>1
  <2> QED BY <1>5, <2>1
<1>8. Path(ss, rest, w)
  <2>1. ASSUME NEW j \in 1 .. Len(w) + 1 PROVE Fits(ss, rest[j])
    <3>1. j \in 1 .. L - n + 1 /\ j + n \in 1 .. L + 1
      BY <1>1, <1>6
    <3> QED BY <1>3, <1>5, <3>1
  <2>2. ASSUME NEW j \in 1 .. Len(w)
        PROVE  Follows(rest[j], rest[j + 1]) /\ w[j] = ByteAt(rest[j + 1])
    <3>1. /\ j \in 1 .. L - n /\ j \in 1 .. L - n + 1 /\ j + 1 \in 1 .. L - n + 1
          /\ j + n \in 1 .. L /\ j + 1 + n = j + n + 1
      BY <1>1, <1>6
    <3>2. rest[j] = ls[j + n] /\ rest[j + 1] = ls[j + n + 1] /\ w[j] = v[j + n]
      BY <1>5, <1>6, <3>1
    <3>3. Follows(ls[j + n], ls[j + n + 1]) /\ v[j + n] = ByteAt(ls[j + n + 1])
      BY <1>3, <3>1
    <3> QED BY <3>2, <3>3
  <2> QED BY <1>6, <2>1, <2>2 DEF Path
<1> QED BY <1>6, <1>7, <1>8 DEF rest, w, L

(* A frame more, behind spot l: the bytes from a on of one header and its  *)
(* packet.                                                                 *)
FrameAfter(ss, l, f, x, m, a) ==
  /\ f \in Seq(Byte) /\ f # <<>>
  /\ x \in 0 .. Len(ss) /\ m \in Nat /\ a \in Nat \ {0}
  /\ a + Len(f) - 1 <= HeaderLen + m
  /\ m # 0 => x \in 1 .. Len(ss) /\ m = Len(ss[x])
  /\ Follows(l, [x |-> x, m |-> m, i |-> a])
  /\ \A j \in 1 .. Len(f) :
       f[j] = ByteAt([x |-> x, m |-> m, i |-> a + j - 1])

LEMMA PathAppend ==
  ASSUME NEW ss, NEW ls, NEW v, Path(ss, ls, v), NEW f, NEW x, NEW m, NEW a,
         FrameAfter(ss, ls[Len(v) + 1], f, x, m, a)
  PROVE  \E lz : /\ Path(ss, lz, v \o f) /\ lz[1] = ls[1]
                 /\ lz[Len(v \o f) + 1]
                      = [x |-> x, m |-> m, i |-> a + Len(f) - 1]
<1> DEFINE n == Len(f)
           L == Len(v)
           w == v \o f
           at(j) == [x |-> x, m |-> m, i |-> j]
           lz == [j \in 1 .. L + n + 1 |->
                    IF j <= L + 1 THEN ls[j] ELSE at(a + j - L - 2)]
<1>0. /\ f \in Seq(Byte) /\ f # <<>>
      /\ x \in 0 .. Len(ss) /\ m \in Nat /\ a \in Nat \ {0}
      /\ a + Len(f) - 1 <= HeaderLen + m
      /\ m # 0 => x \in 1 .. Len(ss) /\ m = Len(ss[x])
      /\ Follows(ls[Len(v) + 1], [x |-> x, m |-> m, i |-> a])
      /\ \A j \in 1 .. Len(f) :
           f[j] = ByteAt([x |-> x, m |-> m, i |-> a + j - 1])
  BY DEF FrameAfter
<1>1. v \in Seq(Byte) /\ L \in Nat /\ n \in Nat \ {0}
  BY <1>0, EmptySeq, LenProperties DEF Path
<1>2. /\ w \in Seq(Byte) /\ Len(w) = L + n
      /\ \A j \in 1 .. L : w[j] = v[j]
      /\ \A j \in 1 .. n : w[L + j] = f[j]
  BY <1>0, <1>1
<1>3. /\ \A j \in 1 .. L + 1 : Fits(ss, ls[j])
      /\ \A j \in 1 .. L : Follows(ls[j], ls[j + 1]) /\ v[j] = ByteAt(ls[j + 1])
  BY DEF Path
<1>4. HeaderLen \in Nat
  BY LensFacts
<1>5. /\ \A j \in 1 .. L + 1 : lz[j] = ls[j]
      /\ \A j \in 1 .. n : lz[L + 1 + j] = at(a + j - 1)
  <2>1. ASSUME NEW j \in 1 .. L + 1 PROVE lz[j] = ls[j]
    <3>1. j \in 1 .. L + n + 1 /\ j <= L + 1
      BY <1>1
    <3> QED BY <3>1
  <2>2. ASSUME NEW j \in 1 .. n PROVE lz[L + 1 + j] = at(a + j - 1)
    <3>1. L + 1 + j \in 1 .. L + n + 1 /\ ~(L + 1 + j <= L + 1)
          /\ a + (L + 1 + j) - L - 2 = a + j - 1
      BY <1>0, <1>1
    <3> QED BY <3>1
  <2> QED BY <2>1, <2>2
<1>6. \A j \in 1 .. n : Fits(ss, at(a + j - 1))
  <2> SUFFICES ASSUME NEW j \in 1 .. n PROVE Fits(ss, at(a + j - 1))
    OBVIOUS
  <2>1. a + j - 1 \in Nat /\ a + j - 1 \in 1 .. HeaderLen + m
    BY <1>0, <1>1, <1>4
  <2> QED BY <1>0, <2>1 DEF Fits, Spots
<1>7. Follows(ls[L + 1], at(a))
  BY <1>0
<1>8. \A j \in 1 .. n : f[j] = ByteAt(at(a + j - 1))
  BY <1>0
<1>9. \A j \in 1 .. n - 1 : Follows(at(a + j - 1), at(a + (j + 1) - 1))
  <2> SUFFICES ASSUME NEW j \in 1 .. n - 1
               PROVE  Follows(at(a + j - 1), at(a + (j + 1) - 1))
    OBVIOUS
  <2>1. a + j - 1 # HeaderLen + m /\ a + (j + 1) - 1 = a + j - 1 + 1
    BY <1>0, <1>1, <1>4
  <2>2. ~Ended(at(a + j - 1))
    BY <2>1 DEF Ended
  <2> QED BY <2>1, <2>2 DEF Follows
<1> HIDE DEF lz, at, w, n, L
<1>10. Path(ss, lz, w)
  <2>1. ASSUME NEW j \in 1 .. Len(w) + 1 PROVE Fits(ss, lz[j])
    <3>1. CASE j <= L + 1
      <4>1. j \in 1 .. L + 1
        BY <1>1, <3>1
      <4> QED BY <1>3, <1>5, <4>1
    <3>2. CASE ~(j <= L + 1)
      <4>1. j - L - 1 \in 1 .. n /\ L + 1 + (j - L - 1) = j
        BY <1>1, <1>2, <3>2
      <4>2. \A y \in 1 .. n : Fits(ss, lz[L + 1 + y])
        BY <1>5, <1>6
      <4>3. Fits(ss, lz[L + 1 + (j - L - 1)])
        BY <4>1, <4>2
      <4> QED BY <4>1, <4>3
    <3> QED BY <3>1, <3>2
  <2>2. ASSUME NEW j \in 1 .. Len(w)
        PROVE  Follows(lz[j], lz[j + 1]) /\ w[j] = ByteAt(lz[j + 1])
    <3>1. CASE j <= L
      <4>1. j \in 1 .. L /\ j \in 1 .. L + 1 /\ j + 1 \in 1 .. L + 1
        BY <1>1, <3>1
      <4> QED BY <1>2, <1>3, <1>5, <4>1
    <3>2. CASE j = L + 1
      <4>1. 1 \in 1 .. n /\ L + 1 \in 1 .. L + 1 /\ a + 1 - 1 = a
            /\ L + 1 + 1 = j + 1
        BY <1>0, <1>1, <3>2
      <4>2. lz[j] = ls[L + 1] /\ lz[L + 1 + 1] = at(a + 1 - 1) /\ w[L + 1] = f[1]
            /\ f[1] = ByteAt(at(a + 1 - 1))
        BY <1>2, <1>5, <1>8, <3>2, <4>1
      <4>3. lz[j + 1] = at(a) /\ w[j] = ByteAt(at(a))
        BY <3>2, <4>1, <4>2
      <4> QED BY <1>7, <4>2, <4>3
    <3>3. CASE j > L + 1
      <4> DEFINE y == j - L - 1
      <4>1. /\ y \in 1 .. n - 1 /\ y \in 1 .. n /\ y + 1 \in 1 .. n
            /\ L + 1 + y = j /\ L + 1 + (y + 1) = j + 1 /\ L + (y + 1) = j
        <5>1. j \in Nat /\ j <= L + n /\ j > L + 1 /\ L \in Nat /\ n \in Nat
          BY <1>1, <1>2, <3>3
        <5>2. y \in Int /\ y = j - L - 1
          BY <5>1
        <5> HIDE DEF y
        <5> QED BY <5>1, <5>2
      <4> HIDE DEF y
      <4>2. /\ lz[L + 1 + y] = at(a + y - 1)
            /\ lz[L + 1 + (y + 1)] = at(a + (y + 1) - 1)
            /\ w[L + (y + 1)] = f[y + 1]
            /\ f[y + 1] = ByteAt(at(a + (y + 1) - 1))
        BY <1>2, <1>5, <1>8, <4>1
      <4>3. Follows(at(a + y - 1), at(a + (y + 1) - 1))
        BY <1>9, <4>1
      <4> QED BY <4>1, <4>2, <4>3
    <3> QED BY <1>1, <1>2, <3>1, <3>2, <3>3
  <2> QED BY <1>2, <2>1, <2>2 DEF Path
<1>11. lz[1] = ls[1] /\ lz[Len(w) + 1] = at(a + n - 1)
  <2>1. 1 \in 1 .. L + 1 /\ n \in 1 .. n /\ L + 1 + n = Len(w) + 1
    BY <1>1, <1>2
  <2> QED BY <1>5, <2>1
<1> QED BY <1>10, <1>11 DEF at, w, n, L

(* The packets sent before stay what they are.                             *)
LEMMA PathGrow ==
  ASSUME NEW ss, Numbered(ss), NEW m \in Lens, NEW p, p = Packet(Len(ss) + 1, m)
  PROVE  /\ Numbered(Append(ss, p)) /\ Len(Append(ss, p)) = Len(ss) + 1
         /\ Append(ss, p)[Len(ss) + 1] = p
         /\ \A j \in 1 .. Len(ss) : Append(ss, p)[j] = ss[j]
         /\ \A l : Fits(ss, l) => Fits(Append(ss, p), l)
         /\ \A ls, v : Path(ss, ls, v) => Path(Append(ss, p), ls, v)
         /\ \A r \in Nat : \A c, l :
              AtSpot(ss, r, c, l) /\ Fits(ss, l) => AtSpot(Append(ss, p), r, c, l)
<1> DEFINE z == Append(ss, p)
           L == Len(ss)
<1>1. /\ ss \in Seq(Seq(Byte)) /\ L \in Nat /\ m \in Nat /\ L + 1 \in Nat
      /\ \A x \in 1 .. L : Len(ss[x]) \in Lens /\ ss[x] = Packet(x, Len(ss[x]))
  BY LensFacts DEF Numbered
<1>2. p \in Seq(Byte) /\ Len(p) = m
  BY <1>1, PacketFacts
<1>3. /\ z \in Seq(Seq(Byte)) /\ Len(z) = L + 1 /\ z[L + 1] = p
      /\ \A j \in 1 .. L : z[j] = ss[j]
  BY <1>1, <1>2
<1> HIDE DEF z, L
<1>4. Numbered(z)
  <2>1. ASSUME NEW x \in 1 .. L + 1
        PROVE  Len(z[x]) \in Lens /\ z[x] = Packet(x, Len(z[x]))
    <3>1. CASE x = L + 1
      BY <1>2, <1>3, <3>1 DEF L
    <3>2. CASE x # L + 1
      <4>1. x \in 1 .. L
        BY <1>1, <3>2
      <4> QED BY <1>1, <1>3, <4>1
    <3> QED BY <3>1, <3>2
  <2> QED BY <1>3, <2>1 DEF Numbered
<1>5. ASSUME NEW l, Fits(ss, l) PROVE Fits(z, l)
  <2>1. l.m # 0 => l.x \in 1 .. L + 1 /\ l.m = Len(z[l.x])
    <3>1. \A x \in 1 .. L : x \in 1 .. L + 1
      BY <1>1
    <3> QED BY <1>3, <1>5, <3>1 DEF Fits, L
  <2>2. l.x \in 0 .. Len(z)
    <3>1. l.x \in 0 .. L
      BY <1>5 DEF Fits, L
    <3> QED BY <1>1, <1>3, <3>1
  <2> QED BY <1>3, <1>5, <2>1, <2>2 DEF Fits
<1>6. ASSUME NEW ls, NEW v, Path(ss, ls, v) PROVE Path(z, ls, v)
  BY <1>5, <1>6 DEF Path
<1>7. ASSUME NEW r \in Nat, NEW c, NEW l, AtSpot(ss, r, c, l), Fits(ss, l)
      PROVE  AtSpot(z, r, c, l)
  <2> DEFINE s == [len |-> c.len, buf |-> c.buf, q |-> <<>>, from |-> 1,
                   dead |-> FALSE]
  <2>1. CASE Between(r, l, s, 0)
    BY <2>1 DEF AtSpot
  <2>2. CASE InPacket(ss, r, l, s)
    <3> HIDE DEF s
    <3>1. /\ s.len # HeaderLen /\ s.len = l.m
          /\ l.i = HeaderLen + Len(s.buf) /\ ~Ended(l)
          /\ l.x = r + Len(s.q) + 1
          /\ \A j \in 1 .. Len(s.buf) : s.buf[j] = ss[l.x][j]
      BY <2>2 DEF InPacket
    <3>2. l.m # 0
      <4>1. l.i \in Nat /\ l.i <= HeaderLen + l.m /\ l.i # HeaderLen + l.m
            /\ l.m \in Nat /\ HeaderLen \in Nat
        BY <1>7, <3>1, LensFacts DEF Fits, Ended, Spots
      <4>2. Len(s.buf) = 0 \/ Len(s.buf) # 0
        OBVIOUS
      <4>3. s.buf = c.buf
        BY DEF s
      <4> QED BY <3>1, <4>1
    <3>3. l.x \in 1 .. L
      BY <1>7, <3>2 DEF Fits, L
    <3>4. z[l.x] = ss[l.x]
      BY <1>3, <3>3
    <3>5. InPacket(z, r, l, s)
      BY <3>1, <3>4 DEF InPacket
    <3> QED BY <3>5 DEF AtSpot, s
  <2> QED BY <1>7, <2>1, <2>2 DEF AtSpot
<1>8. \A r \in Nat : \A c, l : AtSpot(ss, r, c, l) /\ Fits(ss, l) => AtSpot(z, r, c, l)
  BY <1>7
<1> QED BY <1>3, <1>4, <1>5, <1>6, <1>8 DEF z, L

(* A read of n bytes goes to spot ls[n + 1].                               *)
LEMMA ReadStream ==
  ASSUME HeaderLen \notin Lens,
         NEW ss, Numbered(ss), NEW r \in Nat, NEW ls, NEW v, Path(ss, ls, v),
         NEW n \in 1 .. Len(v), in.len \in Nat, in.buf \in Seq(Byte),
         AtSpot(ss, r, in, ls[1])
  PROVE  \A s \in Outcomes(SubSeq(v, 1, n)) :
           Parsing(ss, r, ls[n + 1], s, SubSeq(v, 1, n), n)
<1> DEFINE data == SubSeq(v, 1, n)
           K == [i \in 0 .. n |-> {s \in InStates :
                                     Parsing(ss, r, ls[i + 1], s, data, i)}]
           s0 == [len |-> in.len, buf |-> in.buf, q |-> <<>>, from |-> 1,
                  dead |-> FALSE]
<1>1. v \in Seq(Byte) /\ Len(v) \in Nat /\ n \in Nat /\ n >= 1
  BY DEF Path
<1>2. data \in Seq(Byte) /\ Len(data) = n /\ \A j \in 1 .. n : data[j] = v[j]
  <2>1. \A j \in 1 .. n : v[j] \in Byte
    <3>1. \A j \in 1 .. n : j \in 1 .. Len(v)
      BY <1>1
    <3> QED BY <1>1, <3>1
  <2>2. /\ data \in Seq(Byte) /\ Len(data) = IF 1 <= n THEN n - 1 + 1 ELSE 0
        /\ \A j \in 1 .. n - 1 + 1 : data[j] = v[1 + j - 1]
    BY <1>1, <2>1, SubSeqProperties
  <2>3. n - 1 + 1 = n /\ \A j \in 1 .. n : 1 + j - 1 = j
    BY <1>1
  <2> HIDE DEF data
  <2>4. Len(data) = n
    BY <1>1, <2>2, <2>3
  <2> QED BY <2>2, <2>3, <2>4
<1>3. /\ \A j \in 1 .. Len(v) + 1 : Fits(ss, ls[j])
      /\ \A j \in 1 .. Len(v) : Follows(ls[j], ls[j + 1]) /\ v[j] = ByteAt(ls[j + 1])
  BY DEF Path
<1> HIDE DEF data
<1>4. s0 \in K[0]
  <2>1. s0 \in InStates
    BY DEF InStates
  <2>2. Between(r, ls[1], s0, 0) \/ InPacket(ss, r, ls[1], s0)
    BY DEF AtSpot
  <2>3. ~s0.dead /\ Len(s0.q) = 0
    OBVIOUS
  <2> HIDE DEF s0
  <2>4. Parsing(ss, r, ls[1], s0, data, 0)
    BY <2>1, <2>2, <2>3 DEF Parsing
  <2>5. 0 \in 0 .. n
    BY <1>1
  <2> QED BY <2>1, <2>4, <2>5
<1>5. ASSUME NEW i \in 1 .. n, NEW s \in K[i - 1]
      PROVE  After(s, data, i) \subseteq K[i]
  <2>1. /\ i - 1 \in 0 .. n /\ i - 1 + 1 = i /\ i - 1 \in Nat /\ i \in 0 .. n
        /\ i <= Len(data) /\ i \in 1 .. Len(v) /\ i \in 1 .. Len(v) + 1
        /\ i + 1 \in 1 .. Len(v) + 1
    BY <1>1, <1>2
  <2>2. Parsing(ss, r, ls[i], s, data, i - 1)
    BY <2>1
  <2>3. /\ Fits(ss, ls[i]) /\ Fits(ss, ls[i + 1]) /\ Follows(ls[i], ls[i + 1])
        /\ data[i] = ByteAt(ls[i + 1])
    BY <1>2, <1>3, <2>1
  <2> DEFINE h == i - 1
  <2>4. /\ h \in Nat /\ h + 1 = i /\ h + 1 <= Len(data)
        /\ data[h + 1] = ByteAt(ls[i + 1]) /\ Parsing(ss, r, ls[i], s, data, h)
    BY <2>1, <2>2, <2>3
  <2> HIDE DEF h
  <2>5. \A t \in After(s, data, h + 1) : Parsing(ss, r, ls[i + 1], t, data, h + 1)
    <3>1. CASE InPacket(ss, r, ls[i], s)
      BY <1>2, <2>3, <2>4, <3>1, PacketByte
    <3>2. CASE InHeader(r, ls[i], s, data, h) \/ Between(r, ls[i], s, h)
      BY <1>2, <2>3, <2>4, <3>2, HeaderByte
    <3> QED BY <2>4, <3>1, <3>2 DEF Parsing
  <2>6. ASSUME NEW t \in After(s, data, i) PROVE t \in K[i]
    <3>1. Parsing(ss, r, ls[i + 1], t, data, i)
      BY <2>4, <2>5, <2>6
    <3>2. t \in InStates
      BY <3>1 DEF Parsing
    <3> QED BY <2>1, <3>1, <3>2
  <2> QED BY <2>6
<1>6. n \in 0 .. n /\ K[n] = {s \in InStates : Parsing(ss, r, ls[n + 1], s, data, n)}
  BY <1>1
<1>7. /\ Len(data) \in Nat /\ s0 \in K[0]
      /\ \A i \in 1 .. Len(data) : \A s \in K[i - 1] : After(s, data, i) \subseteq K[i]
  BY <1>1, <1>2, <1>4, <1>5
<1> HIDE DEF K
<1>8. Outcomes(data) \subseteq K[Len(data)]
  BY <1>7, InboxInduction
<1>9. Outcomes(data) \subseteq K[n]
  BY <1>2, <1>8
<1> QED BY <1>6, <1>9 DEF data
-----------------------------------------------------------------------------
(* InOrder.                                                                *)

(* Where the sender stands: o is out, q its queue, g the nodes freed and   *)
(* t is tx.                                                                *)
WritesAt(o, q, g, t, l) ==
  IF o = <<>>
  THEN Ended(l) /\ l.x = g + (IF q # <<>> /\ q[1] = Taken THEN 1 ELSE 0)
  ELSE /\ l.x = g + 1
       /\ IF t /\ Len(o) # HeaderLen THEN Ended(l)
          ELSE l.m = Len(q[1]) /\ l.i = HeaderLen

StreamTypes ==
  /\ outbox \in Seq(Seq(Byte)) /\ outgone \in Nat /\ wire \in Seq(Seq(Byte))
  /\ in.len \in Nat /\ in.buf \in Seq(Byte)
  /\ inbox \in Seq(Seq(Byte)) /\ ingone \in Nat /\ reading \in Nat
  /\ got \in Seq(Seq(Byte))

(* The queue is what was sent and not freed, its head perhaps taken; what  *)
(* is being sent is the header or the packet of that head.                 *)
SenderOK ==
  /\ Numbered(sent) /\ Len(sent) = outgone + Len(outbox)
  /\ \A i \in 1 .. Len(outbox) :
       outbox[i] = sent[outgone + i] \/ (i = 1 /\ outbox[i] = Taken)
  /\ out # <<>> => /\ outbox # <<>>
                   /\ out = outbox[1] \/ (tx /\ out = Header(Len(outbox[1])))
  /\ tx => out # <<>>
  /\ sending.busy => /\ sending.head = 0 => outbox = <<>>
                     /\ \E m \in Lens : sending.pkt = Packet(Len(sent) + 1, m)

(* The packets received, and those in the queue: the ones that were taken  *)
(* come first, and util_frames_receive is not past the next.               *)
ReceiverOK ==
  /\ ingone + Len(inbox) <= Len(sent)
  /\ Len(got) \in ingone .. ingone + Len(inbox)
  /\ \A i \in 1 .. Len(got) : got[i] = sent[i]
  /\ \A i \in 1 .. Len(inbox) :
       inbox[i] = IF ingone + i <= Len(got) THEN Taken ELSE sent[ingone + i]
  /\ reading # 0 => /\ reading \in ingone + 1 .. ingone + Len(inbox)
                    /\ reading <= Len(got) + 1

(* The bytes on their way lead from where the receiver stands to where the *)
(* sender does.                                                            *)
WireOK ==
  \E ls : /\ Path(sent, ls, FlattenSeq(wire))
          /\ AtSpot(sent, ingone + Len(inbox), in, ls[1])
          /\ WritesAt(out, outbox, outgone, tx, ls[Len(FlattenSeq(wire)) + 1])

StreamInv ==
  mode = "stream" => StreamTypes /\ SenderOK /\ ReceiverOK /\ WireOK

(* The packets sent are neither empty nor as long as a header.             *)
LEMMA SentFacts ==
  ASSUME HeaderLen \notin Lens,
         NEW ss, Numbered(ss), NEW x \in 1 .. Len(ss)
  PROVE  /\ ss[x] \in Seq(Byte) /\ ss[x] # Taken /\ Len(ss[x]) \in Nat
         /\ Len(ss[x]) > HeaderLen /\ Len(ss[x]) # 0
         /\ \A m \in Nat : ss[x] # Header(m)
         /\ \A j \in 1 .. Len(ss[x]) :
              ss[x][j] = [kind |-> "data", n |-> x, at |-> j]
<1>1. ss \in Seq(Seq(Byte)) /\ Len(ss[x]) \in Lens /\ ss[x] = Packet(x, Len(ss[x]))
  BY DEF Numbered
<1>2. Len(ss[x]) \in Nat /\ Len(ss[x]) > HeaderLen /\ HeaderLen \in Nat \ {0}
  BY <1>1, LensFacts
<1>3. Len(ss[x]) # 0 /\ Len(ss[x]) # HeaderLen
  BY <1>2
<1>4. ss[x] # Taken
  <2>1. Len(Taken) = 0
    BY DEF Taken
  <2> QED BY <1>3, <2>1
<1>5. \A m \in Nat : ss[x] # Header(m)
  BY <1>3, HeaderFacts
<1>6. x \in Nat
  BY <1>1
<1>7. \A j \in 1 .. Len(ss[x]) :
        Packet(x, Len(ss[x]))[j] = [kind |-> "data", n |-> x, at |-> j]
  BY <1>2, <1>6, PacketFacts
<1>8. \A j \in 1 .. Len(ss[x]) :
        ss[x][j] = [kind |-> "data", n |-> x, at |-> j]
  BY <1>1, <1>7, Zenon
<1>9. ss[x] \in Seq(Byte)
  BY <1>1
<1> QED BY <1>2, <1>3, <1>4, <1>5, <1>8, <1>9

LEMMA StreamStart == FrameInit => StreamInv
<1> SUFFICES ASSUME FrameInit PROVE StreamTypes /\ SenderOK /\ ReceiverOK /\ WireOK
  BY DEF StreamInv
<1>1. /\ outbox = <<>> /\ outgone = 0 /\ out = <<>> /\ tx = FALSE
      /\ sending.busy = FALSE /\ wire = <<>>
      /\ in.len = HeaderLen /\ in.buf = <<>> /\ inbox = <<>> /\ ingone = 0
      /\ reading = 0 /\ sent = <<>> /\ got = <<>>
  BY DEF FrameInit, NotSending, AwaitHeader
<1>2. StreamTypes
  BY <1>1, LensFacts DEF StreamTypes
<1>3. SenderOK
  BY <1>1 DEF SenderOK, Numbered
<1>4. ReceiverOK
  BY <1>1 DEF ReceiverOK
<1>5. WireOK
  <2> DEFINE l == [x |-> 0, m |-> 0, i |-> HeaderLen]
             ls == [j \in 1 .. 1 |-> l]
  <2>1. FlattenSeq(wire) = <<>> /\ Len(FlattenSeq(wire)) = 0
    <3>1. FlattenSeq(<<>>) = <<>>
      BY DEF FlattenSeq
    <3>2. wire = <<>>
      BY <1>1
    <3>3. FlattenSeq(wire) = <<>>
      BY <3>1, <3>2, Zenon
    <3> QED BY <3>3
  <2>2. /\ l \in Spots /\ l.i \in 1 .. HeaderLen + l.m /\ l.m = 0 /\ l.x = 0
        /\ Ended(l)
    BY LensFacts DEF Spots, Ended
  <2>3. ls[1] = l
    OBVIOUS
  <2> HIDE DEF l, ls
  <2>4. Fits(sent, l)
    BY <2>2 DEF Fits
  <2>5. Path(sent, ls, <<>>)
    BY <2>3, <2>4 DEF Path
  <2>6. AtSpot(sent, ingone + Len(inbox), in, l)
    <3> DEFINE s == [len |-> in.len, buf |-> in.buf, q |-> <<>>, from |-> 1,
                     dead |-> FALSE]
    <3>1. s.len = HeaderLen /\ s.buf = <<>> /\ s.from = 0 + 1 /\ Len(s.q) = 0
      BY <1>1
    <3> HIDE DEF s
    <3>2. Between(ingone + Len(inbox), l, s, 0)
      BY <1>1, <2>2, <3>1 DEF Between
    <3> QED BY <3>2 DEF AtSpot, s
  <2>7. WritesAt(out, outbox, outgone, tx, l)
    BY <1>1, <2>2 DEF WritesAt
  <2> QED BY <2>1, <2>3, <2>5, <2>6, <2>7 DEF WireOK
<1> QED BY <1>2, <1>3, <1>4, <1>5

(* util_frames_send.                                                       *)
LEMMA StreamSend ==
  ASSUME StreamTypes, SenderOK, ReceiverOK, WireOK, Send
  PROVE  StreamTypes' /\ SenderOK' /\ ReceiverOK' /\ WireOK'
<1>1. UNCHANGED <<outbox, outgone, out, tx, wire, sent, in, inbox, ingone,
                  reading, got>>
  BY DEF Send, receiver
<1>2. SenderOK'
  <2>1. PICK m \in Lens :
          sending' = [busy |-> TRUE,
                      head |-> IF outbox = <<>> THEN 0 ELSE outgone + 1,
                      pkt |-> Packet(Len(sent) + 1, m)]
    BY DEF Send
  <2>2. sending'.head = IF outbox = <<>> THEN 0 ELSE outgone + 1
    BY <2>1
  <2>3. outgone + 1 # 0
    BY DEF StreamTypes
  <2>4. sending'.head = 0 => outbox = <<>>
    BY <2>2, <2>3
  <2>5. \E y \in Lens : sending'.pkt = Packet(Len(sent) + 1, y)
    BY <2>1
  <2> QED BY <1>1, <2>4, <2>5 DEF SenderOK
<1>3. StreamTypes'
  BY <1>1 DEF StreamTypes
<1>4. ReceiverOK'
  BY <1>1 DEF ReceiverOK
<1>5. WireOK'
  BY <1>1 DEF WireOK
<1> QED BY <1>2, <1>3, <1>4, <1>5

LEMMA StreamSendLink ==
  ASSUME HeaderLen \notin Lens,
         StreamTypes, SenderOK, ReceiverOK, WireOK, SendLink
  PROVE  StreamTypes' /\ SenderOK' /\ ReceiverOK' /\ WireOK'
<1> DEFINE p == sending.pkt
<1>1. /\ UNCHANGED <<outgone, out, tx, wire, in, inbox, ingone, reading, got>>
      /\ sending.busy /\ sent' = Append(sent, p) /\ sending'.busy = FALSE
      /\ outbox' = IF sending.head = 0 THEN <<p>> ELSE Append(outbox, p)
  BY DEF SendLink, receiver, NotSending
<1>2. Numbered(sent) /\ Len(sent) = outgone + Len(outbox)
      /\ (sending.head = 0 => outbox = <<>>)
  BY <1>1 DEF SenderOK
<1>3. PICK m \in Lens : p = Packet(Len(sent) + 1, m)
  BY <1>1 DEF SenderOK
<1> HIDE DEF p
<1>4. outbox' = Append(outbox, p)
  BY <1>1, <1>2
<1>5. /\ Numbered(sent') /\ Len(sent') = Len(sent) + 1 /\ sent'[Len(sent) + 1] = p
      /\ \A j \in 1 .. Len(sent) : sent'[j] = sent[j]
      /\ \A l : Fits(sent, l) => Fits(sent', l)
      /\ \A ls, v : Path(sent, ls, v) => Path(sent', ls, v)
      /\ \A r \in Nat : \A c, l :
           AtSpot(sent, r, c, l) /\ Fits(sent, l) => AtSpot(sent', r, c, l)
  BY <1>1, <1>2, <1>3, PathGrow, SMTT(20)
<1>6. /\ outbox \in Seq(Seq(Byte)) /\ outgone \in Nat /\ Len(outbox) \in Nat
      /\ Len(sent) \in Nat /\ p \in Seq(Byte) /\ p # Taken
  <2>1. Len(sent) + 1 \in 1 .. Len(sent') /\ Len(sent) \in Nat
    BY <1>2, <1>5 DEF Numbered
  <2>2. sent'[Len(sent) + 1] \in Seq(Byte) /\ sent'[Len(sent) + 1] # Taken
    BY <1>5, <2>1, SentFacts
  <2> QED BY <1>5, <2>1, <2>2 DEF StreamTypes
<1>7. /\ outbox' \in Seq(Seq(Byte)) /\ Len(outbox') = Len(outbox) + 1
      /\ outbox'[Len(outbox) + 1] = p
      /\ \A j \in 1 .. Len(outbox) : outbox'[j] = outbox[j]
  BY <1>4, <1>6
<1>8. outbox # <<>> => outbox' # <<>> /\ outbox'[1] = outbox[1]
  BY <1>6, <1>7
<1>9. outbox = <<>> => out = <<>> /\ outbox'[1] # Taken
  BY <1>6, <1>7 DEF SenderOK
<1>10. StreamTypes'
  BY <1>1, <1>7 DEF StreamTypes
<1>11. SenderOK'
  <2>1. ASSUME NEW i \in 1 .. Len(outbox')
        PROVE  outbox'[i] = sent'[outgone + i] \/ (i = 1 /\ outbox'[i] = Taken)
    <3>1. CASE i = Len(outbox) + 1
      <4>1. outgone + i = Len(sent) + 1
        BY <1>2, <1>6, <3>1
      <4> QED BY <1>5, <1>7, <3>1, <4>1
    <3>2. CASE i # Len(outbox) + 1
      <4>1. i \in 1 .. Len(outbox) /\ outgone + i \in 1 .. Len(sent)
        BY <1>2, <1>6, <1>7, <3>2
      <4>2. outbox'[i] = outbox[i] /\ sent'[outgone + i] = sent[outgone + i]
        BY <1>5, <1>7, <4>1
      <4>3. outbox[i] = sent[outgone + i] \/ (i = 1 /\ outbox[i] = Taken)
        BY <4>1 DEF SenderOK
      <4> QED BY <4>2, <4>3
    <3> QED BY <3>1, <3>2
  <2>2. Len(sent') = outgone + Len(outbox')
    BY <1>2, <1>5, <1>6, <1>7
  <2>3. out # <<>> => /\ outbox' # <<>>
                      /\ out = outbox'[1] \/ (tx /\ out = Header(Len(outbox'[1])))
    BY <1>8 DEF SenderOK
  <2>4. tx => out # <<>>
    BY DEF SenderOK
  <2> QED BY <1>1, <1>5, <2>1, <2>2, <2>3, <2>4, ZenonT(40) DEF SenderOK
<1>12. ReceiverOK'
  <2>1. ingone + Len(inbox) <= Len(sent) /\ ingone \in Nat /\ Len(inbox) \in Nat
        /\ Len(got) \in ingone .. ingone + Len(inbox)
    BY DEF ReceiverOK, StreamTypes
  <2>2. ingone + Len(inbox) <= Len(sent')
    BY <1>5, <1>6, <2>1
  <2>3. ASSUME NEW i \in 1 .. Len(got) PROVE got[i] = sent'[i]
    <3>1. i \in 1 .. Len(sent)
      BY <1>6, <2>1
    <3> QED BY <1>5, <3>1 DEF ReceiverOK
  <2>4. ASSUME NEW i \in 1 .. Len(inbox)
        PROVE  inbox[i] = IF ingone + i <= Len(got) THEN Taken ELSE sent'[ingone + i]
    <3>1. ingone + i \in 1 .. Len(sent)
      BY <1>6, <2>1
    <3>2. sent'[ingone + i] = sent[ingone + i]
      BY <1>5, <3>1
    <3> QED BY <3>2 DEF ReceiverOK
  <2>5. reading # 0 => /\ reading \in ingone + 1 .. ingone + Len(inbox)
                       /\ reading <= Len(got) + 1
    BY DEF ReceiverOK
  <2> QED BY <1>1, <2>1, <2>2, <2>3, <2>4, <2>5 DEF ReceiverOK
<1>13. WireOK'
  <2> DEFINE v == FlattenSeq(wire)
             R == ingone + Len(inbox)
  <2>1. PICK ls : /\ Path(sent, ls, v) /\ AtSpot(sent, R, in, ls[1])
                  /\ WritesAt(out, outbox, outgone, tx, ls[Len(v) + 1])
    BY DEF WireOK
  <2>2. R \in Nat
    BY DEF StreamTypes
  <2>3. Fits(sent, ls[1])
    <3>1. v \in Seq(Byte) /\ 1 \in 1 .. Len(v) + 1
      BY <2>1 DEF Path
    <3> QED BY <2>1, <3>1 DEF Path
  <2>4. v' = v /\ R' = R /\ in' = in
    BY <1>1
  <2> HIDE DEF v, R
  <2>5. Path(sent', ls, v) /\ AtSpot(sent', R, in, ls[1])
    BY <1>5, <2>1, <2>2, <2>3
  <2>6. WritesAt(out, outbox', outgone, tx, ls[Len(v) + 1])
    <3> DEFINE l == ls[Len(v) + 1]
    <3>1. WritesAt(out, outbox, outgone, tx, l)
      BY <2>1
    <3> HIDE DEF l
    <3>2. CASE out = <<>>
      <4>1. (outbox' # <<>> /\ outbox'[1] = Taken)
              <=> (outbox # <<>> /\ outbox[1] = Taken)
        BY <1>8, <1>9
      <4>2. Ended(l)
            /\ l.x = outgone + (IF outbox # <<>> /\ outbox[1] = Taken THEN 1 ELSE 0)
        BY <3>1, <3>2 DEF WritesAt
      <4> QED BY <3>2, <4>1, <4>2 DEF WritesAt, l
    <3>3. CASE out # <<>>
      <4>1. outbox # <<>>
        BY <3>3 DEF SenderOK
      <4>2. outbox'[1] = outbox[1]
        BY <1>8, <4>1
      <4> QED BY <3>1, <3>3, <4>2 DEF WritesAt, l
    <3> QED BY <3>2, <3>3
  <2>7. /\ Path(sent', ls, v') /\ AtSpot(sent', R', in', ls[1])
        /\ WritesAt(out', outbox', outgone', tx', ls[Len(v') + 1])
    BY <1>1, <2>4, <2>5, <2>6
  <2> QED BY <2>7 DEF WireOK, v, R
<1> QED BY <1>10, <1>11, <1>12, <1>13

(* The head of the queue: a packet sent, or taken and so empty.            *)
LEMMA HeadFacts ==
  ASSUME HeaderLen \notin Lens,
         StreamTypes, SenderOK, outbox # <<>>
  PROVE  /\ Len(outbox) \in Nat /\ 1 \in 1 .. Len(outbox) /\ Head(outbox) = outbox[1]
         /\ outbox[1] \in Seq(Byte) /\ Len(outbox[1]) \in Nat
         /\ outbox[1] = Taken => Len(outbox[1]) = 0
         /\ outbox[1] # Taken =>
              /\ outgone + 1 \in 1 .. Len(sent) /\ outbox[1] = sent[outgone + 1]
              /\ Len(outbox[1]) > HeaderLen /\ Len(outbox[1]) # HeaderLen
              /\ Len(outbox[1]) # 0
<1>1. /\ outbox \in Seq(Seq(Byte)) /\ outgone \in Nat /\ Len(outbox) \in Nat
      /\ Len(sent) = outgone + Len(outbox) /\ Numbered(sent)
      /\ \A i \in 1 .. Len(outbox) :
           outbox[i] = sent[outgone + i] \/ (i = 1 /\ outbox[i] = Taken)
  BY DEF StreamTypes, SenderOK
<1>2. 1 \in 1 .. Len(outbox) /\ Head(outbox) = outbox[1] /\ outbox[1] \in Seq(Byte)
  BY <1>1
<1>3. outbox[1] = Taken => Len(outbox[1]) = 0
  BY DEF Taken
<1>4. ASSUME outbox[1] # Taken
      PROVE  /\ outgone + 1 \in 1 .. Len(sent) /\ outbox[1] = sent[outgone + 1]
             /\ Len(outbox[1]) > HeaderLen /\ Len(outbox[1]) # HeaderLen
             /\ Len(outbox[1]) # 0
  <2>1. outgone + 1 \in 1 .. Len(sent) /\ outbox[1] = sent[outgone + 1]
    BY <1>1, <1>2, <1>4
  <2>2. /\ Len(sent[outgone + 1]) > HeaderLen /\ Len(sent[outgone + 1]) \in Nat
        /\ HeaderLen \in Nat /\ Len(sent[outgone + 1]) # 0
    BY <1>1, <2>1, SentFacts, LensFacts
  <2> QED BY <2>1, <2>2
<1> QED BY <1>1, <1>2, <1>3, <1>4

(* util_frames_sent.                                                       *)
LEMMA StreamSent ==
  ASSUME HeaderLen \notin Lens,
         StreamTypes, SenderOK, ReceiverOK, WireOK, Sent
  PROVE  StreamTypes' /\ SenderOK' /\ ReceiverOK' /\ WireOK'
<1>1. /\ UNCHANGED <<outgone, sending, wire, sent, in, inbox, ingone, reading, got>>
      /\ tx /\ ~tx'
      /\ \/ Len(out) = HeaderLen /\ out' = Head(outbox) /\ outbox' = outbox
         \/ Len(out) # HeaderLen /\ out' = <<>>
            /\ outbox' = [outbox EXCEPT ![1] = Taken]
  BY DEF Sent, receiver
<1>2. out # <<>> /\ outbox # <<>>
  BY <1>1 DEF SenderOK
<1>3. /\ Len(outbox) \in Nat /\ 1 \in 1 .. Len(outbox) /\ Head(outbox) = outbox[1]
      /\ Len(outbox[1]) \in Nat /\ (outbox[1] = Taken => Len(outbox[1]) = 0)
      /\ outbox \in Seq(Seq(Byte)) /\ outgone \in Nat
  BY <1>2, HeadFacts DEF StreamTypes
<1>4. PICK ls :
        /\ Path(sent, ls, FlattenSeq(wire))
        /\ AtSpot(sent, ingone + Len(inbox), in, ls[1])
        /\ WritesAt(out, outbox, outgone, tx, ls[Len(FlattenSeq(wire)) + 1])
  BY DEF WireOK
<1> DEFINE l == ls[Len(FlattenSeq(wire)) + 1]
<1>5. /\ l.x = outgone + 1
      /\ IF Len(out) # HeaderLen THEN Ended(l)
         ELSE l.m = Len(outbox[1]) /\ l.i = HeaderLen
  BY <1>1, <1>2, <1>4 DEF WritesAt
<1>6. ASSUME WritesAt(out', outbox', outgone, tx', l) PROVE WireOK'
  <2>1. FlattenSeq(wire') = FlattenSeq(wire)
    BY <1>1
  <2>2. WritesAt(out', outbox', outgone', tx', ls[Len(FlattenSeq(wire')) + 1])
    BY <1>1, <1>6, <2>1
  <2> QED BY <1>1, <1>4, <2>1, <2>2 DEF WireOK
<1>7. ReceiverOK'
  BY <1>1 DEF ReceiverOK
<1>8. CASE Len(out) = HeaderLen
  <2>1. out' = outbox[1] /\ outbox' = outbox
    BY <1>1, <1>3, <1>8
  <2>2. SenderOK'
    BY <1>1, <1>2, <2>1 DEF SenderOK
  <2>3. WritesAt(out', outbox', outgone, tx', l)
    <3>1. l.m = Len(outbox[1]) /\ l.i = HeaderLen
      BY <1>5, <1>8
    <3> HIDE DEF l
    <3>2. CASE outbox[1] = Taken
      <4>1. Ended(l)
        BY <1>3, <3>1, <3>2, LensFacts DEF Ended
      <4>2. out' = <<>>
        BY <2>1, <3>2 DEF Taken
      <4> QED BY <1>2, <1>5, <2>1, <3>2, <4>1, <4>2 DEF WritesAt, Taken, l
    <3>3. CASE outbox[1] # Taken
      <4>1. out' # <<>>
        BY <2>1, <3>3 DEF Taken
      <4> QED BY <1>1, <1>5, <2>1, <3>1, <4>1 DEF WritesAt, l
    <3> QED BY <3>2, <3>3
  <2>4. StreamTypes'
    BY <1>1, <2>1 DEF StreamTypes
  <2> QED BY <1>6, <1>7, <2>2, <2>3, <2>4
<1>9. CASE Len(out) # HeaderLen
  <2>1. out' = <<>> /\ outbox' = [outbox EXCEPT ![1] = Taken]
    BY <1>1, <1>9
  <2>2. /\ outbox' \in Seq(Seq(Byte)) /\ Len(outbox') = Len(outbox)
        /\ outbox'[1] = Taken /\ outbox' # <<>>
        /\ \A i \in 1 .. Len(outbox) : i # 1 => outbox'[i] = outbox[i]
    <3>1. Taken \in Seq(Byte)
      BY DEF Taken
    <3> HIDE DEF l
    <3> QED BY <1>2, <1>3, <2>1, <3>1
  <2>3. SenderOK'
    <3>1. sending.busy => sending.head # 0
      BY <1>2 DEF SenderOK
    <3>2. \A i \in 1 .. Len(outbox') :
            outbox'[i] = sent[outgone + i] \/ (i = 1 /\ outbox'[i] = Taken)
      <4> SUFFICES ASSUME NEW i \in 1 .. Len(outbox'), i # 1
                   PROVE  outbox'[i] = sent[outgone + i]
        BY <2>2
      <4>1. outbox[i] = sent[outgone + i] /\ outbox'[i] = outbox[i]
        BY <2>2 DEF SenderOK
      <4> QED BY <4>1
    <3> QED BY <1>1, <2>1, <2>2, <3>1, <3>2 DEF SenderOK
  <2>4. WritesAt(out', outbox', outgone, tx', l)
    BY <1>5, <1>9, <2>1, <2>2 DEF WritesAt
  <2>5. StreamTypes'
    BY <1>1, <2>2 DEF StreamTypes
  <2> QED BY <1>6, <1>7, <2>3, <2>4, <2>5
<1> QED BY <1>8, <1>9

(* util_frames_outbox: a packet follows its header ...                     *)
LEMMA StreamOutboxPacket ==
  ASSUME HeaderLen \notin Lens,
         StreamTypes, SenderOK, ReceiverOK, WireOK, Outbox, out # <<>>
  PROVE  StreamTypes' /\ SenderOK' /\ ReceiverOK' /\ WireOK'
<1>1. /\ UNCHANGED <<outgone, outbox, out, sending, sent, in, inbox, ingone,
                     reading, got>>
      /\ ~tx /\ tx' /\ wire' = Append(wire, out)
  BY DEF Outbox, receiver
<1>2. outbox # <<>> /\ out = outbox[1] /\ outbox[1] # Taken
  BY <1>1 DEF SenderOK, Taken
<1>3. /\ out \in Seq(Byte) /\ Len(out) \in Nat /\ outgone + 1 \in 1 .. Len(sent)
      /\ out = sent[outgone + 1] /\ Len(out) # HeaderLen /\ Len(out) # 0
      /\ outgone \in Nat
  BY <1>2, HeadFacts DEF StreamTypes
<1>4. \A j \in 1 .. Len(out) : out[j] = [kind |-> "data", n |-> outgone + 1, at |-> j]
  BY <1>3, SentFacts DEF SenderOK
<1>5. HeaderLen \in Nat
  BY LensFacts
<1> DEFINE v == FlattenSeq(wire)
           x == outgone + 1
           m == Len(out)
           a == HeaderLen + 1
<1>6. PICK ls :
        /\ Path(sent, ls, v)
        /\ AtSpot(sent, ingone + Len(inbox), in, ls[1])
        /\ WritesAt(out, outbox, outgone, tx, ls[Len(v) + 1])
  BY DEF WireOK
<1>7. FlattenSeq(wire') = v \o out
  BY <1>1, <1>3, FlattenAppend DEF StreamTypes
<1> DEFINE l == ls[Len(v) + 1]
<1>8. l.x = x /\ l.m = m /\ l.i = HeaderLen
  BY <1>1, <1>2, <1>6 DEF WritesAt
<1> HIDE DEF l, v
<1>9. Follows(l, [x |-> x, m |-> m, i |-> a])
  <2>1. ~Ended(l)
    BY <1>3, <1>5, <1>8 DEF Ended
  <2> QED BY <1>8, <2>1 DEF Follows
<1>10. \A j \in 1 .. m : out[j] = ByteAt([x |-> x, m |-> m, i |-> a + j - 1])
  <2> SUFFICES ASSUME NEW j \in 1 .. m
               PROVE  out[j] = ByteAt([x |-> x, m |-> m, i |-> a + j - 1])
    OBVIOUS
  <2>1. ~(a + j - 1 <= HeaderLen) /\ a + j - 1 - HeaderLen = j
    BY <1>3, <1>5
  <2> DEFINE y == a + j - 1
             k == [x |-> x, m |-> m, i |-> y]
  <2> HIDE DEF y
  <2>2. k.x = outgone + 1 /\ ~(k.i <= HeaderLen) /\ k.i - HeaderLen = j
    <3>1. ~(y <= HeaderLen) /\ y - HeaderLen = j
      BY <1>3, <1>5 DEF y
    <3>2. k.x = outgone + 1 /\ k.i = y
      OBVIOUS
    <3> QED BY <3>1, <3>2
  <2> HIDE DEF k
  <2>3. ByteAt(k) = [kind |-> "data", n |-> outgone + 1, at |-> j]
    BY <2>2 DEF ByteAt
  <2>4. out[j] = ByteAt(k)
    BY <1>4, <2>3
  <2> QED BY <2>4 DEF k, y
<1>11. /\ x \in Nat /\ m \in Nat /\ a \in Nat \ {0} /\ a + m - 1 <= HeaderLen + m
       /\ m # 0 => x \in 1 .. Len(sent) /\ m = Len(sent[x])
       /\ a + m - 1 = HeaderLen + m
  <2>1. x \in Nat /\ m \in Nat /\ a \in Nat \ {0}
    BY <1>3, <1>5
  <2>2. x \in 1 .. Len(sent) /\ m = Len(sent[x])
    BY <1>3
  <2> HIDE DEF x, m
  <2>3. a + m - 1 = HeaderLen + m
    BY <1>5, <2>1
  <2>4. a + m - 1 <= HeaderLen + m
    BY <1>5, <2>1
  <2> QED BY <2>1, <2>2, <2>3, <2>4
<1> HIDE DEF x, m, a
<1>12. PICK lz : /\ Path(sent, lz, v \o out) /\ lz[1] = ls[1]
                 /\ lz[Len(v \o out) + 1] = [x |-> x, m |-> m, i |-> a + m - 1]
  <2>1. FrameAfter(sent, l, out, x, m, a)
    <3>1. \A j \in 1 .. Len(out) :
            out[j] = ByteAt([x |-> x, m |-> m, i |-> a + j - 1])
      BY <1>10 DEF m
    <3>2. out # <<>> /\ out \in Seq(Byte) /\ Len(out) = m
      BY <1>3 DEF m
    <3> QED BY <1>9, <1>11, <3>1, <3>2 DEF FrameAfter
  <2>2. FrameAfter(sent, ls[Len(v) + 1], out, x, m, a) /\ Len(out) = m
    BY <2>1 DEF l, m
  <2> QED BY <1>6, <2>2, PathAppend
<1>13. WritesAt(out, outbox, outgone, tx', lz[Len(v \o out) + 1])
  <2> DEFINE z == [x |-> x, m |-> m, i |-> a + m - 1]
  <2>1. Ended(z) /\ z.x = outgone + 1
    BY <1>11 DEF Ended, x
  <2> HIDE DEF z
  <2>2. WritesAt(out, outbox, outgone, tx', z)
    BY <1>1, <1>3, <1>11, <2>1 DEF WritesAt
  <2> QED BY <1>12, <2>2 DEF z
<1>14. WireOK'
  <2>1. /\ Path(sent', lz, FlattenSeq(wire'))
        /\ AtSpot(sent', ingone' + Len(inbox'), in', lz[1])
        /\ WritesAt(out', outbox', outgone', tx', lz[Len(FlattenSeq(wire')) + 1])
    BY <1>1, <1>6, <1>7, <1>12, <1>13
  <2> QED BY <2>1 DEF WireOK
<1>15. StreamTypes'
  <2>1. wire' \in Seq(Seq(Byte))
    BY <1>1, <1>3 DEF StreamTypes
  <2> QED BY <1>1, <2>1 DEF StreamTypes
<1>16. SenderOK'
  BY <1>1, <1>2 DEF SenderOK
<1>17. ReceiverOK'
  BY <1>1 DEF ReceiverOK
<1> QED BY <1>14, <1>15, <1>16, <1>17

(* ... and a header the packet before it, once that is freed.              *)
LEMMA StreamOutboxHeader ==
  ASSUME HeaderLen \notin Lens,
         StreamTypes, SenderOK, ReceiverOK, WireOK, Outbox, out = <<>>
  PROVE  StreamTypes' /\ SenderOK' /\ ReceiverOK' /\ WireOK'
<1>1. /\ UNCHANGED <<sending, sent, in, inbox, ingone, reading, got>>
      /\ ~tx
  BY DEF Outbox, receiver
<1>2. PICK n \in 0 .. Len(outbox) :
        /\ Freed(outbox, sending.busy, n)
        /\ outbox' = SubSeq(outbox, n + 1, Len(outbox))
        /\ outgone' = outgone + n
  BY DEF Outbox
<1>3. \/ outbox' = <<>> /\ UNCHANGED <<out, tx, wire>>
      \/ /\ outbox' # <<>> /\ out' = Header(Len(Head(outbox'))) /\ tx'
         /\ wire' = Append(wire, out')
  BY DEF Outbox
<1>4. /\ outbox \in Seq(Seq(Byte)) /\ outgone \in Nat /\ Len(outbox) \in Nat
      /\ Len(sent) = outgone + Len(outbox) /\ Numbered(sent) /\ n \in Nat
      /\ \A i \in 1 .. Len(outbox) :
           outbox[i] = sent[outgone + i] \/ (i = 1 /\ outbox[i] = Taken)
  BY DEF StreamTypes, SenderOK
<1>5. \A i \in 1 .. Len(outbox) : i # 1 => /\ outbox[i] = sent[outgone + i]
                                           /\ outbox[i] # Taken
  <2> SUFFICES ASSUME NEW i \in 1 .. Len(outbox), i # 1
               PROVE  outbox[i] = sent[outgone + i] /\ outbox[i] # Taken
    OBVIOUS
  <2>1. outgone + i \in 1 .. Len(sent)
    BY <1>4
  <2>2. sent[outgone + i] # Taken
    BY <1>4, <2>1, SentFacts
  <2> QED BY <1>4, <2>2
<1>6. n = 0 \/ (n = 1 /\ 1 \in 1 .. Len(outbox) /\ outbox[1] = Taken)
  <2>1. n = 0 \/ \A i \in 1 .. n : outbox[i] = Taken
    BY <1>2 DEF Freed, Leading
  <2>2. CASE n >= 2
    <3>1. 2 \in 1 .. n /\ 2 \in 1 .. Len(outbox) /\ 2 # 1
      BY <1>4, <2>2
    <3> QED BY <1>5, <2>1, <2>2, <3>1
  <2>3. CASE n = 1
    <3>1. 1 \in 1 .. n /\ 1 \in 1 .. Len(outbox)
      BY <1>4, <2>3
    <3> QED BY <2>1, <2>3, <3>1
  <2> QED BY <1>4, <2>2, <2>3
<1>7. /\ outbox' \in Seq(Seq(Byte)) /\ Len(outbox') = Len(outbox) - n
      /\ \A i \in 1 .. Len(outbox') : outbox'[i] = outbox[i + n]
      /\ Len(outbox') \in Nat /\ outgone' \in Nat
  <2> DEFINE z == SubSeq(outbox, n + 1, Len(outbox))
  <2>1. /\ z \in Seq(Seq(Byte)) /\ Len(z) = Len(outbox) - n /\ Len(z) \in Nat
        /\ \A i \in 1 .. Len(z) : z[i] = outbox[i + n]
    BY <1>2, <1>4, RestOf
  <2>2. outbox' = z
    BY <1>2
  <2>3. outgone' \in Nat
    BY <1>2, <1>4
  <2> HIDE DEF z
  <2> QED BY <2>1, <2>2, <2>3
<1>8. Len(sent) = outgone' + Len(outbox')
  <2>1. /\ Len(sent) = outgone + Len(outbox) /\ outgone' = outgone + n
        /\ Len(outbox') = Len(outbox) - n /\ outgone \in Nat /\ n \in Nat
        /\ Len(outbox) \in Nat
    BY <1>2, <1>4, <1>7
  <2> QED BY <2>1
<1>9. ASSUME NEW i \in 1 .. Len(outbox')
      PROVE  outbox'[i] = sent[outgone' + i] \/ (i = 1 /\ outbox'[i] = Taken)
  <2>1. i + n \in 1 .. Len(outbox) /\ outgone + (i + n) = outgone' + i
    BY <1>2, <1>4, <1>7, SMTT(20)
  <2>2. outbox'[i] = outbox[i + n]
    BY <1>7
  <2>3. CASE n = 0
    BY <1>4, <2>1, <2>2, <2>3
  <2>4. CASE n = 1
    <3>1. i + n # 1
      BY <2>4
    <3>2. outbox[i + n] = sent[outgone + (i + n)]
      BY <1>5, <2>1, <3>1
    <3> QED BY <2>1, <2>2, <3>2
  <2> QED BY <1>6, <2>3, <2>4
<1>10. sending.busy => (sending.head = 0 => outbox' = <<>>)
  <2> SUFFICES ASSUME outbox = <<>> PROVE outbox' = <<>>
    BY DEF SenderOK
  <2>1. Len(outbox') = 0
    BY <1>4, <1>7
  <2> QED BY <1>7, <2>1
<1> DEFINE v == FlattenSeq(wire)
<1>11. PICK ls :
        /\ Path(sent, ls, v)
        /\ AtSpot(sent, ingone + Len(inbox), in, ls[1])
        /\ WritesAt(out, outbox, outgone, tx, ls[Len(v) + 1])
  BY DEF WireOK
<1> DEFINE l == ls[Len(v) + 1]
<1>12. Ended(l) /\ l.x = outgone + (IF outbox # <<>> /\ outbox[1] = Taken THEN 1 ELSE 0)
  BY <1>11 DEF WritesAt
<1> HIDE DEF l, v
<1>13. l.x = outgone' + (IF outbox' # <<>> /\ outbox'[1] = Taken THEN 1 ELSE 0)
  <2>1. CASE n = 0
    <3>1. outbox' = outbox /\ outgone' = outgone
      BY <1>2, <1>4, <2>1
    <3> QED BY <1>12, <3>1
  <2>2. CASE n = 1 /\ 1 \in 1 .. Len(outbox) /\ outbox[1] = Taken
    <3>1. outgone' = outgone + 1 /\ outbox # <<>>
      BY <1>2, <2>2
    <3>2. outbox' # <<>> => outbox'[1] # Taken
      <4> SUFFICES ASSUME outbox' # <<>> PROVE outbox'[1] # Taken
        OBVIOUS
      <4>1. 1 \in 1 .. Len(outbox') /\ 1 + n \in 1 .. Len(outbox) /\ 1 + n # 1
        BY <1>4, <1>7, <2>2
      <4>2. outbox'[1] = outbox[1 + n]
        BY <1>7, <4>1
      <4> QED BY <1>5, <4>1, <4>2
    <3>3. l.x = outgone + 1
      BY <1>12, <2>2, <3>1
    <3> QED BY <1>7, <3>1, <3>2, <3>3
  <2> QED BY <1>6, <2>1, <2>2
<1>14. ReceiverOK'
  BY <1>1 DEF ReceiverOK
<1>15. CASE outbox' = <<>> /\ UNCHANGED <<out, tx, wire>>
  <2>1. SenderOK'
    BY <1>1, <1>4, <1>8, <1>9, <1>10, <1>15 DEF SenderOK
  <2>2. StreamTypes'
    BY <1>1, <1>7, <1>15 DEF StreamTypes
  <2>3. WireOK'
    <3>1. WritesAt(out, outbox', outgone', tx, l)
      BY <1>12, <1>13 DEF WritesAt
    <3>2. v' = v
      BY <1>15 DEF v
    <3>3. /\ Path(sent', ls, v) /\ AtSpot(sent', ingone' + Len(inbox'), in', ls[1])
          /\ WritesAt(out', outbox', outgone', tx', ls[Len(v) + 1])
      BY <1>1, <1>11, <1>15, <3>1 DEF l
    <3>4. FlattenSeq(wire') = v
      BY <1>15 DEF v
    <3> QED BY <3>3, <3>4 DEF WireOK
  <2> QED BY <1>14, <2>1, <2>2, <2>3
<1>16. CASE /\ outbox' # <<>> /\ out' = Header(Len(Head(outbox'))) /\ tx'
            /\ wire' = Append(wire, out')
  <2> DEFINE m == Len(outbox'[1])
             x == outgone' + 1
             z == [x |-> x, m |-> m, i |-> 1 + HeaderLen - 1]
  <2>1. 1 \in 1 .. Len(outbox') /\ Head(outbox') = outbox'[1] /\ m \in Nat
        /\ x \in Nat /\ HeaderLen \in Nat \ {0}
    <3> DEFINE q == outbox'
    <3>1. q \in Seq(Seq(Byte)) /\ q # <<>>
      BY <1>7, <1>16
    <3> HIDE DEF q
    <3>2. 1 \in 1 .. Len(q) /\ Head(q) = q[1] /\ q[1] \in Seq(Byte)
      BY <3>1
    <3>3. Len(q[1]) \in Nat
      BY <3>2
    <3>4. outgone' + 1 \in Nat
      <4>1. \A k \in Nat : k + 1 \in Nat
        OBVIOUS
      <4> QED BY <1>7, <4>1, Zenon
    <3>5. 1 \in 1 .. Len(outbox') /\ Head(outbox') = outbox'[1] /\ m \in Nat
      BY <3>2, <3>3 DEF q
    <3> QED BY <3>4, <3>5, LensFacts
  <2>2. /\ out' = Header(m) /\ out' \in Seq(Byte) /\ Len(out') = HeaderLen
        /\ \A j \in 1 .. HeaderLen : out'[j] = [kind |-> "head", n |-> m, at |-> j]
    BY <1>16, <2>1, HeaderFacts
  <2>3. out' # <<>>
    BY <2>1, <2>2
  <2>0. outbox'[1] # Taken => /\ outbox'[1] = sent[outgone' + 1]
                              /\ outgone' + 1 \in 1 .. Len(sent)
    <3>1. outbox'[1] = sent[outgone' + 1] \/ outbox'[1] = Taken
      BY <1>9, <2>1
    <3>2. outgone' + 1 \in 1 .. Len(sent)
      <4>1. /\ Len(sent) = outgone' + Len(outbox') /\ outgone' \in Nat
            /\ Len(outbox') \in Nat /\ Len(outbox') >= 1
        <5>1. Len(outbox') \in Nat => Len(outbox') >= 1
          BY <2>1
        <5>2. Len(sent) = outgone' + Len(outbox')
          BY <1>8
        <5>3. outgone' \in Nat /\ Len(outbox') \in Nat
          BY <1>7
        <5> QED BY <5>1, <5>2, <5>3
      <4>2. \A a, b \in Nat : b >= 1 => a + 1 \in 1 .. a + b
        OBVIOUS
      <4>3. outgone' + 1 \in 1 .. outgone' + Len(outbox')
        BY <4>1, <4>2, Zenon
      <4> QED BY <4>1, <4>3, Zenon
    <3> QED BY <3>1, <3>2
  <2>4. m = 0 <=> outbox'[1] = Taken
    <3>1. outbox'[1] = Taken => m = 0
      BY DEF Taken
    <3>2. ASSUME outbox'[1] # Taken PROVE m # 0
      <4>1. outbox'[1] = sent[outgone' + 1] /\ outgone' + 1 \in 1 .. Len(sent)
        BY <2>0, <3>2
      <4>2. Len(sent[outgone' + 1]) # 0
        BY <1>4, <4>1, SentFacts
      <4> QED BY <4>1, <4>2
    <3> QED BY <3>1, <3>2
  <2>5. m # 0 => x \in 1 .. Len(sent) /\ m = Len(sent[x])
    BY <2>0, <2>4
  <2>6. FlattenSeq(wire') = v \o out'
    BY <1>16, <2>2, FlattenAppend DEF StreamTypes, v
  <2> HIDE DEF m, x, z
  <2>7. Follows(l, [x |-> x, m |-> m, i |-> 1])
    <3>1. x = IF m = 0 THEN l.x ELSE l.x + 1
      <4>1. CASE m = 0
        BY <1>13, <1>16, <2>4, <4>1 DEF x
      <4>2. CASE m # 0
        BY <1>7, <1>13, <2>4, <4>2 DEF x
      <4> QED BY <4>1, <4>2
    <3> QED BY <1>12, <3>1 DEF Follows
  <2>8. \A j \in 1 .. HeaderLen :
          out'[j] = ByteAt([x |-> x, m |-> m, i |-> 1 + j - 1])
    <3> SUFFICES ASSUME NEW j \in 1 .. HeaderLen
                 PROVE  out'[j] = ByteAt([x |-> x, m |-> m, i |-> 1 + j - 1])
      OBVIOUS
    <3>1. 1 + j - 1 = j /\ j <= HeaderLen
      BY <2>1
    <3> QED BY <2>2, <3>1 DEF ByteAt
  <2>9. 1 + HeaderLen - 1 <= HeaderLen + m
    BY <2>1
  <2>10. PICK lz : /\ Path(sent, lz, v \o out') /\ lz[1] = ls[1]
                   /\ lz[Len(v \o out') + 1] = z
    <3> DEFINE f == out'
               a == 1
    <3>1. /\ f \in Seq(Byte) /\ f # <<>> /\ Len(f) = HeaderLen
          /\ x \in Nat /\ m \in Nat /\ a \in Nat \ {0}
      BY <2>1, <2>2, <2>3 DEF x, m
    <3>2. \A j \in 1 .. Len(f) : f[j] = ByteAt([x |-> x, m |-> m, i |-> a + j - 1])
      BY <2>8, <3>1
    <3> HIDE DEF f
    <3>3. a + Len(f) - 1 <= HeaderLen + m
      BY <2>9, <3>1
    <3>6. [x |-> x, m |-> m, i |-> a + Len(f) - 1] = z
      BY <3>1 DEF z
    <3>8. Follows(l, [x |-> x, m |-> m, i |-> a])
      BY <2>7
    <3> HIDE DEF a
    <3>4. FrameAfter(sent, l, f, x, m, a)
      <4>1. x \in 0 .. Len(sent)
        <5>1. /\ Len(sent) = outgone' + Len(outbox') /\ outgone' \in Nat
              /\ Len(outbox') \in Nat
          BY <1>7, <1>8
        <5>2. Len(outbox') >= 1
          BY <2>1, <5>1
        <5>3. \A b, c \in Nat : c >= 1 => b + 1 \in 0 .. b + c
          OBVIOUS
        <5>4. outgone' + 1 \in 0 .. outgone' + Len(outbox')
          BY <5>1, <5>2, <5>3, Zenon
        <5> QED BY <5>1, <5>4, Zenon DEF x
      <4> QED BY <2>5, <3>1, <3>2, <3>3, <3>8, <4>1 DEF FrameAfter
    <3>5. FrameAfter(sent, ls[Len(v) + 1], f, x, m, a)
      BY <3>4 DEF l
    <3>7. \E lz : /\ Path(sent, lz, v \o f) /\ lz[1] = ls[1]
                  /\ lz[Len(v \o f) + 1] = [x |-> x, m |-> m, i |-> a + Len(f) - 1]
      BY <1>11, <3>5, PathAppend
    <3> QED BY <3>6, <3>7 DEF f
  <2>11. WritesAt(out', outbox', outgone', tx', z)
    <3>1. z.x = outgone' + 1 /\ z.m = Len(outbox'[1]) /\ z.i = HeaderLen
      BY <2>1 DEF z, x, m
    <3> QED BY <2>2, <2>3, <3>1 DEF WritesAt
  <2>12. WireOK'
    <3>1. /\ Path(sent', lz, FlattenSeq(wire'))
          /\ AtSpot(sent', ingone' + Len(inbox'), in', lz[1])
          /\ WritesAt(out', outbox', outgone', tx', lz[Len(FlattenSeq(wire')) + 1])
      BY <1>1, <1>11, <2>6, <2>10, <2>11
    <3> QED BY <3>1 DEF WireOK
  <2>13. SenderOK'
    BY <1>1, <1>4, <1>8, <1>9, <1>10, <1>16, <2>2, <2>3 DEF SenderOK, m
  <2>14. StreamTypes'
    <3>1. wire' \in Seq(Seq(Byte))
      BY <1>16, <2>2 DEF StreamTypes
    <3> QED BY <1>1, <1>7, <3>1 DEF StreamTypes
  <2> QED BY <1>14, <2>12, <2>13, <2>14
<1> QED BY <1>3, <1>15, <1>16

(* util_frames_receive.                                                    *)
LEMMA StreamReceive ==
  ASSUME StreamTypes, SenderOK, ReceiverOK, WireOK, Receive
  PROVE  StreamTypes' /\ SenderOK' /\ ReceiverOK' /\ WireOK'
<1>1. /\ UNCHANGED <<outbox, outgone, out, tx, sending, wire, sent, in, inbox,
                     ingone, got>>
      /\ reading' = ingone + 1 /\ inbox # <<>>
  BY DEF Receive, sender
<1>2. /\ inbox \in Seq(Seq(Byte)) /\ ingone \in Nat /\ got \in Seq(Seq(Byte))
      /\ Len(got) \in ingone .. ingone + Len(inbox)
  BY DEF StreamTypes, ReceiverOK
<1>3. Len(inbox) \in Nat /\ Len(inbox) # 0 /\ Len(got) \in Nat
  BY <1>1, <1>2
<1>4. reading' \in ingone + 1 .. ingone + Len(inbox) /\ reading' <= Len(got) + 1
      /\ reading' \in Nat
  BY <1>1, <1>2, <1>3
<1>5. StreamTypes'
  BY <1>1, <1>4 DEF StreamTypes
<1>6. SenderOK'
  BY <1>1 DEF SenderOK
<1>7. ReceiverOK'
  BY <1>1, <1>4 DEF ReceiverOK
<1>8. WireOK'
  BY <1>1 DEF WireOK
<1> QED BY <1>5, <1>6, <1>7, <1>8

LEMMA StreamReceiveWalk ==
  ASSUME HeaderLen \notin Lens,
         StreamTypes, SenderOK, ReceiverOK, WireOK, ReceiveWalk
  PROVE  StreamTypes' /\ SenderOK' /\ ReceiverOK' /\ WireOK'
<1> DEFINE i == reading - ingone
           R == ingone + Len(inbox)
           G == Len(got)
<1>1. /\ UNCHANGED <<outbox, outgone, out, tx, sending, wire, sent, in, ingone>>
      /\ reading > ingone
      /\ \/ /\ inbox[i] # Taken /\ got' = Append(got, inbox[i])
            /\ inbox' = [inbox EXCEPT ![i] = Taken] /\ reading' = 0
         \/ /\ inbox[i] = Taken
            /\ reading' = IF i = Len(inbox) THEN 0 ELSE reading + 1
            /\ inbox' = inbox /\ got' = got
  BY DEF ReceiveWalk, sender
<1>2. /\ inbox \in Seq(Seq(Byte)) /\ ingone \in Nat /\ reading \in Nat
      /\ got \in Seq(Seq(Byte)) /\ Len(inbox) \in Nat /\ G \in Nat /\ R \in Nat
      /\ G \in ingone .. R /\ Numbered(sent) /\ R <= Len(sent) /\ Len(sent) \in Nat
  BY SMTT(20) DEF StreamTypes, ReceiverOK, SenderOK, Numbered
<1>3. reading \in ingone + 1 .. R /\ reading <= G + 1
  <2>1. reading # 0
    BY <1>1, <1>2
  <2> QED BY <2>1 DEF ReceiverOK
<1>4. i \in 1 .. Len(inbox) /\ ingone + i = reading
  BY <1>2, <1>3
<1>5. inbox[i] = IF reading <= G THEN Taken ELSE sent[reading]
  BY <1>4 DEF ReceiverOK
<1>6. reading \in 1 .. Len(sent)
  BY <1>2, <1>3
<1>7. sent[reading] # Taken /\ sent[reading] \in Seq(Byte)
  BY <1>2, <1>6, SentFacts
<1>8. SenderOK'
  BY <1>1 DEF SenderOK
<1>9. ASSUME Len(inbox') = Len(inbox) PROVE WireOK'
  BY <1>1, <1>9 DEF WireOK
<1>10. CASE /\ inbox[i] # Taken /\ got' = Append(got, inbox[i])
            /\ inbox' = [inbox EXCEPT ![i] = Taken] /\ reading' = 0
  <2>1. ~(reading <= G) /\ inbox[i] = sent[reading] /\ reading = G + 1
    <3>1. ~(reading <= G)
      BY <1>5, <1>10
    <3> HIDE DEF i, R, G
    <3> QED BY <1>2, <1>3, <1>5, <3>1
  <2>2. /\ inbox' \in Seq(Seq(Byte)) /\ Len(inbox') = Len(inbox)
        /\ inbox'[i] = Taken
        /\ \A j \in 1 .. Len(inbox) : j # i => inbox'[j] = inbox[j]
    <3>1. Taken \in Seq(Byte)
      BY DEF Taken
    <3> HIDE DEF i, R, G
    <3> QED BY <1>2, <1>4, <1>10, <3>1
  <2>3. /\ got' \in Seq(Seq(Byte)) /\ Len(got') = G + 1 /\ got'[G + 1] = sent[G + 1]
        /\ \A j \in 1 .. G : got'[j] = got[j]
    <3>1. got' = Append(got, sent[reading])
      BY <1>10, <2>1
    <3> QED BY <1>2, <1>7, <2>1, <3>1
  <2> HIDE DEF i, R, G
  <2>4. ASSUME NEW j \in 1 .. Len(got') PROVE got'[j] = sent[j]
    <3>1. CASE j = G + 1
      BY <2>3, <3>1
    <3>2. CASE j # G + 1
      <4>1. j \in 1 .. G
        BY <1>2, <2>3, <3>2
      <4> QED BY <2>3, <4>1 DEF ReceiverOK, G
    <3> QED BY <3>1, <3>2
  <2>5. ASSUME NEW j \in 1 .. Len(inbox')
        PROVE  inbox'[j] = IF ingone + j <= Len(got') THEN Taken ELSE sent[ingone + j]
    <3>1. CASE j = i
      <4>1. ingone + j <= Len(got')
        BY <1>2, <1>4, <2>1, <2>3, <3>1
      <4> QED BY <2>2, <3>1, <4>1
    <3>2. CASE j # i
      <4>1. j \in 1 .. Len(inbox) /\ inbox'[j] = inbox[j]
        BY <2>2, <3>2
      <4>2. inbox[j] = IF ingone + j <= G THEN Taken ELSE sent[ingone + j]
        BY <4>1 DEF ReceiverOK, G
      <4>3. (ingone + j <= Len(got')) <=> (ingone + j <= G)
        <5>1. ingone + j # G + 1
          BY <1>2, <1>4, <2>1, <3>2
        <5> QED BY <1>2, <2>3, <5>1
      <4> QED BY <4>1, <4>2, <4>3
    <3> QED BY <3>1, <3>2
  <2>6. Len(got') \in ingone .. R
    BY <1>2, <1>3, <2>1, <2>3
  <2>7. ReceiverOK'
    BY <1>1, <1>2, <1>10, <2>2, <2>4, <2>5, <2>6 DEF ReceiverOK, R
  <2>8. StreamTypes'
    BY <1>1, <1>10, <2>2, <2>3 DEF StreamTypes
  <2> QED BY <1>8, <1>9, <2>2, <2>7, <2>8
<1>11. CASE /\ inbox[i] = Taken
            /\ reading' = IF i = Len(inbox) THEN 0 ELSE reading + 1
            /\ inbox' = inbox /\ got' = got
  <2>1. reading <= G
    BY <1>5, <1>7, <1>11
  <2>2. reading' # 0 => reading' \in ingone + 1 .. R /\ reading' <= G + 1
    <3>1. CASE i = Len(inbox)
      BY <1>11, <3>1
    <3>2. CASE i # Len(inbox)
      <4>1. reading' = reading + 1
        BY <1>11, <3>2
      <4>2. /\ ingone \in Nat /\ Len(inbox) \in Nat /\ reading \in Nat /\ G \in Nat
            /\ i \in 1 .. Len(inbox) /\ ingone + i = reading /\ reading <= G
            /\ R = ingone + Len(inbox)
        BY <1>2, <1>4, <2>1
      <4> HIDE DEF i, G, R
      <4>3. reading + 1 \in ingone + 1 .. R /\ reading + 1 <= G + 1
        BY <3>2, <4>2
      <4> QED BY <4>1, <4>3
    <3> QED BY <3>1, <3>2
  <2>3. reading' \in Nat
    BY <1>2, <1>11
  <2>4. ReceiverOK'
    BY <1>1, <1>11, <2>2 DEF ReceiverOK
  <2>5. StreamTypes'
    BY <1>1, <1>11, <2>3 DEF StreamTypes
  <2> QED BY <1>8, <1>9, <1>11, <2>4, <2>5
<1> QED BY <1>1, <1>10, <1>11

(* The state in which a read leaves "in": as many packets more, and at the *)
(* spot behind the bytes read, for no read ends inside a header.           *)
LEMMA ReadEnds ==
  ASSUME HeaderLen \notin Lens,
         NEW ss, Numbered(ss), NEW r \in Nat, NEW l, Fits(ss, l),
         NEW data, NEW n \in Nat, NEW s, Parsing(ss, r, l, s, data, n),
         s.len # HeaderLen \/ s.buf = <<>>
  PROVE  /\ s.len \in Nat /\ s.buf \in Seq(Byte)
         /\ s.q \in Seq(Seq(Byte)) /\ Len(s.q) \in Nat /\ r + Len(s.q) <= Len(ss)
         /\ \A j \in 1 .. Len(s.q) : s.q[j] = ss[r + j] /\ s.q[j] # Taken
         /\ AtSpot(ss, r + Len(s.q), [len |-> s.len, buf |-> s.buf], l)
<1> DEFINE c == [len |-> s.len, buf |-> s.buf]
<1>1. /\ s \in InStates /\ s.len \in Nat /\ s.buf \in Seq(Byte)
      /\ s.q \in Seq(Seq(Byte)) /\ Len(s.q) \in Nat /\ Len(s.buf) \in Nat
      /\ c.len = s.len /\ c.buf = s.buf
      /\ \A j \in 1 .. Len(s.q) : s.q[j] = ss[r + j]
  BY InStateParts DEF Parsing
<1>2. /\ l.x \in Nat /\ l.m \in Nat /\ l.i \in Nat /\ l.i \in 1 .. HeaderLen + l.m
      /\ l.x \in 0 .. Len(ss) /\ HeaderLen \in Nat /\ Len(ss) \in Nat
  BY LensFacts DEF Fits, Spots, Numbered
<1>3. ~InHeader(r, l, s, data, n)
  <2> SUFFICES ASSUME InHeader(r, l, s, data, n) PROVE FALSE
    OBVIOUS
  <2>1. s.len = HeaderLen /\ l.i = Len(s.buf)
    BY DEF InHeader
  <2>2. s.buf = <<>>
    BY <1>1, <2>1
  <2> QED BY <1>2, <2>1, <2>2
<1> DEFINE z == [len |-> c.len, buf |-> c.buf, q |-> <<>>, from |-> 1, dead |-> FALSE]
           k == r + Len(s.q)
<1>4. z.len = s.len /\ z.buf = s.buf /\ Len(z.q) = 0 /\ z.from = 0 + 1 /\ k \in Nat
      /\ k + 0 = k /\ k + 0 + 1 = k + 1
  BY <1>1
<1> HIDE DEF z
<1>5. ASSUME Between(r, l, s, n) PROVE AtSpot(ss, k, c, l) /\ k <= Len(ss)
  <2>1. s.len = HeaderLen /\ s.buf = <<>> /\ Ended(l) /\ l.x = k
    BY <1>5 DEF Between
  <2>2. Between(k, l, z, 0)
    BY <1>4, <2>1 DEF Between
  <2>3. k <= Len(ss)
    <3> HIDE DEF k
    <3> QED BY <1>2, <2>1
  <2> QED BY <2>2, <2>3 DEF AtSpot, z
<1>6. ASSUME InPacket(ss, r, l, s) PROVE AtSpot(ss, k, c, l) /\ k <= Len(ss)
  <2>1. /\ s.len # HeaderLen /\ s.len = l.m
        /\ l.i = HeaderLen + Len(s.buf) /\ ~Ended(l)
        /\ l.x = k + 1
        /\ \A j \in 1 .. Len(s.buf) : s.buf[j] = ss[l.x][j]
    BY <1>6 DEF InPacket
  <2>2. InPacket(ss, k, l, z)
    <3> HIDE DEF k
    <3> QED BY <1>4, <2>1 DEF InPacket
  <2>3. k <= Len(ss)
    <3> HIDE DEF k
    <3> QED BY <1>2, <1>4, <2>1
  <2> QED BY <2>2, <2>3 DEF AtSpot, z
<1>7. AtSpot(ss, k, c, l) /\ k <= Len(ss)
  BY <1>3, <1>5, <1>6 DEF Parsing
<1> HIDE DEF k
<1>8. ASSUME NEW j \in 1 .. Len(s.q) PROVE s.q[j] # Taken
  <2>1. r + j \in 1 .. Len(ss)
    BY <1>1, <1>2, <1>7 DEF k
  <2>2. ss[r + j] # Taken
    BY <2>1, SentFacts
  <2> QED BY <1>1, <2>2
<1> QED BY <1>1, <1>7, <1>8 DEF k

(* util_frames_inbox.                                                      *)
LEMMA StreamInbox ==
  ASSUME HeaderLen \notin Lens,
         ~CutHeaders, StreamTypes, SenderOK, ReceiverOK, WireOK, InboxStream
  PROVE  StreamTypes' /\ SenderOK' /\ ReceiverOK' /\ WireOK'
<1> DEFINE v == FlattenSeq(wire)
           R == ingone + Len(inbox)
           G == Len(got)
<1>1. PICK n \in 1 .. Len(v) :
        /\ Inbox(SubSeq(v, 1, n))
        /\ wire' = IF n = Len(v) THEN <<>> ELSE <<SubSeq(v, n + 1, Len(v))>>
  BY DEF InboxStream
<1>2. /\ UNCHANGED <<outbox, outgone, out, tx, sending, sent>>
      /\ in'.len # HeaderLen \/ in'.buf = <<>>
  BY DEF InboxStream, sender
<1> DEFINE data == SubSeq(v, 1, n)
<1>3. PICK s \in Outcomes(data) : \E q \in {inbox \o s.q} : \E f \in 0 .. Len(q) :
        /\ IF s.q = <<>> THEN f = 0 ELSE Freed(Front(q), reading # 0, f)
        /\ in' = [len |-> s.len, buf |-> s.buf]
        /\ inbox' = SubSeq(q, f + 1, Len(q))
        /\ ingone' = ingone + f
        /\ UNCHANGED <<reading, got>>
  BY <1>1 DEF Inbox
<1> DEFINE q == inbox \o s.q
<1>4. PICK f \in 0 .. Len(q) :
        /\ IF s.q = <<>> THEN f = 0 ELSE Freed(Front(q), reading # 0, f)
        /\ in' = [len |-> s.len, buf |-> s.buf]
        /\ inbox' = SubSeq(q, f + 1, Len(q))
        /\ ingone' = ingone + f
        /\ UNCHANGED <<reading, got>>
  BY <1>3
<1>5. PICK ls : /\ Path(sent, ls, v) /\ AtSpot(sent, R, in, ls[1])
                /\ WritesAt(out, outbox, outgone, tx, ls[Len(v) + 1])
  BY DEF WireOK
<1>6. /\ inbox \in Seq(Seq(Byte)) /\ ingone \in Nat /\ reading \in Nat
      /\ got \in Seq(Seq(Byte)) /\ Len(inbox) \in Nat /\ G \in Nat /\ R \in Nat
      /\ G \in ingone .. R /\ Numbered(sent) /\ R <= Len(sent) /\ Len(sent) \in Nat
  <2>1. /\ inbox \in Seq(Seq(Byte)) /\ ingone \in Nat /\ reading \in Nat
        /\ got \in Seq(Seq(Byte))
    BY DEF StreamTypes
  <2>2. Numbered(sent) /\ sent \in Seq(Seq(Byte))
    BY DEF SenderOK, Numbered
  <2>3. G \in ingone .. R /\ R <= Len(sent)
    BY DEF ReceiverOK
  <2>4. Len(inbox) \in Nat /\ G \in Nat /\ Len(sent) \in Nat /\ R \in Nat
    BY <2>1, <2>2
  <2> QED BY <2>1, <2>2, <2>3, <2>4
<1>r. R = ingone + Len(inbox)
  OBVIOUS
<1>i. in.len \in Nat /\ in.buf \in Seq(Byte)
  BY DEF StreamTypes
<1>7. v \in Seq(Byte) /\ Len(v) \in Nat /\ n \in Nat /\ n + 1 \in 1 .. Len(v) + 1
      /\ Fits(sent, ls[n + 1])
  <2>1. v \in Seq(Byte) /\ \A j \in 1 .. Len(v) + 1 : Fits(sent, ls[j])
    BY <1>5 DEF Path
  <2> HIDE DEF v
  <2>2. n + 1 \in 1 .. Len(v) + 1
    BY <2>1
  <2> QED BY <2>1, <2>2
<1> HIDE DEF v, R, q
<1>8. Parsing(sent, R, ls[n + 1], s, data, n)
  BY <1>3, <1>5, <1>6, <1>i, ReadStream
<1> DEFINE l == ls[n + 1]
           c == in'
<1>9. c = [len |-> s.len, buf |-> s.buf] /\ (c.len # HeaderLen \/ c.buf = <<>>)
  BY <1>2, <1>4
<1> HIDE DEF c, l, data
<1>10. /\ c.len \in Nat /\ c.buf \in Seq(Byte)
       /\ s.q \in Seq(Seq(Byte)) /\ Len(s.q) \in Nat /\ R + Len(s.q) <= Len(sent)
       /\ \A j \in 1 .. Len(s.q) : s.q[j] = sent[R + j] /\ s.q[j] # Taken
       /\ AtSpot(sent, R + Len(s.q), c, l)
  <2>1. Parsing(sent, R, l, s, data, n) /\ Fits(sent, l)
    BY <1>7, <1>8 DEF l
  <2>2. c.len = s.len /\ c.buf = s.buf
    BY <1>9
  <2>3. s.len # HeaderLen \/ s.buf = <<>>
    BY <1>9, <2>2
  <2>4. /\ s.len \in Nat /\ s.buf \in Seq(Byte)
        /\ s.q \in Seq(Seq(Byte)) /\ Len(s.q) \in Nat /\ R + Len(s.q) <= Len(sent)
        /\ \A j \in 1 .. Len(s.q) : s.q[j] = sent[R + j] /\ s.q[j] # Taken
        /\ AtSpot(sent, R + Len(s.q), [len |-> s.len, buf |-> s.buf], l)
    BY <1>6, <1>7, <2>1, <2>3, ReadEnds
  <2> QED BY <1>9, <2>2, <2>4
<1>11. /\ q \in Seq(Seq(Byte)) /\ Len(q) = Len(inbox) + Len(s.q) /\ Len(q) \in Nat
       /\ \A j \in 1 .. Len(inbox) : q[j] = inbox[j]
       /\ \A j \in 1 .. Len(s.q) : q[Len(inbox) + j] = s.q[j]
  <2> DEFINE u == s.q
  <2>1. u \in Seq(Seq(Byte)) /\ q = inbox \o u
    BY <1>10 DEF q
  <2> HIDE DEF u
  <2>2. /\ q \in Seq(Seq(Byte)) /\ Len(q) = Len(inbox) + Len(u) /\ Len(q) \in Nat
        /\ \A j \in 1 .. Len(inbox) : q[j] = inbox[j]
        /\ \A j \in 1 .. Len(u) : q[Len(inbox) + j] = u[j]
    BY <1>6, <2>1
  <2> QED BY <2>2 DEF u
<1>12. ASSUME NEW j \in 1 .. Len(q)
       PROVE  q[j] = IF ingone + j <= G THEN Taken ELSE sent[ingone + j]
  <2>1. CASE j <= Len(inbox)
    <3>1. j \in 1 .. Len(inbox)
      BY <2>1
    <3> QED BY <1>11, <3>1 DEF ReceiverOK
  <2>2. CASE ~(j <= Len(inbox))
    <3> DEFINE y == j - Len(inbox)
    <3>1. y \in 1 .. Len(s.q) /\ Len(inbox) + y = j /\ R + y = ingone + j
          /\ ~(ingone + j <= G)
      <4>1. /\ j \in Nat /\ Len(inbox) \in Nat /\ Len(s.q) \in Nat /\ ingone \in Nat
            /\ j <= Len(inbox) + Len(s.q) /\ G \in Nat /\ G <= R
            /\ R = ingone + Len(inbox)
        BY <1>6, <1>10, <1>11 DEF R
      <4> HIDE DEF G
      <4> QED BY <2>2, <4>1
    <3> HIDE DEF y
    <3> QED BY <1>10, <1>11, <3>1
  <2> QED BY <2>1, <2>2
<1>13. ingone + f <= G /\ (reading # 0 => f = 0)
  <2>1. CASE f = 0
    BY <1>6, <2>1
  <2>2. CASE f # 0
    <3>1. s.q # <<>> /\ Freed(Front(q), reading # 0, f)
      BY <1>4, <2>2
    <3>2. Leading(Front(q), f) /\ reading = 0
      BY <2>2, <3>1 DEF Freed
    <3>3. Len(q) >= 1
      <4>1. Len(s.q) # 0
        BY <1>10, <3>1
      <4> QED BY <1>6, <1>10, <1>11, <4>1
    <3>4. /\ Len(Front(q)) = Len(q) - 1
          /\ \A j \in 1 .. Len(q) - 1 : Front(q)[j] = q[j]
      BY <1>11, <3>3 DEF Front
    <3>5. f <= Len(Front(q)) /\ \A j \in 1 .. f : Front(q)[j] = Taken
      BY <3>2 DEF Leading
    <3>6. f \in 1 .. f /\ f \in 1 .. Len(q) - 1 /\ f \in 1 .. Len(q)
      BY <1>11, <2>2, <3>4, <3>5
    <3>7. q[f] = Taken
      BY <3>4, <3>5, <3>6
    <3>8. q[f] = IF ingone + f <= G THEN Taken ELSE sent[ingone + f]
      BY <1>12, <3>6
    <3>9. sent[ingone + f] # Taken
      <4>1. ingone + f \in 1 .. Len(sent)
        <5>1. /\ ingone \in Nat /\ Len(inbox) \in Nat /\ Len(s.q) \in Nat
              /\ f \in 1 .. Len(inbox) + Len(s.q) /\ Len(sent) \in Nat
              /\ ingone + Len(inbox) + Len(s.q) <= Len(sent)
          <6>1. ingone \in Nat /\ Len(inbox) \in Nat /\ Len(sent) \in Nat
            BY <1>6
          <6>2. Len(s.q) \in Nat /\ R + Len(s.q) <= Len(sent)
            BY <1>10
          <6>3. f \in 1 .. Len(inbox) + Len(s.q)
            BY <1>11, <3>6
          <6> QED BY <1>r, <6>1, <6>2, <6>3
        <5>2. \A a, b, d, e \in Nat : \A y \in 1 .. b + d :
                a + b + d <= e => a + y \in 1 .. e
          OBVIOUS
        <5> QED BY <5>1, <5>2, Zenon
      <4> QED BY <1>6, <4>1, SentFacts
    <3> QED BY <3>2, <3>7, <3>8, <3>9
  <2> QED BY <2>1, <2>2
<1>14. /\ inbox' \in Seq(Seq(Byte)) /\ Len(inbox') = Len(q) - f
       /\ Len(inbox') \in Nat
       /\ \A j \in 1 .. Len(inbox') : inbox'[j] = q[j + f]
  <2> DEFINE z == SubSeq(q, f + 1, Len(q))
  <2>1. /\ z \in Seq(Seq(Byte)) /\ Len(z) = Len(q) - f /\ Len(z) \in Nat
        /\ \A i \in 1 .. Len(z) : z[i] = q[i + f]
    BY <1>11, RestOf
  <2>2. inbox' = z
    BY <1>4
  <2> HIDE DEF z
  <2> QED BY <2>1, <2>2
<1>15. ingone' = ingone + f /\ ingone' \in Nat /\ f \in Nat
       /\ ingone' + Len(inbox') = R + Len(s.q)
  <2>1. ingone' = ingone + f /\ f \in Nat
    BY <1>4, <1>11
  <2>2. /\ Len(inbox') = Len(inbox) + Len(s.q) - f /\ Len(inbox) \in Nat
        /\ Len(s.q) \in Nat /\ ingone \in Nat /\ R = ingone + Len(inbox)
    <3>1. Len(inbox') = Len(inbox) + Len(s.q) - f
      BY <1>11, <1>14
    <3>2. Len(inbox) \in Nat /\ ingone \in Nat
      BY <1>6
    <3>3. Len(s.q) \in Nat
      BY <1>10
    <3> QED BY <1>r, <3>1, <3>2, <3>3
  <2> DEFINE b == Len(inbox)
             d == Len(s.q)
             e == Len(inbox')
  <2>3. e = b + d - f /\ b \in Nat /\ d \in Nat /\ ingone \in Nat /\ R = ingone + b
    BY <2>2
  <2> HIDE DEF b, d, e
  <2>4. ingone + f \in Nat /\ (ingone + f) + e = R + d
    BY <2>1, <2>3
  <2> QED BY <2>1, <2>4 DEF d, e
<1>16. ReceiverOK'
  <2>1. ASSUME NEW j \in 1 .. Len(inbox')
        PROVE  inbox'[j] = IF ingone' + j <= G THEN Taken ELSE sent[ingone' + j]
    <3>1. j + f \in 1 .. Len(q) /\ ingone + (j + f) = ingone' + j
      BY <1>6, <1>11, <1>14, <1>15
    <3>2. inbox'[j] = q[j + f]
      BY <1>14
    <3>3. q[j + f] = IF ingone + (j + f) <= G THEN Taken ELSE sent[ingone + (j + f)]
      BY <1>12, <3>1
    <3> QED BY <3>1, <3>2, <3>3
  <2>2. G \in ingone' .. ingone' + Len(inbox')
    BY <1>6, <1>10, <1>13, <1>15
  <2>3. ingone' + Len(inbox') <= Len(sent)
    BY <1>10, <1>15
  <2>4. reading # 0 => /\ reading \in ingone' + 1 .. ingone' + Len(inbox')
                       /\ reading <= G + 1
    <3> SUFFICES ASSUME reading # 0
                 PROVE  /\ reading \in ingone' + 1 .. ingone' + Len(inbox')
                        /\ reading <= G + 1
      OBVIOUS
    <3>1. ingone' = ingone /\ reading \in ingone + 1 .. R /\ reading <= G + 1
      BY <1>6, <1>13, <1>15 DEF ReceiverOK, R
    <3> QED BY <1>6, <1>10, <1>15, <3>1
  <2>5. \A j \in 1 .. G : got[j] = sent[j]
    BY DEF ReceiverOK
  <2> QED BY <1>2, <1>4, <2>1, <2>2, <2>3, <2>4, <2>5 DEF ReceiverOK
<1> DEFINE rest == [j \in 1 .. Len(v) - n + 1 |-> ls[j + n]]
           w == SubSeq(v, n + 1, Len(v))
<1>17. /\ Path(sent, rest, w) /\ rest[1] = l /\ Len(w) = Len(v) - n
       /\ rest[Len(v) - n + 1] = ls[Len(v) + 1]
  BY <1>5, PathDrop DEF l
<1>18. w \in Seq(Byte)
  BY <1>17 DEF Path
<1>w. wire' = IF n = Len(v) THEN <<>> ELSE <<w>>
  BY <1>1
<1> HIDE DEF rest, w
<1>19. FlattenSeq(wire') = w /\ wire' \in Seq(Seq(Byte))
  <2>1. CASE n = Len(v)
    <3>1. w = <<>>
      BY <1>7, <1>17, <1>18, <2>1
    <3>2. FlattenSeq(<<>>) = <<>>
      BY DEF FlattenSeq
    <3>3. wire' = <<>>
      BY <1>w, <2>1
    <3>4. FlattenSeq(wire') = <<>>
      BY <3>2, <3>3, Zenon
    <3> QED BY <3>1, <3>3, <3>4
  <2>2. CASE n # Len(v)
    <3>1. wire' = <<w>>
      BY <1>w, <2>2
    <3>2. FlattenSeq(<<w>>) = w
      BY FlattenOne
    <3>3. FlattenSeq(wire') = w
      BY <3>1, <3>2, Zenon
    <3> QED BY <1>18, <3>1, <3>3
  <2> QED BY <2>1, <2>2
<1>20. WireOK'
  <2>1. AtSpot(sent', ingone' + Len(inbox'), in', rest[1])
    BY <1>2, <1>10, <1>15, <1>17 DEF c
  <2>2. WritesAt(out', outbox', outgone', tx', rest[Len(w) + 1])
    BY <1>2, <1>5, <1>17
  <2>3. /\ Path(sent', rest, FlattenSeq(wire'))
        /\ WritesAt(out', outbox', outgone', tx', rest[Len(FlattenSeq(wire')) + 1])
    BY <1>2, <1>17, <1>19, <2>2
  <2> QED BY <2>1, <2>3 DEF WireOK
<1>21. StreamTypes'
  BY <1>2, <1>4, <1>10, <1>14, <1>15, <1>19 DEF StreamTypes, c
<1>22. SenderOK'
  BY <1>2 DEF SenderOK
<1> QED BY <1>16, <1>20, <1>21, <1>22

LEMMA StreamStep ==
  ASSUME HeaderLen \notin Lens, ~CutHeaders
  PROVE  StreamInv /\ [FrameNext]_frameVars => StreamInv'
<1> SUFFICES ASSUME StreamInv, [FrameNext]_frameVars, mode' = "stream"
             PROVE  StreamTypes' /\ SenderOK' /\ ReceiverOK' /\ WireOK'
  BY DEF StreamInv
<1>1. mode = "stream"
  BY DEF FrameNext, frameVars, Send, SendLink, Outbox, Sent, InboxStream,
         InboxDatagram, Lose, Clear, Receive, ReceiveWalk
<1>2. StreamTypes /\ SenderOK /\ ReceiverOK /\ WireOK
  BY <1>1 DEF StreamInv
<1>3. CASE Send
  BY <1>2, <1>3, StreamSend
<1>4. CASE SendLink
  BY <1>2, <1>4, StreamSendLink
<1>5. CASE Outbox
  BY <1>2, <1>5, StreamOutboxPacket, StreamOutboxHeader
<1>6. CASE Sent
  BY <1>2, <1>6, StreamSent
<1>7. CASE InboxStream
  BY <1>2, <1>7, StreamInbox
<1>8. CASE InboxDatagram \/ Lose \/ Clear
  BY <1>1, <1>8 DEF InboxDatagram, Lose, Clear
<1>9. CASE Receive
  BY <1>2, <1>9, StreamReceive
<1>10. CASE ReceiveWalk
  BY <1>2, <1>10, StreamReceiveWalk
<1>11. CASE UNCHANGED frameVars
  <2>1. UNCHANGED <<outbox, outgone, out, tx, sending, wire, sent, in, inbox,
                    ingone, reading, got>>
    BY <1>11 DEF frameVars
  <2>2. StreamTypes'
    BY <1>2, <2>1 DEF StreamTypes
  <2>3. SenderOK'
    BY <1>2, <2>1 DEF SenderOK
  <2>4. ReceiverOK'
    BY <1>2, <2>1 DEF ReceiverOK
  <2>5. WireOK'
    BY <1>2, <2>1 DEF WireOK
  <2> QED BY <2>2, <2>3, <2>4, <2>5
<1> QED
  BY <1>3, <1>4, <1>5, <1>6, <1>7, <1>8, <1>9, <1>10, <1>11 DEF FrameNext

LEMMA StreamInvInOrder == StreamInv => InOrder
<1> SUFFICES ASSUME StreamTypes, SenderOK, ReceiverOK PROVE IsPrefix(got, sent)
  BY DEF StreamInv, InOrder
<1> DEFINE a == SubSeq(got, 1, Len(got))
           b == SubSeq(sent, 1, Len(got))
           S == Seq(Byte)
           n == Len(got)
<1>1. /\ got \in Seq(S) /\ sent \in Seq(S) /\ Len(got) <= Len(sent)
      /\ Len(got) \in Nat /\ \A i \in 1 .. Len(got) : got[i] = sent[i]
  <2>1. got \in Seq(S) /\ inbox \in Seq(Seq(Byte)) /\ ingone \in Nat
    BY DEF StreamTypes
  <2>2. sent \in Seq(S)
    BY DEF SenderOK, Numbered
  <2>3. Len(got) <= ingone + Len(inbox) /\ ingone + Len(inbox) <= Len(sent)
    BY <2>1 DEF ReceiverOK
  <2>4. Len(got) \in Nat /\ Len(inbox) \in Nat /\ Len(sent) \in Nat
    BY <2>1, <2>2
  <2> HIDE DEF S
  <2>5. Len(got) <= Len(sent)
    BY <2>1, <2>3, <2>4
  <2> QED BY <2>1, <2>2, <2>4, <2>5 DEF ReceiverOK
<1> HIDE DEF S
<1>2. \A i \in 1 .. n : got[i] \in S /\ sent[i] \in S
  BY <1>1
<1>3. a = SubSeq(got, 1, n) /\ b = SubSeq(sent, 1, n) /\ n \in Nat /\ n - 1 + 1 = n
      /\ 1 \in Int /\ n \in Int /\ \A i \in 1 .. n : 1 + i - 1 = i
  BY <1>1
<1> HIDE DEF a, b, n
<1>4. /\ a \in Seq(S) /\ Len(a) = IF 1 <= n THEN n - 1 + 1 ELSE 0
      /\ \A i \in 1 .. n - 1 + 1 : a[i] = got[1 + i - 1]
  BY <1>2, <1>3, SubSeqProperties
<1>5. /\ b \in Seq(S) /\ Len(b) = IF 1 <= n THEN n - 1 + 1 ELSE 0
      /\ \A i \in 1 .. n - 1 + 1 : b[i] = sent[1 + i - 1]
  BY <1>2, <1>3, SubSeqProperties
<1>6. Len(a) = n /\ Len(b) = n
  BY <1>3, <1>4, <1>5
<1>7. \A i \in 1 .. Len(a) : a[i] = b[i]
  BY <1>1, <1>3, <1>4, <1>5, <1>6 DEF n
<1>8. a = b
  BY <1>4, <1>5, <1>6, <1>7, SameBytes
<1> QED BY <1>1, <1>8 DEF IsPrefix, a, b

(* From a stream that loses nothing, the receiver gets the packets sent,   *)
(* whole and in order, however the reads cut it (util_frames_inbox), if no *)
(* read ends inside a header and no packet is exactly as long as a header  *)
(* (util_frames_send accepts one, util_frames_sent mistakes it for a       *)
(* header).                                                                *)
THEOREM FramesInOrder ==
  ASSUME HeaderLen \notin Lens, ~CutHeaders
  PROVE  FrameSpec => []InOrder
<1>1. StreamInv /\ [FrameNext]_frameVars => StreamInv'
  BY StreamStep
<1> QED
  BY <1>1, StreamStart, StreamInvInOrder, PTL DEF FrameSpec
-----------------------------------------------------------------------------
(* Types, for datagrams too.                                               *)

(* A frame is sent from the head of the queue, and the walk of             *)
(* util_frames_receive is at a node of its queue.                          *)
QueueInv ==
  /\ out # <<>> => outbox # <<>>
  /\ tx => out # <<>>
  /\ reading # 0 => reading \in ingone + 1 .. ingone + Len(inbox)

TypedStates == {s \in InStates : s.len \in 1 .. MaxLen /\ Len(s.buf) < s.len}

LEMMA ReadHeaderType ==
  ASSUME NEW data \in Seq(Byte), NEW from \in Nat \ {0}
  PROVE  ReadHeader(data, from) = Refused \/ ReadHeader(data, from) \in 0 .. MaxLen
<1> DEFINE b == from + HeaderLen - 1
           seen == SubSeq(data, from, b)
<1>1. ReadHeader(data, from) =
        IF b <= Len(data) /\ seen = Header(seen[1].n) /\ seen[1].n <= MaxLen
        THEN seen[1].n ELSE Refused
  BY DEF ReadHeader
<1>2. HeaderLen \in Nat \ {0} /\ MaxLen \in Nat /\ Len(data) \in Nat
      /\ \A j \in 1 .. Len(data) : data[j] \in Byte
  BY LensFacts
<1>3. b \in Int /\ from \in Int /\ from <= b /\ 1 \in 1 .. b - from + 1
  BY <1>2
<1>4. seen = SubSeq(data, from, b)
  OBVIOUS
<1> HIDE DEF b, seen
<1>5. ASSUME b <= Len(data) PROVE seen[1].n \in Nat
  <2>1. \A j \in from .. b : data[j] \in Byte
    BY <1>2, <1>3, <1>5
  <2>2. /\ seen \in Seq(Byte) /\ Len(seen) = IF from <= b THEN b - from + 1 ELSE 0
    BY <1>3, <1>4, <2>1, SubSeqProperties
  <2>3. 1 \in 1 .. Len(seen)
    BY <1>3, <2>2
  <2>4. seen[1] \in Byte
    BY <2>2, <2>3
  <2> QED BY <2>4 DEF Byte
<1> QED BY <1>1, <1>2, <1>5

LEMMA AfterType ==
  ASSUME Lens # {}, NEW data \in Seq(Byte), NEW i \in 1 .. Len(data),
         NEW s \in TypedStates
  PROVE  After(s, data, i) \subseteq TypedStates
<1> DEFINE bytes == Append(s.buf, data[i])
<1>1. /\ s \in InStates /\ s.len \in 1 .. MaxLen /\ Len(s.buf) < s.len
      /\ s.buf \in Seq(Byte) /\ s.q \in Seq(Seq(Byte)) /\ s.from \in Nat \ {0}
      /\ s.len \in Nat /\ data[i] \in Byte /\ i + 1 \in Nat \ {0}
  BY InStateParts DEF TypedStates
<1>2. /\ bytes \in Seq(Byte) /\ Len(bytes) = Len(s.buf) + 1 /\ Len(bytes) \in Nat
  BY <1>1, OneMoreByte
<1>3. HeaderLen \in 1 .. MaxLen /\ HeaderLen \in Nat /\ MaxLen \in Nat
  BY LensFacts
<1>4. <<>> \in Seq(Byte) /\ Len(<<>>) = 0
  OBVIOUS
<1> HIDE DEF bytes
<1> SUFFICES ASSUME NEW t \in After(s, data, i) PROVE t \in TypedStates
  OBVIOUS
<1>5. CASE s.dead
  BY <1>5 DEF After
<1>6. CASE ~s.dead /\ Len(bytes) < s.len
  <2>1. t = [s EXCEPT !.buf = bytes]
    BY <1>6 DEF After, bytes
  <2>2. t \in InStates /\ t.len = s.len /\ t.buf = bytes
    BY <1>1, <1>2, <2>1 DEF InStates
  <2> QED BY <1>1, <1>6, <2>2 DEF TypedStates
<1>7. CASE ~s.dead /\ ~(Len(bytes) < s.len) /\ s.len = HeaderLen
  <2> DEFINE n == ReadHeader(data, s.from)
             len == IF n \in {0, Refused} THEN HeaderLen ELSE n
             dead == n = Refused
             from == i + 1
  <2>1. t = [s EXCEPT !.from = from, !.buf = <<>>, !.len = len, !.dead = dead]
    BY <1>7 DEF After, HeaderDone, bytes
  <2>2. n = Refused \/ n \in 0 .. MaxLen
    BY <1>1, ReadHeaderType
  <2> HIDE DEF n
  <2>3. len \in 1 .. MaxLen
    <3>1. CASE n \in {0, Refused}
      BY <1>3, <3>1
    <3>2. CASE n \notin {0, Refused}
      BY <1>3, <2>2, <3>2
    <3> QED BY <3>1, <3>2
  <2>4. dead \in BOOLEAN /\ from \in Nat \ {0} /\ len \in Nat
    BY <1>1, <1>3, <2>3
  <2> HIDE DEF len, dead, from
  <2>5. t \in InStates /\ t.len = len /\ t.buf = <<>>
    BY <1>1, <1>4, <2>1, <2>3, <2>4 DEF InStates
  <2> QED BY <1>4, <2>3, <2>5 DEF TypedStates
<1>8. CASE ~s.dead /\ ~(Len(bytes) < s.len) /\ s.len # HeaderLen
  <2> DEFINE from == i + 1
  <2>1. PICK p \in Parsed(bytes) : t = PacketDone(s, i, p)
    BY <1>8 DEF After, bytes
  <2>2. p \in Seq(Byte)
    BY <1>2, <1>4, <2>1 DEF Parsed, Taken
  <2> DEFINE q == Append(s.q, p)
  <2>3. q \in Seq(Seq(Byte)) /\ from \in Nat \ {0}
    BY <1>1, <2>2
  <2>4. t = [s EXCEPT !.from = from, !.buf = <<>>, !.q = q, !.len = HeaderLen]
    BY <2>1 DEF PacketDone
  <2> HIDE DEF q, from
  <2>5. t \in InStates /\ t.len = HeaderLen /\ t.buf = <<>>
    BY <1>1, <1>3, <1>4, <2>3, <2>4 DEF InStates
  <2> QED BY <1>3, <1>4, <2>5 DEF TypedStates
<1> QED BY <1>5, <1>6, <1>7, <1>8

LEMMA InboxType ==
  ASSUME Lens # {}, FrameTypeOK, QueueInv, NEW data \in Seq(Byte), Inbox(data)
  PROVE  /\ in' \in [len : 1 .. MaxLen, buf : Seq(Byte)] /\ Len(in'.buf) < in'.len
         /\ inbox' \in Seq(Seq(Byte)) /\ ingone' \in Nat
         /\ UNCHANGED <<reading, got>>
         /\ reading # 0 => reading \in ingone' + 1 .. ingone' + Len(inbox')
<1> DEFINE K == [i \in 0 .. Len(data) |-> TypedStates]
           s0 == [len |-> in.len, buf |-> in.buf, q |-> <<>>, from |-> 1,
                  dead |-> FALSE]
<1>1. Len(data) \in Nat /\ MaxLen \in Nat
  BY LensFacts
<1>2. s0 \in K[0]
  <2>1. in \in [len : 1 .. MaxLen, buf : Seq(Byte)] /\ Len(in.buf) < in.len
    BY DEF FrameTypeOK
  <2>2. in.len \in 1 .. MaxLen /\ in.len \in Nat /\ in.buf \in Seq(Byte)
    BY <1>1, <2>1
  <2>3. s0 \in InStates /\ s0.len = in.len /\ s0.buf = in.buf
    BY <2>2 DEF InStates
  <2> HIDE DEF s0
  <2>4. s0 \in TypedStates
    BY <2>1, <2>2, <2>3 DEF TypedStates
  <2> QED BY <1>1, <2>4
<1>3. \A i \in 1 .. Len(data) : \A s \in K[i - 1] : After(s, data, i) \subseteq K[i]
  <2> SUFFICES ASSUME NEW i \in 1 .. Len(data), NEW s \in K[i - 1]
               PROVE  After(s, data, i) \subseteq K[i]
    OBVIOUS
  <2>1. i - 1 \in 0 .. Len(data) /\ i \in 0 .. Len(data)
    BY <1>1
  <2>2. s \in TypedStates
    BY <2>1
  <2> QED BY <2>1, <2>2, AfterType
<1>4. Outcomes(data) \subseteq TypedStates
  <2>1. K[Len(data)] = TypedStates
    BY <1>1
  <2> HIDE DEF K
  <2> QED BY <1>1, <1>2, <1>3, <2>1, InboxInduction
<1>5. PICK s \in Outcomes(data) : \E q \in {inbox \o s.q} : \E f \in 0 .. Len(q) :
        /\ IF s.q = <<>> THEN f = 0 ELSE Freed(Front(q), reading # 0, f)
        /\ in' = [len |-> s.len, buf |-> s.buf]
        /\ inbox' = SubSeq(q, f + 1, Len(q))
        /\ ingone' = ingone + f
        /\ UNCHANGED <<reading, got>>
  BY DEF Inbox
<1> DEFINE q == inbox \o s.q
<1>6. PICK f \in 0 .. Len(q) :
        /\ IF s.q = <<>> THEN f = 0 ELSE Freed(Front(q), reading # 0, f)
        /\ in' = [len |-> s.len, buf |-> s.buf]
        /\ inbox' = SubSeq(q, f + 1, Len(q))
        /\ ingone' = ingone + f
        /\ UNCHANGED <<reading, got>>
  BY <1>5
<1>7. /\ s.len \in 1 .. MaxLen /\ s.buf \in Seq(Byte) /\ Len(s.buf) < s.len
      /\ s.q \in Seq(Seq(Byte)) /\ Len(s.q) \in Nat
  BY <1>4, InStateParts DEF TypedStates
<1>8. inbox \in Seq(Seq(Byte)) /\ ingone \in Nat /\ Len(inbox) \in Nat
  BY DEF FrameTypeOK
<1>9. /\ q \in Seq(Seq(Byte)) /\ Len(q) = Len(inbox) + Len(s.q) /\ Len(q) \in Nat
  <2> DEFINE u == s.q
  <2>1. u \in Seq(Seq(Byte)) /\ q = inbox \o u
    BY <1>7
  <2> HIDE DEF u, q
  <2>2. q \in Seq(Seq(Byte)) /\ Len(q) = Len(inbox) + Len(u) /\ Len(q) \in Nat
    BY <1>8, <2>1
  <2> QED BY <2>2 DEF u
<1> HIDE DEF q
<1>10. f \in Nat /\ ingone' = ingone + f /\ UNCHANGED <<reading, got>>
  BY <1>6, <1>9
<1>11. inbox' \in Seq(Seq(Byte)) /\ Len(inbox') = Len(q) - f /\ Len(inbox') \in Nat
  <2> DEFINE z == SubSeq(q, f + 1, Len(q))
  <2>1. z \in Seq(Seq(Byte)) /\ Len(z) = Len(q) - f /\ Len(z) \in Nat
    BY <1>6, <1>9, RestOf
  <2>2. inbox' = z
    BY <1>6
  <2> HIDE DEF z
  <2> QED BY <2>1, <2>2
<1>12. in' \in [len : 1 .. MaxLen, buf : Seq(Byte)] /\ Len(in'.buf) < in'.len
  BY <1>6, <1>7
<1>13. ASSUME reading # 0
       PROVE  reading \in ingone' + 1 .. ingone' + Len(inbox')
  <2>1. f = 0
    BY <1>6, <1>13, FreedHeld
  <2>2. ingone' = ingone /\ reading \in ingone + 1 .. ingone + Len(inbox)
    BY <1>8, <1>10, <1>13, <2>1 DEF QueueInv
  <2>3. Len(inbox') = Len(inbox) + Len(s.q)
    BY <1>9, <1>11, <2>1
  <2> DEFINE a == Len(inbox)
             d == Len(s.q)
             e == Len(inbox')
  <2>4. a \in Nat /\ d \in Nat /\ e = a + d /\ ingone \in Nat
        /\ reading \in ingone + 1 .. ingone + a /\ ingone' = ingone
    BY <1>7, <1>8, <2>2, <2>3
  <2> HIDE DEF a, d, e
  <2>5. reading \in ingone' + 1 .. ingone' + e
    BY <2>4
  <2> QED BY <2>5 DEF e
<1>14. ingone' \in Nat
  BY <1>8, <1>10
<1> QED BY <1>10, <1>11, <1>12, <1>13, <1>14

LEMMA FrameTypeInit == Lens # {} /\ FrameInit => FrameTypeOK /\ QueueInv
<1> SUFFICES ASSUME Lens # {}, FrameInit PROVE FrameTypeOK /\ QueueInv
  OBVIOUS
<1>1. HeaderLen \in 1 .. MaxLen /\ MaxLosses \in Nat
  <2>1. HeaderLen \in 1 .. MaxLen
    BY LensFacts
  <2>2. MaxLosses \in Nat
    BY FramesAssumption
  <2> QED BY <2>1, <2>2
<1>2. <<>> \in Seq(Byte) /\ <<>> \in Seq(Seq(Byte)) /\ Len(<<>>) = 0
  OBVIOUS
<1>3. AwaitHeader \in [len : 1 .. MaxLen, buf : Seq(Byte)]
      /\ Len(AwaitHeader.buf) < AwaitHeader.len
  BY <1>1, <1>2 DEF AwaitHeader
<1>4. NotSending \in [busy : BOOLEAN, head : Nat, pkt : Seq(Byte)]
  BY <1>2 DEF NotSending, Taken
<1>5. FrameTypeOK
  <2>1. /\ mode \in Modes
        /\ outbox = <<>> /\ outgone = 0 /\ out = <<>> /\ tx = FALSE
        /\ sending = NotSending
        /\ wire = <<>>
        /\ in = AwaitHeader /\ inbox = <<>> /\ ingone = 0 /\ reading = 0
        /\ sent = <<>> /\ got = <<>>
        /\ lost = 0
    BY DEF FrameInit
  <2>2. 0 \in Nat /\ FALSE \in BOOLEAN
    OBVIOUS
  <2>3. 0 \in 0 .. MaxLosses
    BY <1>1
  <2>4. /\ outbox \in Seq(Seq(Byte)) /\ out \in Seq(Byte)
        /\ wire \in Seq(Seq(Byte)) /\ inbox \in Seq(Seq(Byte))
        /\ sent \in Seq(Seq(Byte)) /\ got \in Seq(Seq(Byte))
    BY <1>2, <2>1, Zenon
  <2>5. /\ outgone \in Nat /\ tx \in BOOLEAN /\ ingone \in Nat
        /\ reading \in Nat /\ lost \in 0 .. MaxLosses
    BY <2>1, <2>2, <2>3, Zenon
  <2>6. /\ sending \in [busy : BOOLEAN, head : Nat, pkt : Seq(Byte)]
        /\ in \in [len : 1 .. MaxLen, buf : Seq(Byte)] /\ Len(in.buf) < in.len
    BY <1>3, <1>4, <2>1, Zenon
  <2> QED BY <2>1, <2>4, <2>5, <2>6, Zenon DEF FrameTypeOK
<1>6. QueueInv
  BY DEF FrameInit, QueueInv
<1> QED BY <1>5, <1>6

LEMMA FrameTypeStep ==
  Lens # {} /\ FrameTypeOK /\ QueueInv /\ [FrameNext]_frameVars
    => FrameTypeOK' /\ QueueInv'
<1> SUFFICES ASSUME Lens # {}, FrameTypeOK, QueueInv, [FrameNext]_frameVars
             PROVE  FrameTypeOK' /\ QueueInv'
  OBVIOUS
<1> DEFINE InType == in \in [len : 1 .. MaxLen, buf : Seq(Byte)]
                     /\ Len(in.buf) < in.len
<1>1. /\ mode \in Modes
      /\ outbox \in Seq(Seq(Byte)) /\ outgone \in Nat
      /\ out \in Seq(Byte) /\ tx \in BOOLEAN
      /\ sending \in [busy : BOOLEAN, head : Nat, pkt : Seq(Byte)]
      /\ wire \in Seq(Seq(Byte)) /\ InType
      /\ inbox \in Seq(Seq(Byte)) /\ ingone \in Nat /\ reading \in Nat
      /\ sent \in Seq(Seq(Byte)) /\ got \in Seq(Seq(Byte))
      /\ lost \in 0 .. MaxLosses
  BY DEF FrameTypeOK
<1>2. /\ out # <<>> => outbox # <<>>
      /\ tx => out # <<>>
      /\ reading # 0 => reading \in ingone + 1 .. ingone + Len(inbox)
  BY DEF QueueInv
<1>3. CASE Send
  <2>1. UNCHANGED <<mode, outbox, outgone, out, tx, wire, in, inbox, ingone,
                    reading, sent, got, lost>>
    BY <1>3 DEF Send, receiver
  <2>2. sending' \in [busy : BOOLEAN, head : Nat, pkt : Seq(Byte)]
    <3>1. PICK len \in Lens :
            sending' = [busy |-> TRUE,
                        head |-> IF outbox = <<>> THEN 0 ELSE outgone + 1,
                        pkt |-> Packet(Len(sent) + 1, len)]
      BY <1>3 DEF Send
    <3>2. Packet(Len(sent) + 1, len) \in Seq(Byte)
      <4>1. Len(sent) + 1 \in Nat /\ len \in Nat
        BY <1>1, LensFacts
      <4> QED BY <4>1, PacketFacts
    <3>3. (IF outbox = <<>> THEN 0 ELSE outgone + 1) \in Nat
      BY <1>1
    <3> QED BY <3>1, <3>2, <3>3
  <2> QED BY <1>1, <1>2, <2>1, <2>2 DEF FrameTypeOK, QueueInv
<1>4. CASE SendLink
  <2>1. /\ UNCHANGED <<mode, outgone, out, tx, wire, in, inbox, ingone, reading,
                       got, lost>>
        /\ sending' = NotSending /\ sent' = Append(sent, sending.pkt)
        /\ outbox' = <<sending.pkt>> \/ outbox' = Append(outbox, sending.pkt)
    BY <1>4 DEF SendLink, receiver
  <2>2. sending.pkt \in Seq(Byte)
    BY <1>1
  <2>3. sent' \in Seq(Seq(Byte))
    BY <1>1, <2>1, <2>2
  <2>4. outbox' \in Seq(Seq(Byte)) /\ outbox' # <<>>
    <3>1. CASE outbox' = <<sending.pkt>>
      BY <2>2, <3>1
    <3>2. CASE outbox' = Append(outbox, sending.pkt)
      <4> DEFINE p == sending.pkt
                 z == Append(outbox, p)
      <4>1. p \in Seq(Byte) /\ outbox \in Seq(Seq(Byte))
        BY <1>1, <2>2
      <4> HIDE DEF p
      <4>2. z \in Seq(Seq(Byte)) /\ z # <<>>
        BY <4>1, OneMoreByte
      <4>3. outbox' = z
        BY <3>2 DEF p
      <4> HIDE DEF z
      <4> QED BY <4>2, <4>3
    <3> QED BY <2>1, <3>1, <3>2
  <2>5. sending' \in [busy : BOOLEAN, head : Nat, pkt : Seq(Byte)]
    <3>1. Taken \in Seq(Byte)
      BY DEF Taken
    <3> QED BY <2>1, <3>1 DEF NotSending
  <2> QED BY <1>1, <1>2, <2>1, <2>3, <2>4, <2>5 DEF FrameTypeOK, QueueInv
<1>5. CASE Outbox /\ out # <<>>
  <2>1. /\ UNCHANGED <<mode, outbox, outgone, out, sending, in, inbox, ingone,
                       reading, sent, got, lost>>
        /\ wire' = Append(wire, out) /\ tx' = TRUE
    BY <1>5 DEF Outbox, receiver
  <2>2. wire' \in Seq(Seq(Byte))
    BY <1>1, <2>1
  <2> QED BY <1>1, <1>2, <1>5, <2>1, <2>2 DEF FrameTypeOK, QueueInv
<1>6. CASE Outbox /\ out = <<>>
  <2>1. UNCHANGED <<mode, sending, in, inbox, ingone, reading, sent, got, lost>>
    BY <1>6 DEF Outbox, receiver
  <2>2. PICK n \in 0 .. Len(outbox) :
          /\ outbox' = SubSeq(outbox, n + 1, Len(outbox))
          /\ outgone' = outgone + n
    BY <1>6 DEF Outbox
  <2>3. \/ outbox' = <<>> /\ UNCHANGED <<out, tx, wire>>
        \/ /\ outbox' # <<>> /\ out' = Header(Len(Head(outbox'))) /\ tx' = TRUE
           /\ wire' = Append(wire, out')
    BY <1>6 DEF Outbox
  <2>4. outbox' \in Seq(Seq(Byte)) /\ outgone' \in Nat
    <3> DEFINE z == SubSeq(outbox, n + 1, Len(outbox))
    <3>1. z \in Seq(Seq(Byte))
      BY <1>1, <2>2, RestOf
    <3>2. n \in Nat
      BY <1>1, <2>2
    <3> QED BY <1>1, <2>2, <3>1, <3>2
  <2>5. /\ out' \in Seq(Byte) /\ tx' \in BOOLEAN /\ wire' \in Seq(Seq(Byte))
        /\ (out' # <<>> => outbox' # <<>>) /\ (tx' => out' # <<>>)
    <3>1. CASE outbox' = <<>> /\ UNCHANGED <<out, tx, wire>>
      BY <1>1, <1>2, <1>6, <3>1
    <3>2. CASE /\ outbox' # <<>> /\ out' = Header(Len(Head(outbox'))) /\ tx' = TRUE
               /\ wire' = Append(wire, out')
      <4> DEFINE q == outbox'
                 m == Len(Head(q))
      <4>1. q \in Seq(Seq(Byte)) /\ q # <<>>
        BY <2>4, <3>2
      <4>2. m \in Nat
        <5> HIDE DEF q
        <5>1. Head(q) \in Seq(Byte)
          BY <4>1
        <5> QED BY <5>1
      <4>3. out' = Header(m)
        BY <3>2
      <4> HIDE DEF m
      <4>4. Header(m) \in Seq(Byte) /\ Len(Header(m)) = HeaderLen
        BY <4>2, HeaderFacts
      <4>5. out' \in Seq(Byte) /\ out' # <<>>
        <5>1. HeaderLen # 0
          BY LensFacts
        <5> QED BY <4>3, <4>4, <5>1
      <4>6. wire' \in Seq(Seq(Byte))
        BY <1>1, <3>2, <4>5
      <4> QED BY <3>2, <4>5, <4>6
    <3> QED BY <2>3, <3>1, <3>2
  <2> QED BY <1>1, <1>2, <2>1, <2>4, <2>5 DEF FrameTypeOK, QueueInv
<1>7. CASE Sent
  <2>1. /\ UNCHANGED <<mode, outgone, sending, wire, in, inbox, ingone, reading,
                       sent, got, lost>>
        /\ tx /\ tx' = FALSE
        /\ \/ out' = Head(outbox) /\ outbox' = outbox
           \/ out' = <<>> /\ outbox' = [outbox EXCEPT ![1] = Taken]
    BY <1>7 DEF Sent, receiver
  <2>2. outbox # <<>>
    BY <1>2, <2>1
  <2>3. out' \in Seq(Byte) /\ outbox' \in Seq(Seq(Byte))
        /\ (out' # <<>> => outbox' # <<>>)
    <3>1. CASE out' = Head(outbox) /\ outbox' = outbox
      BY <1>1, <2>2, <3>1
    <3>2. CASE out' = <<>> /\ outbox' = [outbox EXCEPT ![1] = Taken]
      <4>1. Taken \in Seq(Byte)
        BY DEF Taken
      <4>2. outbox' \in Seq(Seq(Byte))
        <5> DEFINE e == Taken
        <5>1. outbox \in Seq(Seq(Byte)) /\ e \in Seq(Byte)
              /\ outbox' = [outbox EXCEPT ![1] = e]
          BY <1>1, <3>2, <4>1
        <5>2. 1 \in 1 .. Len(outbox)
          BY <1>1, <2>2
        <5> HIDE DEF e
        <5> QED BY <5>1, <5>2
      <4> QED BY <3>2, <4>2
    <3> QED BY <2>1, <3>1, <3>2
  <2> QED BY <1>1, <1>2, <2>1, <2>3 DEF FrameTypeOK, QueueInv
<1>8. CASE InboxStream
  <2> DEFINE v == FlattenSeq(wire)
  <2>1. PICK n \in 1 .. Len(v) :
          /\ Inbox(SubSeq(v, 1, n))
          /\ wire' = IF n = Len(v) THEN <<>> ELSE <<SubSeq(v, n + 1, Len(v))>>
    BY <1>8 DEF InboxStream
  <2>2. UNCHANGED <<mode, outbox, outgone, out, tx, sending, sent, lost>>
    BY <1>8 DEF InboxStream, sender
  <2>3. v \in Seq(Byte)
    BY <1>1, FlattenType
  <2> DEFINE data == SubSeq(v, 1, n)
             w == SubSeq(v, n + 1, Len(v))
  <2> HIDE DEF v
  <2>4. data \in Seq(Byte) /\ w \in Seq(Byte)
    <3>1. \A j \in 1 .. Len(v) : v[j] \in Byte
      BY <2>3
    <3>2. Len(v) \in Nat /\ n \in Nat /\ n <= Len(v) /\ n >= 1
      BY <2>3
    <3>3. (\A j \in 1 .. n : v[j] \in Byte) /\ 1 \in Int /\ n \in Int
      BY <3>1, <3>2
    <3>4. data \in Seq(Byte)
      BY <3>3, SubSeqProperties
    <3>5. n \in 0 .. Len(v)
      BY <3>2
    <3> QED BY <2>3, <3>4, <3>5, RestOf
  <2>5. wire' \in Seq(Seq(Byte))
    BY <2>1, <2>4
  <2> HIDE DEF data
  <2>6. /\ in' \in [len : 1 .. MaxLen, buf : Seq(Byte)] /\ Len(in'.buf) < in'.len
        /\ inbox' \in Seq(Seq(Byte)) /\ ingone' \in Nat
        /\ UNCHANGED <<reading, got>>
        /\ reading # 0 => reading \in ingone' + 1 .. ingone' + Len(inbox')
    BY <2>1, <2>4, InboxType DEF data
  <2> QED BY <1>1, <1>2, <2>2, <2>5, <2>6 DEF FrameTypeOK, QueueInv
<1>9. CASE InboxDatagram
  <2>1. /\ UNCHANGED <<mode, outbox, outgone, out, tx, sending, sent, lost>>
        /\ wire # <<>> /\ Inbox(Head(wire)) /\ wire' = Tail(wire)
    BY <1>9 DEF InboxDatagram, sender
  <2>2. Head(wire) \in Seq(Byte) /\ wire' \in Seq(Seq(Byte))
    BY <1>1, <2>1
  <2>3. /\ in' \in [len : 1 .. MaxLen, buf : Seq(Byte)] /\ Len(in'.buf) < in'.len
        /\ inbox' \in Seq(Seq(Byte)) /\ ingone' \in Nat
        /\ UNCHANGED <<reading, got>>
        /\ reading # 0 => reading \in ingone' + 1 .. ingone' + Len(inbox')
    BY <2>1, <2>2, InboxType
  <2> QED BY <1>1, <1>2, <2>1, <2>2, <2>3 DEF FrameTypeOK, QueueInv
<1>10. CASE Lose
  <2>1. /\ UNCHANGED <<mode, outbox, outgone, out, tx, sending, sent, in, inbox,
                       ingone, reading, got>>
        /\ wire # <<>> /\ wire' = Tail(wire) /\ lost < MaxLosses /\ lost' = lost + 1
    BY <1>10 DEF Lose, sender, receiver
  <2>2. wire' \in Seq(Seq(Byte)) /\ lost' \in 0 .. MaxLosses
    BY <1>1, <2>1, FramesAssumption
  <2> QED BY <1>1, <1>2, <2>1, <2>2 DEF FrameTypeOK, QueueInv
<1>11. CASE Clear
  <2>1. /\ UNCHANGED <<mode, outbox, outgone, out, tx, sending, sent, wire, inbox,
                       ingone, reading, got>>
        /\ in' = AwaitHeader /\ lost < MaxLosses /\ lost' = lost + 1
    BY <1>11 DEF Clear, sender
  <2>2. lost' \in 0 .. MaxLosses
    BY <1>1, <2>1, FramesAssumption
  <2>3. in' \in [len : 1 .. MaxLen, buf : Seq(Byte)] /\ Len(in'.buf) < in'.len
    <3>1. HeaderLen \in 1 .. MaxLen
      BY LensFacts
    <3>2. <<>> \in Seq(Byte) /\ Len(<<>>) = 0
      OBVIOUS
    <3> QED BY <2>1, <3>1, <3>2 DEF AwaitHeader
  <2> QED BY <1>1, <1>2, <2>1, <2>2, <2>3 DEF FrameTypeOK, QueueInv
<1>12. CASE Receive
  <2>1. /\ UNCHANGED <<mode, outbox, outgone, out, tx, sending, sent, wire, in,
                       inbox, ingone, got, lost>>
        /\ inbox # <<>> /\ reading' = ingone + 1
    BY <1>12 DEF Receive, sender
  <2>2. reading' \in Nat /\ reading' \in ingone + 1 .. ingone + Len(inbox)
    <3>1. Len(inbox) \in Nat /\ Len(inbox) # 0
      BY <1>1, <2>1
    <3> QED BY <1>1, <2>1, <3>1
  <2> QED BY <1>1, <1>2, <2>1, <2>2 DEF FrameTypeOK, QueueInv
<1>13. CASE ReceiveWalk
  <2> DEFINE i == reading - ingone
  <2>1. /\ UNCHANGED <<mode, outbox, outgone, out, tx, sending, sent, wire, in,
                       ingone, lost>>
        /\ reading > ingone
        /\ \/ /\ got' = Append(got, inbox[i])
              /\ inbox' = [inbox EXCEPT ![i] = Taken] /\ reading' = 0
           \/ /\ reading' = IF i = Len(inbox) THEN 0 ELSE reading + 1
              /\ inbox' = inbox /\ got' = got
    BY <1>13 DEF ReceiveWalk, sender
  <2>2. reading \in ingone + 1 .. ingone + Len(inbox) /\ i \in 1 .. Len(inbox)
        /\ ingone + i = reading
    <3>1. reading # 0 /\ Len(inbox) \in Nat
      BY <1>1, <2>1
    <3> QED BY <1>1, <1>2, <3>1
  <2>3. CASE /\ got' = Append(got, inbox[i])
             /\ inbox' = [inbox EXCEPT ![i] = Taken] /\ reading' = 0
    <3>1. Taken \in Seq(Byte) /\ inbox[i] \in Seq(Byte)
      BY <1>1, <2>2 DEF Taken
    <3>2. got' \in Seq(Seq(Byte)) /\ inbox' \in Seq(Seq(Byte))
      <4> HIDE DEF i
      <4> QED BY <1>1, <2>2, <2>3, <3>1
    <3> QED BY <1>1, <1>2, <2>1, <2>3, <3>2 DEF FrameTypeOK, QueueInv
  <2>4. CASE /\ reading' = IF i = Len(inbox) THEN 0 ELSE reading + 1
             /\ inbox' = inbox /\ got' = got
    <3>1. reading' \in Nat
          /\ (reading' # 0 => reading' \in ingone + 1 .. ingone + Len(inbox))
      <4>1. CASE i = Len(inbox)
        BY <2>4, <4>1
      <4>2. CASE i # Len(inbox)
        <5> DEFINE d == Len(inbox)
        <5>1. /\ reading' = reading + 1 /\ ingone \in Nat /\ d \in Nat /\ reading \in Nat
              /\ i \in 1 .. d /\ i # d /\ ingone + i = reading
          BY <1>1, <2>2, <2>4, <4>2
        <5> HIDE DEF d, i
        <5>2. reading' \in Nat /\ reading' \in ingone + 1 .. ingone + d
          BY <5>1
        <5> QED BY <5>2 DEF d
      <4> QED BY <4>1, <4>2
    <3> QED BY <1>1, <1>2, <2>1, <2>4, <3>1 DEF FrameTypeOK, QueueInv
  <2> QED BY <2>1, <2>3, <2>4
<1>14. CASE UNCHANGED frameVars
  BY <1>1, <1>2, <1>14 DEF frameVars, FrameTypeOK, QueueInv
<1> QED
  BY <1>3, <1>4, <1>5, <1>6, <1>7, <1>8, <1>9, <1>10, <1>11, <1>12, <1>13, <1>14
  DEF FrameNext

(* Types, for both transports and whatever is lost or cleared: what the    *)
(* receiver of util_frames has of a frame is shorter than the frame        *)
(* (inlen), which is no longer than frames->max.  Lens # {}: there is a    *)
(* packet to send, so that a header is no longer than that either.         *)
THEOREM FramesTypeCorrect ==
  ASSUME Lens # {}
  PROVE  FrameSpec => []FrameTypeOK
<1>1. FrameTypeOK /\ QueueInv /\ [FrameNext]_frameVars => FrameTypeOK' /\ QueueInv'
  BY FrameTypeStep
<1>2. FrameInit => FrameTypeOK /\ QueueInv
  BY FrameTypeInit
<1> QED
  BY <1>1, <1>2, PTL DEF FrameSpec
=============================================================================
