----------------------------- MODULE JsLinksProofs -----------------------------
(***************************************************************************)
(* Proofs about the links of the JavaScript bindings, module JsLinks, for  *)
(* any number of peers, connections and callbacks waiting: what Mesh._links*)
(* says of the C library, 'up' and 'open' events, and the pipes of links.  *)
(* At the end the proofs about the start of the same Mesh, JsStartup.      *)
(***************************************************************************)
EXTENDS JsLinks, JsStartup, SequenceTheorems, FiniteSetTheorems, TLAPS

LinkRecs == [peer : Peer, up : BOOLEAN, pipe : Nat, cut : BOOLEAN, frees : Nat]
ConnRecs == [kind : {"frames", "chunks"}, peer : Peer, open : BOOLEAN,
             linked : Nat, last : Nat, greeted : BOOLEAN]
TickRecs == [kind : {"up", "open", "discover"}, peer : Peer, at : Nat]
ObjRecs == [c : Nat, own : Nat, seen : {"none", "new", "up", "down"}]
Meshes == [links : SUBSET Peer, dead : SUBSET Peer, obj : [Peer -> ObjRecs],
           ticks : Seq(TickRecs)]

LinksType ==
  /\ heap \in Seq(LinkRecs)
  /\ conn \in Seq(ConnRecs)
  /\ js \in Meshes
  /\ aaa \in 0 .. Len(conn)
  /\ \A i \in DOMAIN js.ticks :
       js.ticks[i].kind = "discover" => js.ticks[i].at \in DOMAIN conn
  /\ \A o \in offers : o.peer \in Peer /\ o.at \in DOMAIN conn

Live(p) == {c \in DOMAIN heap : heap[c].peer = p /\ heap[c].frees = 0}
UpLinks(p) == {c \in Live(p) : heap[c].up}
UpTicks(p) ==
  {i \in DOMAIN js.ticks : js.ticks[i].kind = "up" /\ js.ticks[i].peer = p}

(* A peer has one C link and one open connection, and what a connection    *)
(* has caught is that link, with its pipe.                                 *)
Caught(s) ==
  LET k == conn[s] IN
  /\ k.linked # 0 => k.linked \in DOMAIN heap /\ heap[k.linked].peer = k.peer
  /\ k.last # 0 => k.last \in DOMAIN heap /\ heap[k.last].peer = k.peer
  /\ k.open /\ k.linked # 0 =>
       /\ heap[k.linked].frees = 0
       /\ heap[k.linked].cut \/ heap[k.linked].pipe = s
  /\ k.open /\ k.greeted => \A c \in Live(k.peer) : k.linked = c
PipeInv ==
  /\ \A c, d \in DOMAIN heap :
       heap[c].peer = heap[d].peer /\ heap[c].frees = 0 /\ heap[d].frees = 0 => c = d
  /\ \A s, t \in DOMAIN conn :
       conn[s].open /\ conn[t].open /\ conn[s].peer = conn[t].peer => s = t
  /\ \A s \in DOMAIN conn : Caught(s)

(* The Link object of a peer whose C link is up has emitted 'up', or will  *)
(* at a tick to come, and only then it is in _links.                       *)
Known(p) == js.obj[p].seen = "up" \/ UpTicks(p) # {}
Here(s, p) == conn[s].open /\ conn[s].greeted /\ conn[s].peer = p
Serves(s, p, c) ==
  /\ conn[s].peer = p /\ conn[s].linked = c
  /\ conn[s].open \/ (conn[s].kind = "chunks" /\ conn[s].last = 0)
Registered(p) ==
  /\ \A i, j \in UpTicks(p) : i = j
  /\ UpTicks(p) # {} => /\ js.obj[p].seen # "up"
                        /\ \E s \in DOMAIN conn : Here(s, p)
                        /\ UpLinks(p) # {}
  /\ js.obj[p].seen = "up" => p \in js.links
  /\ p \in js.links => Known(p) /\ UpLinks(p) # {}
  /\ \A c \in UpLinks(p) : /\ Known(p) /\ js.obj[p].c = c
                           /\ \E s \in DOMAIN conn : Serves(s, p, c)

(* The tick of an 'open' comes after that of 'up'.                         *)
OpenAt(i, p, c) ==
  /\ c \in Live(p)
  /\ heap[c].cut \/ js.obj[p].seen = "up" \/ \E j \in UpTicks(p) : j < i
OpenInv ==
  \A i \in DOMAIN js.ticks : \A p, c :
    js.ticks[i].kind = "open" /\ js.ticks[i].peer = p /\ js.ticks[i].at = c
      => OpenAt(i, p, c)

LinksInv ==
  LinksType /\ PipeInv /\ (\A p \in Peer : Registered(p)) /\ OpenInv

-----------------------------------------------------------------------------
(* c is the C link of p, or 0 if there is none.                            *)
IsLive(c, h, p) ==
  /\ c # 0 => c \in DOMAIN h /\ h[c].peer = p /\ h[c].frees = 0
  /\ c = 0 => \A d \in DOMAIN h : ~(h[d].peer = p /\ h[d].frees = 0)
  /\ c \in Nat

(* LiveIn finds the C link of a peer if there is one.                      *)
LEMMA LiveInFacts ==
  ASSUME NEW h \in Seq(LinkRecs), NEW p
  PROVE  IsLive(LiveIn(h, p), h, p)
<1> USE DEF IsLive
<1> DEFINE S == {c \in DOMAIN h : h[c].peer = p /\ h[c].frees = 0}
<1>1. DOMAIN h = 1 .. Len(h) /\ Len(h) \in Nat
  OBVIOUS
<1>2. CASE S = {}
  BY <1>2 DEF LiveIn
<1>3. CASE S # {}
  <2>1. LiveIn(h, p) = CHOOSE c \in S : TRUE
    BY <1>3 DEF LiveIn
  <2>2. LiveIn(h, p) \in S
    BY <1>3, <2>1
  <2>3. 0 \notin S /\ S \subseteq Nat
    BY <1>1
  <2> QED BY <2>2, <2>3
<1> QED BY <1>2, <1>3

(* The callbacks that wait are those of peers.                             *)
LEMMA TickPeers ==
  ASSUME NEW j \in Meshes
  PROVE  /\ DOMAIN j.ticks = 1 .. Len(j.ticks) /\ Len(j.ticks) \in Nat
         /\ \A i \in DOMAIN j.ticks : j.ticks[i] \in TickRecs /\ j.ticks[i].peer \in Peer
<1>1. j.ticks \in Seq(TickRecs)
  BY DEF Meshes
<1>2. DOMAIN j.ticks = 1 .. Len(j.ticks) /\ Len(j.ticks) \in Nat
  BY <1>1
<1>3. \A i \in DOMAIN j.ticks : j.ticks[i] \in TickRecs
  BY <1>1
<1>4. \A i \in DOMAIN j.ticks : j.ticks[i].peer \in Peer
  BY <1>3 DEF TickRecs
<1> QED BY <1>2, <1>3, <1>4

(* A callback put behind the others.                                       *)
Ticked(t, j, kind, p, at) ==
  LET n == Len(j.ticks) IN
  /\ t \in Meshes /\ n \in Nat
  /\ t.links = j.links /\ t.obj = j.obj /\ t.dead = j.dead
  /\ DOMAIN j.ticks = 1 .. n
  /\ DOMAIN t.ticks = 1 .. n + 1
  /\ \A i \in 1 .. n : t.ticks[i] = j.ticks[i]
  /\ t.ticks[n + 1].kind = kind /\ t.ticks[n + 1].peer = p
  /\ t.ticks[n + 1].at = at

(* Tick does that.                                                         *)
LEMMA TickFacts ==
  ASSUME NEW j \in Meshes, NEW kind \in {"up", "open", "discover"},
         NEW p \in Peer, NEW at \in Nat
  PROVE  Ticked(Tick(j, kind, p, at), j, kind, p, at)
<1> USE DEF Ticked
<1> DEFINE r == [kind |-> kind, peer |-> p, at |-> at]
           q == Append(j.ticks, r)
<1>1. r \in TickRecs /\ r.kind = kind /\ r.peer = p /\ r.at = at
  BY DEF TickRecs
<1>2. j.ticks \in Seq(TickRecs)
  BY DEF Meshes
<1> HIDE DEF r
<1>3. /\ q \in Seq(TickRecs) /\ Len(q) = Len(j.ticks) + 1 /\ Len(j.ticks) \in Nat
      /\ DOMAIN j.ticks = 1 .. Len(j.ticks)
      /\ \A i \in 1 .. Len(j.ticks) : q[i] = j.ticks[i]
      /\ q[Len(j.ticks) + 1] = r
  BY <1>1, <1>2, AppendProperties
<1>4. DOMAIN q = 1 .. Len(j.ticks) + 1
  BY <1>3
<1>5. Tick(j, kind, p, at) = [j EXCEPT !.ticks = q]
  BY DEF Tick, r
<1> HIDE DEF q
<1>6. /\ Tick(j, kind, p, at) \in Meshes
      /\ Tick(j, kind, p, at).ticks = q
      /\ Tick(j, kind, p, at).links = j.links
      /\ Tick(j, kind, p, at).obj = j.obj /\ Tick(j, kind, p, at).dead = j.dead
  BY <1>3, <1>5 DEF Meshes
<1> QED BY <1>1, <1>3, <1>4, <1>6

(* The Link object of p takes link c and will emit 'up'.                   *)
CameUp(t, j, p, c) ==
  LET n == Len(j.ticks) IN
  /\ t \in Meshes /\ n \in Nat
  /\ t.links \subseteq j.links \cup {p} /\ j.links \subseteq t.links
  /\ t.obj[p].c = c /\ t.obj[p].seen \in {"new", j.obj[p].seen}
  /\ \A q \in Peer : q # p => t.obj[q] = j.obj[q]
  /\ DOMAIN j.ticks = 1 .. n
  /\ DOMAIN t.ticks = 1 .. n + 1
  /\ \A i \in 1 .. n : t.ticks[i] = j.ticks[i]
  /\ t.ticks[n + 1].kind = "up" /\ t.ticks[n + 1].peer = p

(* on_link does that for a link that is up, if the object of its peer is   *)
(* not in _links.                                                          *)
LEMMA OnLinkUp ==
  ASSUME NEW j \in Meshes, NEW h, NEW c \in Nat, h[c].peer \in Peer,
         h[c].up, h[c].peer \notin j.links
  PROVE  CameUp(OnLink(j, h, c), j, h[c].peer, c)
<1> USE DEF CameUp
<1> DEFINE p == h[c].peer
           a == [j EXCEPT !.obj[p].c = c]
           b == [j EXCEPT !.obj[p] = [c |-> c, own |-> c, seen |-> "new"],
                          !.links = @ \cup {p}]
<1>1. j.obj \in [Peer -> ObjRecs] /\ j.links \in SUBSET Peer /\ j.ticks \in Seq(TickRecs)
  BY DEF Meshes
<1>2. CASE p \in j.dead
  <2>1. OnLink(j, h, c) = Tick(a, "up", p, c)
    BY <1>2 DEF OnLink
  <2>2. [j.obj[p] EXCEPT !.c = c] \in ObjRecs
        /\ [j.obj[p] EXCEPT !.c = c].c = c
        /\ [j.obj[p] EXCEPT !.c = c].seen = j.obj[p].seen
    BY <1>1 DEF ObjRecs
  <2>3. a = [j EXCEPT !.obj = [j.obj EXCEPT ![p] = [j.obj[p] EXCEPT !.c = c]]]
    BY <1>1 DEF Meshes
  <2> DEFINE ob == [j.obj EXCEPT ![p] = [j.obj[p] EXCEPT !.c = c]]
  <2>4. /\ ob \in [Peer -> ObjRecs] /\ ob[p].c = c /\ ob[p].seen = j.obj[p].seen
        /\ \A q \in Peer : q # p => ob[q] = j.obj[q]
    BY <1>1, <2>2
  <2> HIDE DEF ob
  <2>5. a = [j EXCEPT !.obj = ob]
    BY <2>3 DEF ob
  <2> HIDE DEF a
  <2>6. /\ a \in Meshes /\ a.obj = ob /\ a.links = j.links /\ a.ticks = j.ticks
    BY <2>4, <2>5 DEF Meshes
  <2> DEFINE t == Tick(a, "up", p, c)
             n == Len(j.ticks)
  <2> HIDE DEF p
  <2>7. /\ t \in Meshes /\ n \in Nat /\ t.links = a.links /\ t.obj = a.obj
        /\ DOMAIN j.ticks = 1 .. n /\ DOMAIN t.ticks = 1 .. n + 1
        /\ \A i \in 1 .. n : t.ticks[i] = j.ticks[i]
        /\ t.ticks[n + 1].kind = "up" /\ t.ticks[n + 1].peer = p
    <3>1. p \in Peer
      BY DEF p
    <3>2. a \in Meshes /\ c \in Nat /\ "up" \in {"up", "open", "discover"}
      BY <2>6
    <3>3. Ticked(t, a, "up", p, c)
      BY <3>1, <3>2, TickFacts
    <3> HIDE DEF t
    <3> QED BY <3>3, <2>6 DEF Ticked
  <2> HIDE DEF t
  <2>8. OnLink(j, h, c) = t
    BY <2>1 DEF t
  <2> QED BY <2>4, <2>6, <2>7, <2>8 DEF p
<1>3. CASE p \notin j.dead
  <2>1. OnLink(j, h, c) = Tick(b, "up", p, c)
    BY <1>3 DEF OnLink
  <2> DEFINE r == [c |-> c, own |-> c, seen |-> "new"]
             ob == [j.obj EXCEPT ![p] = r]
             lk == j.links \cup {p}
  <2>2. r \in ObjRecs /\ r.c = c /\ r.seen = "new"
    BY DEF ObjRecs
  <2> HIDE DEF r
  <2>3. /\ ob \in [Peer -> ObjRecs] /\ ob[p].c = c /\ ob[p].seen = "new"
        /\ \A q \in Peer : q # p => ob[q] = j.obj[q]
        /\ lk \in SUBSET Peer
    BY <1>1, <2>2
  <2> HIDE DEF ob
  <2>4. b = [j EXCEPT !.obj = ob, !.links = lk]
    BY DEF ob, r, Meshes
  <2> HIDE DEF b
  <2>5. /\ b \in Meshes /\ b.obj = ob /\ b.links = lk /\ b.ticks = j.ticks
    BY <2>3, <2>4 DEF Meshes
  <2> DEFINE t == Tick(b, "up", p, c)
             n == Len(j.ticks)
  <2> HIDE DEF p
  <2>6. /\ t \in Meshes /\ n \in Nat /\ t.links = b.links /\ t.obj = b.obj
        /\ DOMAIN j.ticks = 1 .. n /\ DOMAIN t.ticks = 1 .. n + 1
        /\ \A i \in 1 .. n : t.ticks[i] = j.ticks[i]
        /\ t.ticks[n + 1].kind = "up" /\ t.ticks[n + 1].peer = p
    <3>1. p \in Peer
      BY DEF p
    <3>2. b \in Meshes /\ c \in Nat /\ "up" \in {"up", "open", "discover"}
      BY <2>5
    <3>3. Ticked(t, b, "up", p, c)
      BY <3>1, <3>2, TickFacts
    <3> HIDE DEF t
    <3> QED BY <3>3, <2>5 DEF Ticked
  <2> HIDE DEF t
  <2>7. OnLink(j, h, c) = t
    BY <2>1 DEF t
  <2> QED BY <2>3, <2>5, <2>6, <2>7 DEF p
<1> QED BY <1>2, <1>3

(* For one that is up with an object in _links, or is not up with none     *)
(* there, nothing happens.                                                 *)
LEMMA OnLinkNot ==
  ASSUME NEW j, NEW h, NEW c, h[c].up \in BOOLEAN,
         h[c].up <=> h[c].peer \in j.links
  PROVE  OnLink(j, h, c) = j
BY DEF OnLink

-----------------------------------------------------------------------------
(* The connection remembers the link, and plumbs the first one.            *)
Plumbs(s, c, h, j) ==
  /\ js' = j
  /\ conn' \in Seq(ConnRecs) /\ DOMAIN conn' = DOMAIN conn
  /\ \A t \in DOMAIN conn : t # s => conn'[t] = conn[t]
  /\ conn'[s].kind = conn[s].kind /\ conn'[s].peer = conn[s].peer
  /\ conn'[s].open = conn[s].open /\ (conn[s].greeted => conn'[s].greeted)
  /\ conn'[s].last \in {c, conn[s].last}
  /\ conn'[s].linked = IF conn[s].linked = 0 THEN c ELSE conn[s].linked
  /\ heap' \in Seq(LinkRecs) /\ DOMAIN heap' = DOMAIN h
  /\ \A d \in DOMAIN h :
       /\ heap'[d].peer = h[d].peer /\ heap'[d].up = h[d].up
       /\ heap'[d].cut = h[d].cut /\ heap'[d].frees = h[d].frees
       /\ IF c # 0 /\ conn[s].linked = 0 /\ d = c
          THEN heap'[d].pipe = s ELSE heap'[d].pipe = h[d].pipe

(* That is the end of a turn of the receive loop, if on_link finds nothing *)
(* to do then.                                                             *)
LEMMA PlumbFacts ==
  ASSUME conn \in Seq(ConnRecs), NEW s \in DOMAIN conn, NEW c \in Nat,
         NEW h \in Seq(LinkRecs), NEW j \in Meshes, Plumb(s, c, h, j),
         c # 0 => c \in DOMAIN h,
         c # 0 /\ conn[s].linked = 0 => (h[c].up <=> h[c].peer \in j.links)
  PROVE  Plumbs(s, c, h, j)
<1> USE DEF Plumbs
<1> DEFINE first == c # 0 /\ conn[s].linked = 0
           l == IF first THEN c ELSE conn[s].linked
           k == [conn[s] EXCEPT !.last = c, !.greeted = TRUE, !.linked = l]
<1>1. conn[s] \in ConnRecs /\ s \in Nat /\ Len(conn) \in Nat /\ DOMAIN conn = 1 .. Len(conn)
  OBVIOUS
<1>2. l \in Nat /\ l = IF conn[s].linked = 0 THEN c ELSE conn[s].linked
  BY <1>1 DEF ConnRecs
<1>3. conn' = [conn EXCEPT ![s] = k]
  BY DEF Plumb
<1> HIDE DEF l
<1>4. /\ k \in ConnRecs /\ k.last = c /\ k.greeted /\ k.linked = l
      /\ k.kind = conn[s].kind /\ k.peer = conn[s].peer /\ k.open = conn[s].open
  BY <1>1, <1>2 DEF ConnRecs
<1> HIDE DEF k
<1>5. /\ conn' \in Seq(ConnRecs) /\ DOMAIN conn' = DOMAIN conn
      /\ conn'[s] = k
      /\ \A t \in DOMAIN conn : t # s => conn'[t] = conn[t]
  BY <1>1, <1>3, <1>4
<1>6. heap' = IF first THEN [h EXCEPT ![c].pipe = s] ELSE h
  BY DEF Plumb
<1>7. /\ heap' \in Seq(LinkRecs) /\ DOMAIN heap' = DOMAIN h
      /\ \A d \in DOMAIN h :
           /\ heap'[d].peer = h[d].peer /\ heap'[d].up = h[d].up
           /\ heap'[d].cut = h[d].cut /\ heap'[d].frees = h[d].frees
           /\ IF first /\ d = c THEN heap'[d].pipe = s ELSE heap'[d].pipe = h[d].pipe
  <2>1. CASE first
    <3> DEFINE r == [h[c] EXCEPT !.pipe = s]
    <3>1. h[c] \in LinkRecs /\ c \in DOMAIN h
      BY <2>1
    <3>2. /\ r \in LinkRecs /\ r.pipe = s /\ r.peer = h[c].peer /\ r.up = h[c].up
          /\ r.cut = h[c].cut /\ r.frees = h[c].frees
      BY <1>1, <3>1 DEF LinkRecs
    <3>3. heap' = [h EXCEPT ![c] = r]
      BY <1>6, <2>1
    <3> HIDE DEF r, first
    <3>4. heap' \in Seq(LinkRecs) /\ DOMAIN heap' = DOMAIN h
      BY <3>1, <3>2, <3>3
    <3>5. heap'[c] = r /\ \A d \in DOMAIN h : d # c => heap'[d] = h[d]
      BY <3>1, <3>3
    <3> QED BY <2>1, <3>2, <3>4, <3>5
  <2>2. CASE ~first
    BY <1>6, <2>2
  <2> QED BY <2>1, <2>2
<1>8. js' = j
  <2>1. CASE first
    <3>1. h[c].up \in BOOLEAN
      <4>1. h[c] \in LinkRecs
        BY <2>1
      <4> QED BY <4>1 DEF LinkRecs
    <3>2. heap' = [h EXCEPT ![c].pipe = s]
      BY <1>6, <2>1
    <3> QED BY <2>1, <3>1, OnLinkNot DEF Plumb
  <2>2. CASE ~first
    BY <2>2 DEF Plumb
  <2> QED BY <2>1, <2>2
<1> QED BY <1>2, <1>4, <1>5, <1>7, <1>8

(* A turn of the loop brings connection s link c of its peer: the one      *)
(* there was, or a new one if there was none.                              *)
Caughts(s, c) ==
  /\ DOMAIN conn' = DOMAIN conn
  /\ \A t \in DOMAIN conn : t # s => conn'[t] = conn[t]
  /\ conn'[s].peer = conn[s].peer /\ conn'[s].open = conn[s].open
  /\ conn'[s].last \in {c, conn[s].last}
  /\ conn'[s].linked = IF conn[s].linked = 0 THEN c ELSE conn[s].linked
PipeGiven(s, c) ==
  /\ c = 0 => /\ conn[s].greeted \/ Live(conn[s].peer) = {}
              /\ DOMAIN heap' = DOMAIN heap
  /\ c # 0 => /\ c \in DOMAIN heap'
              /\ heap'[c].peer = conn[s].peer /\ heap'[c].frees = 0
              /\ conn[s].linked = 0 => heap'[c].pipe = s
  /\ DOMAIN heap \subseteq DOMAIN heap'
  /\ \A d \in DOMAIN heap :
       /\ heap'[d].peer = heap[d].peer /\ heap'[d].frees = heap[d].frees
       /\ heap'[d].cut = heap[d].cut
       /\ heap'[d].pipe = heap[d].pipe \/ d = c
  /\ \A d \in DOMAIN heap' \ DOMAIN heap : d = c /\ Live(conn[s].peer) = {}
  /\ conn[s].linked # 0 => \A d \in DOMAIN heap : heap'[d].pipe = heap[d].pipe

(* What every connection has caught stays right then.                      *)
LEMMA PipeStep ==
  ASSUME PipeInv, NEW s \in DOMAIN conn, conn[s].open, NEW c,
         Caughts(s, c), PipeGiven(s, c)
  PROVE  PipeInv'
<1> USE DEF Caughts, PipeGiven
<1>1. \A d, e \in DOMAIN heap' :
        heap'[d].peer = heap'[e].peer /\ heap'[d].frees = 0 /\ heap'[e].frees = 0 => d = e
  <2> SUFFICES ASSUME NEW d \in DOMAIN heap', NEW e \in DOMAIN heap',
                      heap'[d].peer = heap'[e].peer,
                      heap'[d].frees = 0, heap'[e].frees = 0
               PROVE  d = e
    OBVIOUS
  <2>1. CASE d \in DOMAIN heap /\ e \in DOMAIN heap
    BY <2>1 DEF PipeInv
  <2>2. CASE d \notin DOMAIN heap /\ e \in DOMAIN heap
    <3>1. d = c /\ e \notin Live(conn[s].peer) /\ c # 0
      BY <2>2
    <3> QED BY <2>2, <3>1 DEF Live
  <2>3. CASE d \in DOMAIN heap /\ e \notin DOMAIN heap
    <3>1. e = c /\ d \notin Live(conn[s].peer) /\ c # 0
      BY <2>3
    <3> QED BY <2>3, <3>1 DEF Live
  <2>4. CASE d \notin DOMAIN heap /\ e \notin DOMAIN heap
    BY <2>4
  <2> QED BY <2>1, <2>2, <2>3, <2>4
<1>2. \A t, u \in DOMAIN conn' :
        conn'[t].open /\ conn'[u].open /\ conn'[t].peer = conn'[u].peer => t = u
  BY DEF PipeInv
<1>3. ASSUME NEW t \in DOMAIN conn, t # s PROVE Caught(t)'
  <2>1. Caught(t) /\ conn'[t] = conn[t]
    BY <1>3 DEF PipeInv
  <2>2. conn[t].open => conn[t].peer # conn[s].peer
    BY <1>3 DEF PipeInv
  <2>3. ASSUME conn[t].open, conn[t].linked # 0
        PROVE  heap'[conn[t].linked].pipe = heap[conn[t].linked].pipe
    BY <2>1, <2>2, <2>3 DEF Caught
  <2>4. ASSUME conn[t].open, NEW d \in Live(conn[t].peer)' PROVE d \in Live(conn[t].peer)
    BY <2>1, <2>2, <2>4 DEF Live
  <2> QED BY <2>1, <2>3, <2>4 DEF Caught
<1>4. Caught(s)'
  <2>1. Caught(s)
    BY DEF PipeInv
  <2>2. ASSUME conn'[s].linked # 0
        PROVE  /\ conn'[s].linked \in DOMAIN heap'
               /\ heap'[conn'[s].linked].peer = conn'[s].peer
               /\ heap'[conn'[s].linked].frees = 0
               /\ heap'[conn'[s].linked].cut \/ heap'[conn'[s].linked].pipe = s
    BY <2>1, <2>2 DEF Caught
  <2>3. conn'[s].last # 0 => /\ conn'[s].last \in DOMAIN heap'
                            /\ heap'[conn'[s].last].peer = conn'[s].peer
    BY <2>1 DEF Caught
  <2>4. ASSUME NEW d \in Live(conn[s].peer)', conn'[s].greeted PROVE conn'[s].linked = d
    <3>1. CASE conn'[s].linked # 0
      BY <1>1, <2>2, <2>4, <3>1 DEF Live
    <3>2. CASE conn'[s].linked = 0
      <4>1. c = 0 /\ conn[s].linked = 0
        BY <3>2
      <4>2. d \in Live(conn[s].peer)
        BY <2>4, <4>1 DEF Live
      <4> QED BY <2>1, <2>4, <3>2, <4>1, <4>2 DEF Caught
    <3> QED BY <3>1, <3>2
  <2> QED BY <2>2, <2>3, <2>4 DEF Caught
<1> QED BY <1>1, <1>2, <1>3, <1>4 DEF PipeInv

(* A peer that a step is not about stays registered as it was.             *)
LEMMA RegisteredFrame ==
  ASSUME NEW p, Registered(p),
         js'.obj[p].seen = js.obj[p].seen, js'.obj[p].c = js.obj[p].c,
         p \in js'.links <=> p \in js.links,
         UpTicks(p)' # {} <=> UpTicks(p) # {},
         \A i, j \in UpTicks(p)' : i = j,
         UpLinks(p)' = UpLinks(p),
         DOMAIN conn \subseteq DOMAIN conn',
         UpTicks(p) # {} => \A s \in DOMAIN conn : Here(s, p) => Here(s, p)',
         \A s \in DOMAIN conn, c \in UpLinks(p) : Serves(s, p, c) => Serves(s, p, c)'
  PROVE  Registered(p)'
<1>1. Known(p)' <=> Known(p)
  BY DEF Known
<1>2. UpTicks(p)' # {} => /\ js'.obj[p].seen # "up"
                          /\ \E s \in DOMAIN conn' : Here(s, p)'
                          /\ UpLinks(p)' # {}
  BY DEF Registered
<1>3. js'.obj[p].seen = "up" => p \in js'.links
  BY DEF Registered
<1>4. p \in js'.links => Known(p)' /\ UpLinks(p)' # {}
  BY <1>1 DEF Registered
<1>5. \A c \in UpLinks(p)' : /\ Known(p)' /\ js'.obj[p].c = c
                             /\ \E s \in DOMAIN conn' : Serves(s, p, c)'
  BY <1>1 DEF Registered
<1> QED BY <1>2, <1>3, <1>4, <1>5 DEF Registered

(* The links that are up, if a step changes neither them nor that they are *)
(* up or whose they are.                                                   *)
LEMMA UpLinksFrame ==
  ASSUME NEW p, DOMAIN heap \subseteq DOMAIN heap',
         \A d \in DOMAIN heap :
           /\ heap'[d].peer = heap[d].peer /\ heap'[d].frees = heap[d].frees
           /\ heap[d].peer = p => heap'[d].up = heap[d].up,
         \A d \in DOMAIN heap' \ DOMAIN heap : heap'[d].peer = p => ~heap'[d].up
  PROVE  UpLinks(p)' = UpLinks(p)
<1>1. \A d : d \in UpLinks(p)' => d \in UpLinks(p)
  BY DEF UpLinks, Live
<1>2. \A d : d \in UpLinks(p) => d \in UpLinks(p)'
  BY DEF UpLinks, Live
<1> QED BY <1>1, <1>2

(* The callbacks that wait, if none or one is put behind them.             *)
LEMMA UpTicksFrame ==
  ASSUME NEW p, NEW n \in Nat, DOMAIN js.ticks = 1 .. n,
         DOMAIN js'.ticks = 1 .. n \/ DOMAIN js'.ticks = 1 .. n + 1,
         \A i \in 1 .. n : js'.ticks[i] = js.ticks[i],
         n + 1 \in DOMAIN js'.ticks =>
           ~(js'.ticks[n + 1].kind = "up" /\ js'.ticks[n + 1].peer = p)
  PROVE  UpTicks(p)' = UpTicks(p)
<1>1. \A i : i \in UpTicks(p)' => i \in UpTicks(p)
  BY DEF UpTicks
<1>2. \A i : i \in UpTicks(p) => i \in UpTicks(p)'
  BY DEF UpTicks
<1> QED BY <1>1, <1>2

(* The order of 'up' and 'open' is kept by a callback put behind the       *)
(* others, if its own 'open' comes after an 'up'.                          *)
LEMMA OpenFrame ==
  ASSUME OpenInv, NEW n \in Nat, DOMAIN js.ticks = 1 .. n,
         \A i \in 1 .. n : js.ticks[i].peer \in Peer,
         DOMAIN js'.ticks = 1 .. n \/ DOMAIN js'.ticks = 1 .. n + 1,
         \A i \in 1 .. n : js'.ticks[i] = js.ticks[i],
         \A p \in Peer : Live(p) \subseteq Live(p)',
         \A d \in DOMAIN heap : heap[d].cut => heap'[d].cut,
         \A p \in Peer : js.obj[p].seen = "up" =>
           js'.obj[p].seen = "up" \/ \A d \in Live(p) : heap'[d].cut,
         \A p, c : /\ n + 1 \in DOMAIN js'.ticks /\ js'.ticks[n + 1].kind = "open"
                   /\ js'.ticks[n + 1].peer = p /\ js'.ticks[n + 1].at = c
            => c \in Live(p)' /\ (js'.obj[p].seen = "up" \/ UpTicks(p) # {})
  PROVE  OpenInv'
<1> SUFFICES ASSUME NEW i \in DOMAIN js'.ticks, NEW p, NEW c,
                    js'.ticks[i].kind = "open", js'.ticks[i].peer = p,
                    js'.ticks[i].at = c
             PROVE  OpenAt(i, p, c)'
  BY DEF OpenInv
<1>1. UpTicks(p) \subseteq UpTicks(p)' /\ UpTicks(p) \subseteq 1 .. n
  BY DEF UpTicks
<1>2. CASE i \in 1 .. n
  <2>1. js'.ticks[i] = js.ticks[i] /\ p \in Peer /\ i \in DOMAIN js.ticks
    BY <1>2
  <2>2. OpenAt(i, p, c)
    BY <2>1 DEF OpenInv
  <2>3. c \in Live(p)' /\ c \in DOMAIN heap
    BY <2>1, <2>2 DEF OpenAt, Live
  <2> QED BY <1>1, <2>1, <2>2, <2>3 DEF OpenAt
<1>3. CASE i = n + 1
  <2>1. \A j \in UpTicks(p) : j \in UpTicks(p)' /\ j < i
    BY <1>1, <1>3
  <2>2. c \in Live(p)' /\ (js'.obj[p].seen = "up" \/ UpTicks(p) # {})
    BY <1>3
  <2> QED BY <2>1, <2>2 DEF OpenAt
<1> QED BY <1>2, <1>3

-----------------------------------------------------------------------------
(* A turn of a receive loop that takes no link up: link c of the peer is   *)
(* the one there is in heap h, or a new one, or none is returned; and one  *)
(* more callback waits, if any.                                            *)
TurnLink(s, c, h) ==
  /\ DOMAIN heap \subseteq DOMAIN h /\ \A d \in DOMAIN heap : h[d] = heap[d]
  /\ \A d \in DOMAIN h \ DOMAIN heap :
       d = c /\ ~h[d].up /\ Live(conn[s].peer) = {}
  /\ c = 0 => /\ conn[s].greeted \/ Live(conn[s].peer) = {}
              /\ DOMAIN h = DOMAIN heap
  /\ c # 0 => c \in DOMAIN h /\ h[c].peer = conn[s].peer /\ h[c].frees = 0
TurnTicks(j, n) ==
  /\ j.obj = js.obj /\ j.links = js.links
  /\ DOMAIN js.ticks = 1 .. n
  /\ DOMAIN j.ticks = 1 .. n \/ DOMAIN j.ticks = 1 .. n + 1
  /\ \A i \in 1 .. n : j.ticks[i] = js.ticks[i]
  /\ n + 1 \in DOMAIN j.ticks =>
       /\ j.ticks[n + 1].kind # "up"
       /\ j.ticks[n + 1].kind = "discover" => j.ticks[n + 1].at \in DOMAIN conn
       /\ j.ticks[n + 1].kind = "open" =>
            j.ticks[n + 1].peer \in Peer
            /\ j.ticks[n + 1].at \in UpLinks(j.ticks[n + 1].peer)

(* The first link a connection catches is up exactly if its Link object is *)
(* in _links, so on_link finds nothing to do.                              *)
LEMMA FirstTurn ==
  ASSUME LinksInv, NEW s \in DOMAIN conn, conn[s].open,
         NEW c \in Nat, NEW h \in Seq(LinkRecs), TurnLink(s, c, h),
         c # 0, conn[s].linked = 0
  PROVE  h[c].up <=> h[c].peer \in js.links
<1> USE DEF TurnLink
<1> DEFINE p == conn[s].peer
<1>1. /\ heap \in Seq(LinkRecs) /\ conn \in Seq(ConnRecs) /\ js \in Meshes
      /\ PipeInv /\ OpenInv /\ \A q \in Peer : Registered(q)
      /\ conn[s] \in ConnRecs /\ p \in Peer
  <2>1. /\ heap \in Seq(LinkRecs) /\ conn \in Seq(ConnRecs) /\ js \in Meshes
        /\ PipeInv /\ OpenInv /\ \A q \in Peer : Registered(q)
    BY DEF LinksInv, LinksType
  <2>2. conn[s] \in ConnRecs
    BY <2>1
  <2>3. p \in Peer
    BY <2>2 DEF ConnRecs
  <2> QED BY <2>1, <2>2, <2>3
<1>2. Registered(p)
  BY <1>1
<1>3. ASSUME h[c].up PROVE p \in js.links
  <2>1. c \in Live(p) /\ c \in UpLinks(p)
    BY <1>3 DEF UpLinks, Live
  <2>2. Known(p)
    BY <1>2, <2>1 DEF Registered
  <2>3. CASE js.obj[p].seen = "up"
    BY <1>2, <2>3 DEF Registered
  <2>4. CASE UpTicks(p) # {}
    <3>1. PICK t \in DOMAIN conn : Here(t, p)
      BY <1>2, <2>4 DEF Registered
    <3>2. t = s
      BY <1>1, <3>1 DEF Here, PipeInv
    <3>3. conn[s].linked = c
      BY <1>1, <2>1, <3>1, <3>2 DEF Here, PipeInv, Caught
    <3> QED BY <3>3
  <2> QED BY <2>2, <2>3, <2>4 DEF Known
<1>4. ASSUME p \in js.links PROVE h[c].up
  <2>1. PICK e : e \in UpLinks(p)
    BY <1>2, <1>4 DEF Registered
  <2>2. e \in Live(p) /\ heap[e].up
    BY <2>1 DEF UpLinks
  <2>3. c \in DOMAIN heap
    BY <2>2
  <2>4. e = c
    BY <1>1, <2>2, <2>3 DEF PipeInv, Live
  <2> QED BY <2>2, <2>3, <2>4
<1>5. c # 0 => h[c].peer = p
  OBVIOUS
<1> QED BY <1>3, <1>4, <1>5

(* Such a turn keeps the invariant.                                        *)
LEMMA Turned ==
  ASSUME LinksInv, NEW s \in DOMAIN conn, conn[s].open,
         NEW c \in Nat, NEW h \in Seq(LinkRecs), NEW j \in Meshes,
         Plumbs(s, c, h, j), TurnLink(s, c, h), NEW n \in Nat, TurnTicks(j, n),
         aaa' = aaa, offers' \subseteq offers
  PROVE  LinksInv'
<1> USE DEF TurnLink, TurnTicks, Plumbs
<1> DEFINE p == conn[s].peer
<1>1. /\ heap \in Seq(LinkRecs) /\ conn \in Seq(ConnRecs) /\ js \in Meshes
      /\ PipeInv /\ OpenInv /\ \A q \in Peer : Registered(q)
      /\ conn[s] \in ConnRecs /\ p \in Peer
  <2>1. /\ heap \in Seq(LinkRecs) /\ conn \in Seq(ConnRecs) /\ js \in Meshes
        /\ PipeInv /\ OpenInv /\ \A q \in Peer : Registered(q)
    BY DEF LinksInv, LinksType
  <2>2. conn[s] \in ConnRecs
    BY <2>1
  <2>3. p \in Peer
    BY <2>2 DEF ConnRecs
  <2> QED BY <2>1, <2>2, <2>3
<1>3. Plumbs(s, c, h, j)
  OBVIOUS
<1>4. LinksType'
  <2>1. Len(conn') = Len(conn)
    BY <1>1, <1>3
  <2>2. aaa' \in 0 .. Len(conn')
    BY <2>1 DEF LinksInv, LinksType
  <2>3. \A i \in DOMAIN js'.ticks :
          js'.ticks[i].kind = "discover" => js'.ticks[i].at \in DOMAIN conn'
    <3> SUFFICES ASSUME NEW i \in DOMAIN j.ticks, j.ticks[i].kind = "discover"
                 PROVE  j.ticks[i].at \in DOMAIN conn
      BY <1>3
    <3>1. CASE i \in 1 .. n
      BY <3>1 DEF LinksInv, LinksType
    <3>2. CASE i = n + 1
      BY <3>2
    <3> QED BY <3>1, <3>2
  <2> QED BY <1>3, <2>2, <2>3 DEF LinksInv, LinksType
<1>5. PipeInv'
  <2>1. \A d \in DOMAIN heap :
          /\ heap'[d].peer = heap[d].peer /\ heap'[d].frees = heap[d].frees
          /\ heap'[d].cut = heap[d].cut
          /\ heap'[d].pipe = heap[d].pipe \/ d = c
    BY <1>3
  <2>2. conn[s].linked # 0 =>
          \A d \in DOMAIN heap : heap'[d].pipe = heap[d].pipe
    BY <1>3
  <2>3. c # 0 => /\ c \in DOMAIN heap'
                 /\ heap'[c].peer = conn[s].peer /\ heap'[c].frees = 0
                 /\ conn[s].linked = 0 => heap'[c].pipe = s
    <3> SUFFICES ASSUME c # 0
                 PROVE  /\ c \in DOMAIN heap'
                        /\ heap'[c].peer = conn[s].peer /\ heap'[c].frees = 0
                        /\ conn[s].linked = 0 => heap'[c].pipe = s
      OBVIOUS
    <3>1. c \in DOMAIN h /\ h[c].peer = conn[s].peer /\ h[c].frees = 0
      OBVIOUS
    <3>2. IF c # 0 /\ conn[s].linked = 0 /\ c = c
          THEN heap'[c].pipe = s ELSE heap'[c].pipe = h[c].pipe
      BY <1>3, <3>1
    <3> QED BY <1>3, <3>1, <3>2
  <2>4. conn'[s].last \in {c, conn[s].last}
    BY <1>3
  <2>5. c = 0 => /\ conn[s].greeted \/ Live(conn[s].peer) = {}
                 /\ DOMAIN heap' = DOMAIN heap
    BY <1>3
  <2>6. DOMAIN heap \subseteq DOMAIN heap'
    BY <1>3
  <2>7. \A d \in DOMAIN heap' \ DOMAIN heap : d = c /\ Live(conn[s].peer) = {}
    BY <1>3
  <2>8. /\ PipeInv /\ DOMAIN conn' = DOMAIN conn
        /\ \A t \in DOMAIN conn : t # s => conn'[t] = conn[t]
        /\ conn'[s].peer = conn[s].peer /\ conn'[s].open = conn[s].open
        /\ conn'[s].linked = IF conn[s].linked = 0 THEN c ELSE conn[s].linked
    <3>1. PipeInv
      BY <1>1
    <3> QED BY <1>3, <3>1
  <2>9. PipeGiven(s, c)
    BY <2>1, <2>2, <2>3, <2>5, <2>6, <2>7 DEF PipeGiven
  <2>10. Caughts(s, c)
    BY <2>4, <2>8 DEF Caughts
  <2> QED BY <2>8, <2>9, <2>10, PipeStep
<1>6. ASSUME NEW q \in Peer PROVE UpLinks(q)' = UpLinks(q)
  <2>1. DOMAIN heap \subseteq DOMAIN heap'
    BY <1>3
  <2>2. \A d \in DOMAIN heap :
          /\ heap'[d].peer = heap[d].peer /\ heap'[d].frees = heap[d].frees
          /\ heap[d].peer = q => heap'[d].up = heap[d].up
    BY <1>3
  <2>3. \A d \in DOMAIN heap' \ DOMAIN heap : heap'[d].peer = q => ~heap'[d].up
    BY <1>3
  <2> QED BY <2>1, <2>2, <2>3, UpLinksFrame
<1>7. ASSUME NEW q \in Peer PROVE UpTicks(q)' = UpTicks(q)
  BY <1>3, UpTicksFrame
<1>8. ASSUME NEW q \in Peer PROVE Registered(q)'
  <2>1. Registered(q)
    BY <1>1
  <2>2. \A t \in DOMAIN conn : Here(t, q) => Here(t, q)'
    BY <1>3 DEF Here
  <2>3. \A t \in DOMAIN conn, e \in UpLinks(q) : Serves(t, q, e) => Serves(t, q, e)'
    <3>1. DOMAIN heap = 1 .. Len(heap) /\ Len(heap) \in Nat
      BY <1>1
    <3>2. ASSUME NEW e \in UpLinks(q) PROVE e # 0
      BY <3>1 DEF UpLinks, Live
    <3>3. ASSUME NEW t \in DOMAIN conn, NEW e \in UpLinks(q), Serves(t, q, e)
          PROVE  Serves(t, q, e)'
      <4>1. CASE t = s
        BY <1>3, <3>2, <3>3, <4>1 DEF Serves
      <4>2. CASE t # s
        BY <1>3, <3>3, <4>2 DEF Serves
      <4> QED BY <4>1, <4>2
    <3> QED BY <3>3
  <2>4. \A i, k \in UpTicks(q)' : i = k
    BY <1>7, <2>1 DEF Registered
  <2> QED BY <1>3, <1>6, <1>7, <2>1, <2>2, <2>3, <2>4, RegisteredFrame
<1>9. OpenInv'
  <2>1. \A q \in Peer : Live(q) \subseteq Live(q)'
    BY <1>3 DEF Live
  <2>2. \A d \in DOMAIN heap : heap[d].cut => heap'[d].cut
    BY <1>3
  <2>3. \A i \in 1 .. n : js.ticks[i].peer \in Peer
    BY <1>1, TickPeers
  <2>4. \A q, e : /\ n + 1 \in DOMAIN js'.ticks /\ js'.ticks[n + 1].kind = "open"
                  /\ js'.ticks[n + 1].peer = q /\ js'.ticks[n + 1].at = e
           => e \in Live(q)' /\ (js'.obj[q].seen = "up" \/ UpTicks(q) # {})
    <3> SUFFICES ASSUME NEW q, NEW e, n + 1 \in DOMAIN js'.ticks,
                        js'.ticks[n + 1].kind = "open",
                        js'.ticks[n + 1].peer = q, js'.ticks[n + 1].at = e
                 PROVE  e \in Live(q)' /\ (js'.obj[q].seen = "up" \/ UpTicks(q) # {})
      OBVIOUS
    <3>1. q \in Peer /\ e \in UpLinks(q)
      BY <1>3
    <3>2. e \in Live(q)
      BY <3>1 DEF UpLinks
    <3>3. Known(q)
      BY <1>1, <3>1 DEF Registered
    <3> QED BY <1>3, <2>1, <3>1, <3>2, <3>3 DEF Known
  <2>5. \A q \in Peer : js.obj[q].seen = "up" =>
          js'.obj[q].seen = "up" \/ \A d \in Live(q) : heap'[d].cut
    BY <1>3
  <2>6. /\ DOMAIN js'.ticks = 1 .. n \/ DOMAIN js'.ticks = 1 .. n + 1
        /\ \A i \in 1 .. n : js'.ticks[i] = js.ticks[i]
    BY <1>3
  <2>7. OpenInv
    BY <1>1
  <2> QED BY <2>1, <2>2, <2>3, <2>4, <2>5, <2>6, <2>7, OpenFrame
<1> QED BY <1>4, <1>5, <1>8, <1>9 DEF LinksInv

(* It is what a packet does that takes no link up.                         *)
LEMMA TurnStep ==
  ASSUME LinksInv, NEW s \in DOMAIN conn, conn[s].open,
         NEW c \in Nat, NEW h \in Seq(LinkRecs), NEW j \in Meshes, Plumb(s, c, h, j),
         TurnLink(s, c, h), NEW n \in Nat, TurnTicks(j, n),
         UNCHANGED <<aaa, offers>>
  PROVE  LinksInv'
<1>1. c # 0 /\ conn[s].linked = 0 => (h[c].up <=> h[c].peer \in j.links)
  BY FirstTurn DEF TurnTicks
<1>2. conn \in Seq(ConnRecs)
  BY DEF LinksInv, LinksType
<1>3. c # 0 => c \in DOMAIN h
  BY DEF TurnLink
<1>4. Plumbs(s, c, h, j)
  BY <1>1, <1>2, <1>3, PlumbFacts
<1> QED BY <1>4, Turned

(* No callback more.                                                       *)
LEMMA SameTicks ==
  ASSUME js \in Meshes
  PROVE  TurnTicks(js, Len(js.ticks)) /\ Len(js.ticks) \in Nat
<1>1. js.ticks \in Seq(TickRecs)
  BY DEF Meshes
<1>2. DOMAIN js.ticks = 1 .. Len(js.ticks) /\ Len(js.ticks) \in Nat
  BY <1>1
<1> QED BY <1>2 DEF TurnTicks

(* A 'discover' or an 'open' put behind the others.                        *)
LEMMA OneTick ==
  ASSUME js \in Meshes, NEW kind \in {"discover", "open"}, NEW p \in Peer,
         NEW at \in Nat, kind = "discover" => at \in DOMAIN conn,
         kind = "open" => at \in UpLinks(p)
  PROVE  /\ Tick(js, kind, p, at) \in Meshes /\ Len(js.ticks) \in Nat
         /\ TurnTicks(Tick(js, kind, p, at), Len(js.ticks))
<1> DEFINE j == Tick(js, kind, p, at)
           n == Len(js.ticks)
<1>1. kind \in {"up", "open", "discover"}
  OBVIOUS
<1>2. Ticked(j, js, kind, p, at)
  BY <1>1, TickFacts
<1> HIDE DEF j
<1>3. TurnTicks(j, n)
  BY <1>2 DEF Ticked, TurnTicks
<1> QED BY <1>2, <1>3 DEF j, Ticked

(* mesh_add for a peer that has no link makes one.                         *)
LEMMA LinkMade ==
  ASSUME heap \in Seq(LinkRecs), NEW p \in Peer, LiveIn(heap, p) = 0, NEW h,
         h = Append(heap, CLink(p))
  PROVE  /\ h \in Seq(LinkRecs) /\ LiveIn(h, p) \in Nat /\ LiveIn(h, p) # 0
         /\ DOMAIN h = DOMAIN heap \cup {LiveIn(h, p)}
         /\ LiveIn(h, p) \notin DOMAIN heap
         /\ \A d \in DOMAIN heap : h[d] = heap[d]
         /\ h[LiveIn(h, p)] = CLink(p) /\ Live(p) = {}
<1> DEFINE n == Len(heap)
           c == LiveIn(h, p)
<1>1. CLink(p) \in LinkRecs /\ CLink(p).peer = p /\ CLink(p).frees = 0
  BY DEF CLink, LinkRecs
<1>2. /\ h \in Seq(LinkRecs) /\ Len(h) = n + 1 /\ n \in Nat
      /\ \A i \in 1 .. n : h[i] = heap[i]
      /\ h[n + 1] = CLink(p)
      /\ DOMAIN heap = 1 .. n
  <2> HIDE DEF n
  <2> QED BY <1>1, AppendProperties DEF n
<1>3. DOMAIN h = 1 .. n + 1
  BY <1>2
<1>4. \A d \in DOMAIN heap : ~(heap[d].peer = p /\ heap[d].frees = 0)
  <2>1. IsLive(0, heap, p)
    BY LiveInFacts
  <2> QED BY <2>1 DEF IsLive
<1>5. /\ c # 0 => c \in DOMAIN h /\ h[c].peer = p /\ h[c].frees = 0
      /\ c = 0 => \A d \in DOMAIN h : ~(h[d].peer = p /\ h[d].frees = 0)
  <2>1. h \in Seq(LinkRecs)
    BY <1>2
  <2>2. IsLive(c, h, p)
    BY <2>1, LiveInFacts
  <2> QED BY <2>2 DEF IsLive
<1> HIDE DEF c
<1>6. c # 0
  BY <1>1, <1>2, <1>3, <1>5
<1>7. c = n + 1
  BY <1>2, <1>3, <1>4, <1>5, <1>6
<1>8. Live(p) = {}
  BY <1>4 DEF Live
<1> QED BY <1>2, <1>3, <1>7, <1>8 DEF c

-----------------------------------------------------------------------------
(* What every action needs of the invariant.                               *)
LEMMA LinksFacts ==
  ASSUME LinksInv
  PROVE  /\ heap \in Seq(LinkRecs) /\ conn \in Seq(ConnRecs) /\ js \in Meshes
         /\ DOMAIN heap = 1 .. Len(heap) /\ Len(heap) \in Nat
         /\ DOMAIN conn = 1 .. Len(conn) /\ Len(conn) \in Nat
         /\ PipeInv /\ OpenInv /\ (\A q \in Peer : Registered(q))
         /\ \A s \in DOMAIN conn : conn[s] \in ConnRecs /\ conn[s].peer \in Peer
         /\ \A c \in DOMAIN heap : heap[c] \in LinkRecs
<1>1. /\ heap \in Seq(LinkRecs) /\ conn \in Seq(ConnRecs) /\ js \in Meshes
      /\ PipeInv /\ OpenInv /\ (\A q \in Peer : Registered(q))
  BY DEF LinksInv, LinksType
<1>2. /\ DOMAIN heap = 1 .. Len(heap) /\ Len(heap) \in Nat
      /\ DOMAIN conn = 1 .. Len(conn) /\ Len(conn) \in Nat
  BY <1>1
<1>3. \A s \in DOMAIN conn : conn[s] \in ConnRecs
  BY <1>1
<1>4. \A s \in DOMAIN conn : conn[s].peer \in Peer
  BY <1>3 DEF ConnRecs
<1>5. \A c \in DOMAIN heap : heap[c] \in LinkRecs
  BY <1>1
<1> QED BY <1>1, <1>2, <1>3, <1>4, <1>5

(* The link there is, or none, is one a turn may bring.                    *)
LEMMA SameLink ==
  ASSUME NEW s \in DOMAIN conn, NEW c, IsLive(c, heap, conn[s].peer)
  PROVE  TurnLink(s, c, heap)
BY DEF IsLive, TurnLink, Live

(* So is one that mesh_add makes.                                          *)
LEMMA NewLink ==
  ASSUME heap \in Seq(LinkRecs), NEW s \in DOMAIN conn, conn[s].peer \in Peer,
         LiveIn(heap, conn[s].peer) = 0, NEW h, h = Append(heap, CLink(conn[s].peer))
  PROVE  /\ h \in Seq(LinkRecs) /\ LiveIn(h, conn[s].peer) \in Nat
         /\ LiveIn(h, conn[s].peer) # 0
         /\ TurnLink(s, LiveIn(h, conn[s].peer), h)
<1> DEFINE p == conn[s].peer
           c == LiveIn(h, p)
<1>1. /\ h \in Seq(LinkRecs) /\ c \in Nat /\ c # 0
      /\ DOMAIN h = DOMAIN heap \cup {c} /\ c \notin DOMAIN heap
      /\ \A d \in DOMAIN heap : h[d] = heap[d]
      /\ h[c] = CLink(p) /\ Live(p) = {}
  <2>1. p \in Peer /\ LiveIn(heap, p) = 0 /\ h = Append(heap, CLink(p))
    OBVIOUS
  <2> HIDE DEF p
  <2> QED BY <2>1, LinkMade
<1> HIDE DEF c
<1>2. h[c].peer = p /\ h[c].frees = 0 /\ ~h[c].up
  BY <1>1 DEF CLink
<1>3. TurnLink(s, c, h)
  BY <1>1, <1>2 DEF TurnLink
<1> QED BY <1>1, <1>3 DEF c

(* A greeting keeps the invariant: a welcome peer without a link gets one, *)
(* for others the application may be asked.                                *)
LEMMA DiscoverStep ==
  ASSUME LinksInv, NEW s \in DOMAIN conn, Discover(s)
  PROVE  LinksInv'
<1> DEFINE p == conn[s].peer
           new == Welcome(p) /\ LiveIn(heap, p) = 0
           h == IF new THEN Append(heap, CLink(p)) ELSE heap
           ask1 == aaa # 0 /\ ~Welcome(p) /\ p \notin reject
           j == IF ask1 THEN Tick(js, "discover", p, aaa) ELSE js
           c == LiveIn(h, p)
           n == Len(js.ticks)
<1>1. /\ heap \in Seq(LinkRecs) /\ conn \in Seq(ConnRecs) /\ js \in Meshes
      /\ DOMAIN conn = 1 .. Len(conn) /\ Len(conn) \in Nat /\ p \in Peer
  BY LinksFacts
<1>2. Plumb(s, c, h, j) /\ conn[s].open /\ UNCHANGED <<aaa, offers>>
  BY DEF Discover, Packet
<1>3. h \in Seq(LinkRecs) /\ TurnLink(s, c, h) /\ c \in Nat
  <2>1. CASE new
    <3>1. h = Append(heap, CLink(p)) /\ LiveIn(heap, p) = 0
      BY <2>1
    <3> HIDE DEF h
    <3> QED BY <1>1, <3>1, NewLink
  <2>2. CASE ~new
    <3>1. h = heap
      BY <2>2
    <3>2. IsLive(LiveIn(heap, p), heap, p)
      BY <1>1, LiveInFacts
    <3>3. IsLive(c, heap, p)
      BY <3>1, <3>2
    <3> HIDE DEF c, h
    <3>4. TurnLink(s, c, heap)
      BY <3>3, SameLink
    <3> QED BY <1>1, <3>1, <3>3, <3>4 DEF IsLive
  <2> QED BY <2>1, <2>2
<1>4. j \in Meshes /\ TurnTicks(j, n) /\ n \in Nat
  <2>1. CASE ask1
    <3>1. aaa \in Nat /\ aaa \in DOMAIN conn
      BY <1>1, <2>1 DEF LinksInv, LinksType
    <3>2. j = Tick(js, "discover", p, aaa)
      BY <2>1
    <3> HIDE DEF p, j
    <3> QED BY <1>1, <3>1, <3>2, OneTick
  <2>2. CASE ~ask1
    <3>1. j = js
      BY <2>2
    <3> QED BY <1>1, <3>1, SameTicks
  <2> QED BY <2>1, <2>2
<1> HIDE DEF p, h, j, c, n
<1> QED BY <1>2, <1>3, <1>4, TurnStep

(* A packet of a channel keeps the invariant.                              *)
LEMMA ChannelOpenStep ==
  ASSUME LinksInv, NEW s \in DOMAIN conn, ChannelOpen(s)
  PROVE  LinksInv'
<1> DEFINE p == conn[s].peer
           c == LiveIn(heap, p)
           j == Tick(js, "open", p, c)
           n == Len(js.ticks)
<1>1. heap \in Seq(LinkRecs) /\ js \in Meshes /\ p \in Peer
  BY LinksFacts
<1>2. Plumb(s, c, heap, j) /\ conn[s].open /\ UNCHANGED <<aaa, offers>>
      /\ c # 0 /\ heap[c].up
  BY DEF ChannelOpen, Packet
<1>3. IsLive(c, heap, p)
  BY <1>1, LiveInFacts
<1> HIDE DEF c
<1>4. TurnLink(s, c, heap) /\ c \in Nat /\ c \in UpLinks(p)
  <2>1. TurnLink(s, c, heap)
    BY <1>3, SameLink
  <2> QED BY <1>2, <1>3, <2>1 DEF IsLive, UpLinks, Live
<1>5. j \in Meshes /\ TurnTicks(j, n) /\ n \in Nat
  BY <1>1, <1>4, OneTick
<1> HIDE DEF p, j, n
<1> QED BY <1>1, <1>2, <1>4, <1>5, TurnStep

(* A packet without a link keeps the invariant.                            *)
LEMMA JunkStep ==
  ASSUME LinksInv, NEW s \in DOMAIN conn, Junk(s)
  PROVE  LinksInv'
<1> DEFINE n == Len(js.ticks)
<1>1. heap \in Seq(LinkRecs) /\ js \in Meshes
  BY LinksFacts
<1>2. Plumb(s, 0, heap, js) /\ conn[s].open /\ UNCHANGED <<aaa, offers>> /\ conn[s].greeted
  BY DEF Junk, Packet
<1>3. TurnLink(s, 0, heap)
  BY <1>2 DEF TurnLink
<1>4. TurnTicks(js, n) /\ n \in Nat
  BY <1>1, SameTicks
<1> HIDE DEF n
<1> QED BY <1>1, <1>2, <1>3, <1>4, TurnStep

(* A new connection keeps the invariant: it has caught nothing yet, and    *)
(* there is no other open one to its peer.                                 *)
LEMMA ConnectStep ==
  ASSUME ~Crossed, LinksInv, NEW p \in Peer, NEW kind \in {"frames", "chunks"},
         Connect(p, kind)
  PROVE  LinksInv'
<1> DEFINE m == Len(conn) + 1
           r == [kind |-> kind, peer |-> p, open |-> TRUE, linked |-> 0,
                 last |-> 0, greeted |-> FALSE]
<1>1. /\ heap \in Seq(LinkRecs) /\ conn \in Seq(ConnRecs) /\ js \in Meshes
      /\ DOMAIN conn = 1 .. Len(conn) /\ Len(conn) \in Nat
      /\ PipeInv /\ OpenInv /\ (\A q \in Peer : Registered(q))
  BY LinksFacts
<1>2. /\ r \in ConnRecs /\ r.peer = p /\ r.linked = 0 /\ r.last = 0
      /\ r.greeted = FALSE
  BY DEF ConnRecs
<1>3. conn' = Append(conn, r) /\ UNCHANGED <<heap, js, offers>>
  BY DEF Connect
<1>4. \A t \in DOMAIN conn : conn[t].open => conn[t].peer # p
  BY DEF Connect
<1>5. aaa' \in {m, aaa}
  BY DEF Connect
<1> HIDE DEF r
<1>6. /\ conn' \in Seq(ConnRecs) /\ DOMAIN conn' = 1 .. m /\ Len(conn') = m
      /\ conn'[m] = r
      /\ \A t \in DOMAIN conn : conn'[t] = conn[t]
  <2>1. /\ conn' \in Seq(ConnRecs) /\ Len(conn') = Len(conn) + 1
        /\ \A t \in 1 .. Len(conn) : conn'[t] = conn[t]
        /\ conn'[Len(conn) + 1] = r
    BY <1>1, <1>2, <1>3, AppendProperties
  <2> QED BY <1>1, <2>1
<1> HIDE DEF m
<1>7. m \in Nat /\ m # 0 /\ m \notin DOMAIN conn /\ DOMAIN conn' = DOMAIN conn \cup {m}
  BY <1>1, <1>6 DEF m
<1>8. LinksType'
  <2>1. aaa' \in 0 .. Len(conn')
    <3>1. aaa \in 0 .. Len(conn)
      BY DEF LinksInv, LinksType
    <3> QED BY <1>1, <1>5, <1>6, <3>1 DEF m
  <2>2. /\ \A i \in DOMAIN js.ticks :
             js.ticks[i].kind = "discover" => js.ticks[i].at \in DOMAIN conn
        /\ \A o \in offers : o.peer \in Peer /\ o.at \in DOMAIN conn
    BY DEF LinksInv, LinksType
  <2> QED BY <1>1, <1>3, <1>6, <1>7, <2>1, <2>2 DEF LinksType
<1>9. PipeInv'
  <2>1. ASSUME NEW t \in DOMAIN conn' PROVE Caught(t)'
    <3>1. CASE t = m
      BY <1>2, <1>6, <3>1 DEF Caught
    <3>2. CASE t # m
      <4>1. t \in DOMAIN conn /\ conn'[t] = conn[t] /\ Caught(t)
        BY <1>1, <1>6, <1>7, <3>2 DEF PipeInv
      <4> QED BY <1>3, <4>1 DEF Caught, Live
    <3> QED BY <3>1, <3>2
  <2>2. \A t, u \in DOMAIN conn' :
          conn'[t].open /\ conn'[u].open /\ conn'[t].peer = conn'[u].peer => t = u
    BY <1>1, <1>2, <1>4, <1>6, <1>7, ZenonT(40) DEF PipeInv
  <2>3. \A c, d \in DOMAIN heap' :
          heap'[c].peer = heap'[d].peer /\ heap'[c].frees = 0 /\ heap'[d].frees = 0 => c = d
    BY <1>1, <1>3 DEF PipeInv
  <2> QED BY <2>1, <2>2, <2>3 DEF PipeInv
<1>10. ASSUME NEW q \in Peer PROVE Registered(q)'
  <2>1. Registered(q)
    BY <1>1
  <2>2. UpLinks(q)' = UpLinks(q) /\ UpTicks(q)' = UpTicks(q) /\ js' = js
    BY <1>3 DEF UpLinks, Live, UpTicks
  <2>3. \A i, j \in UpTicks(q)' : i = j
    BY <2>1, <2>2 DEF Registered
  <2>4. \A t \in DOMAIN conn : Here(t, q) => Here(t, q)'
    BY <1>6 DEF Here
  <2>5. \A t \in DOMAIN conn, c \in UpLinks(q) : Serves(t, q, c) => Serves(t, q, c)'
    BY <1>6 DEF Serves
  <2> QED BY <1>7, <2>1, <2>2, <2>3, <2>4, <2>5, RegisteredFrame
<1>11. OpenInv'
  BY <1>1, <1>3 DEF OpenInv, OpenAt, Live, UpTicks
<1> QED BY <1>8, <1>9, <1>10, <1>11 DEF LinksInv

(* A handshake keeps the invariant: a link that comes up was caught by the *)
(* connection with the greeting, and its Link object will emit 'up'.       *)
LEMMA HandshakeStep ==
  ASSUME LinksInv, NEW s \in DOMAIN conn, Handshake(s)
  PROVE  LinksInv'
<1> SUFFICES ASSUME NEW p, p = conn[s].peer,
                    NEW c, c = LiveIn(heap, p),
                    NEW h, h = [heap EXCEPT ![c].up = TRUE],
                    NEW j, j = IF heap[c].up THEN js ELSE OnLink(js, h, c)
             PROVE  LinksInv'
  OBVIOUS
<1>1. /\ heap \in Seq(LinkRecs) /\ conn \in Seq(ConnRecs) /\ js \in Meshes
      /\ DOMAIN heap = 1 .. Len(heap) /\ Len(heap) \in Nat
      /\ PipeInv /\ OpenInv /\ (\A q \in Peer : Registered(q)) /\ p \in Peer
  BY LinksFacts
<1>2. /\ Plumb(s, c, h, j) /\ conn[s].open /\ UNCHANGED <<aaa, offers>>
      /\ c # 0 /\ conn[s].greeted
  BY DEF Handshake, Packet
<1>3. IsLive(c, heap, p) /\ c \in Live(p) /\ c \in DOMAIN heap /\ c \in Nat
  <2>1. IsLive(c, heap, p)
    BY <1>1, LiveInFacts
  <2> QED BY <1>2, <2>1 DEF IsLive, Live
<1>4. CASE heap[c].up
  <2>1. heap[c] \in LinkRecs
    BY <1>1, <1>3
  <2>2. heap[c].up = TRUE
    BY <1>4, <2>1 DEF LinkRecs
  <2>3. [heap[c] EXCEPT !.up = TRUE] = heap[c]
    BY <2>1, <2>2 DEF LinkRecs
  <2>4. h = heap
    BY <1>1, <1>3, <2>3
  <2>5. j = js
    BY <1>4
  <2>6. TurnLink(s, c, heap)
    BY <1>3, SameLink
  <2>7. TurnTicks(js, Len(js.ticks)) /\ Len(js.ticks) \in Nat
    BY <1>1, SameTicks
  <2> QED BY <1>1, <1>2, <1>3, <2>4, <2>5, <2>6, <2>7, TurnStep
<1>5. CASE ~heap[c].up
  <2> DEFINE n == Len(js.ticks)
  <2>1. UpLinks(p) = {}
    BY <1>1, <1>3, <1>5 DEF UpLinks, Live, PipeInv
  <2>2. p \notin js.links /\ UpTicks(p) = {} /\ js.obj[p].seen # "up"
    BY <1>1, <2>1 DEF Registered
  <2>3. conn[s].linked = c
    BY <1>1, <1>2, <1>3 DEF PipeInv, Caught
  <2>4. heap[c] \in LinkRecs
    BY <1>1, <1>3
  <2>5. /\ [heap[c] EXCEPT !.up = TRUE] \in LinkRecs
        /\ [heap[c] EXCEPT !.up = TRUE].up = TRUE
        /\ [heap[c] EXCEPT !.up = TRUE].peer = heap[c].peer
        /\ [heap[c] EXCEPT !.up = TRUE].pipe = heap[c].pipe
        /\ [heap[c] EXCEPT !.up = TRUE].cut = heap[c].cut
        /\ [heap[c] EXCEPT !.up = TRUE].frees = heap[c].frees
    BY <2>4 DEF LinkRecs
  <2>6. /\ h \in Seq(LinkRecs) /\ DOMAIN h = DOMAIN heap
        /\ \A d \in DOMAIN heap : d # c => h[d] = heap[d]
        /\ h[c].up = TRUE /\ h[c].peer = heap[c].peer /\ h[c].pipe = heap[c].pipe
        /\ h[c].cut = heap[c].cut /\ h[c].frees = heap[c].frees
    <3> DEFINE r == [heap[c] EXCEPT !.up = TRUE]
    <3>1. h = [heap EXCEPT ![c] = r]
      OBVIOUS
    <3>2. r \in LinkRecs
      BY <2>5
    <3> HIDE DEF r
    <3>3. h \in Seq(LinkRecs) /\ DOMAIN h = DOMAIN heap
      BY <1>1, <1>3, <3>1, <3>2
    <3>4. h[c] = r /\ \A d \in DOMAIN heap : d # c => h[d] = heap[d]
      BY <1>1, <1>3, <3>1
    <3> QED BY <2>5, <3>3, <3>4 DEF r
  <2>7. heap[c].peer = p
    BY <1>3 DEF Live
  <2>8. j = OnLink(js, h, c)
    BY <1>5
  <2>9. CameUp(j, js, p, c)
    <3>1. h[c].peer \in Peer /\ h[c].up /\ h[c].peer \notin js.links
      BY <1>1, <2>2, <2>6, <2>7
    <3>2. CameUp(OnLink(js, h, c), js, h[c].peer, c)
      BY <1>1, <1>3, <3>1, OnLinkUp
    <3> QED BY <2>6, <2>7, <2>8, <3>2
  <2>10. Plumbs(s, c, h, j)
    <3>1. j \in Meshes
      BY <2>9 DEF CameUp
    <3>2. c \in DOMAIN h /\ conn[s].linked # 0
      BY <1>2, <1>3, <2>3, <2>6
    <3> QED BY <1>1, <1>2, <1>3, <2>6, <3>1, <3>2, PlumbFacts
  <2>11. \A d \in DOMAIN heap :
           /\ heap'[d].peer = heap[d].peer /\ heap'[d].frees = heap[d].frees
           /\ heap'[d].cut = heap[d].cut /\ heap'[d].pipe = heap[d].pipe
           /\ d # c => heap'[d].up = heap[d].up
    <3> SUFFICES ASSUME NEW d \in DOMAIN heap
                 PROVE  /\ heap'[d].peer = heap[d].peer /\ heap'[d].frees = heap[d].frees
                        /\ heap'[d].cut = heap[d].cut /\ heap'[d].pipe = heap[d].pipe
                        /\ d # c => heap'[d].up = heap[d].up
      OBVIOUS
    <3>1. conn[s].linked # 0 /\ d \in DOMAIN h
      BY <1>2, <2>3, <2>6
    <3>2. /\ heap'[d].peer = h[d].peer /\ heap'[d].up = h[d].up
          /\ heap'[d].cut = h[d].cut /\ heap'[d].frees = h[d].frees
          /\ heap'[d].pipe = h[d].pipe
      BY <2>10, <3>1 DEF Plumbs
    <3> QED BY <2>6, <3>2
  <2>12. /\ DOMAIN heap' = DOMAIN heap /\ heap' \in Seq(LinkRecs) /\ heap'[c].up
         /\ conn' \in Seq(ConnRecs) /\ DOMAIN conn' = DOMAIN conn /\ js' = j
         /\ conn'[s].peer = p /\ conn'[s].open /\ conn'[s].greeted
         /\ conn'[s].linked = c
         /\ \A t \in DOMAIN conn : t # s => conn'[t] = conn[t]
    BY <1>2, <1>3, <2>3, <2>6, <2>10 DEF Plumbs
  <2>13. /\ DOMAIN js'.ticks = 1 .. n + 1 /\ DOMAIN js.ticks = 1 .. n /\ n \in Nat
         /\ \A i \in 1 .. n : js'.ticks[i] = js.ticks[i]
         /\ js'.ticks[n + 1].kind = "up" /\ js'.ticks[n + 1].peer = p
    BY <2>9, <2>12 DEF CameUp
  <2> HIDE DEF n
  <2>14. \A i \in DOMAIN js'.ticks : i = n + 1 \/
           (i \in DOMAIN js.ticks /\ js'.ticks[i] = js.ticks[i])
    BY <2>13
  <2>15. LinksType'
    <3>1. Len(conn') = Len(conn)
      BY <1>1, <2>12
    <3>2. aaa' \in 0 .. Len(conn')
      BY <1>2, <3>1 DEF LinksInv, LinksType
    <3>3. ASSUME NEW i \in DOMAIN js'.ticks, js'.ticks[i].kind = "discover"
          PROVE  js'.ticks[i].at \in DOMAIN conn
      <4>1. i \in DOMAIN js.ticks /\ js'.ticks[i] = js.ticks[i]
        BY <2>13, <2>14, <3>3
      <4> QED BY <3>3, <4>1 DEF LinksInv, LinksType
    <3>4. \A o \in offers' : o.peer \in Peer /\ o.at \in DOMAIN conn'
      BY <1>2, <2>12 DEF LinksInv, LinksType
    <3>5. j \in Meshes
      BY <2>9 DEF CameUp
    <3> QED BY <2>12, <3>2, <3>3, <3>4, <3>5 DEF LinksType
  <2>16. PipeInv'
    <3>1. PipeGiven(s, c)
      BY <1>2, <1>3, <2>3, <2>11, <2>12 DEF PipeGiven, Live
    <3>2. Caughts(s, c)
      BY <1>2, <2>3, <2>10, <2>12 DEF Caughts, Plumbs
    <3> QED BY <1>1, <1>2, <3>1, <3>2, PipeStep
  <2>17. UpTicks(p)' = {n + 1}
    <3>1. n + 1 \in UpTicks(p)'
      BY <2>13 DEF UpTicks
    <3>2. ASSUME NEW i \in UpTicks(p)' PROVE i = n + 1
      BY <2>2, <2>14 DEF UpTicks
    <3> QED BY <3>1, <3>2
  <2>18. UpLinks(p)' = {c}
    <3>1. \A d \in Live(p) : d = c
      BY <1>1, <1>3 DEF Live, PipeInv
    <3> QED BY <1>3, <2>11, <2>12, <3>1 DEF UpLinks, Live
  <2>19. Registered(p)'
    <3>1. js'.obj[p].c = c /\ js'.obj[p].seen # "up"
      BY <2>2, <2>9, <2>12 DEF CameUp
    <3>2. Here(s, p)' /\ Serves(s, p, c)' /\ s \in DOMAIN conn'
      BY <2>12 DEF Here, Serves
    <3>3. Known(p)'
      BY <2>17 DEF Known
    <3> HIDE DEF n
    <3> QED BY <2>17, <2>18, <3>1, <3>2, <3>3 DEF Registered
  <2>20. ASSUME NEW q \in Peer, q # p PROVE Registered(q)'
    <3>1. Registered(q)
      BY <1>1
    <3>2. js'.obj[q] = js.obj[q] /\ (q \in js'.links <=> q \in js.links)
      BY <2>9, <2>12, <2>20 DEF CameUp
    <3>3. UpTicks(q)' = UpTicks(q)
      BY <2>20, <2>13, UpTicksFrame
    <3>4. UpLinks(q)' = UpLinks(q)
      BY <2>7, <2>11, <2>12, <2>20 DEF UpLinks, Live
    <3>5. \A t \in DOMAIN conn : Here(t, q) => Here(t, q)'
      BY <2>12, <2>20 DEF Here
    <3>6. \A t \in DOMAIN conn, d \in UpLinks(q) : Serves(t, q, d) => Serves(t, q, d)'
      BY <2>12, <2>20 DEF Serves
    <3>7. \A i, k \in UpTicks(q)' : i = k
      BY <3>1, <3>3 DEF Registered
    <3> QED BY <2>12, <3>1, <3>2, <3>3, <3>4, <3>5, <3>6, <3>7, RegisteredFrame
  <2>21. OpenInv'
    <3>1. \A q \in Peer : Live(q) \subseteq Live(q)'
      BY <2>11, <2>12 DEF Live
    <3>2. \A d \in DOMAIN heap : heap[d].cut => heap'[d].cut
      BY <2>11
    <3>3. \A i \in 1 .. n : js.ticks[i].peer \in Peer
      BY <1>1, <2>13, TickPeers
    <3>4. \A q \in Peer : js.obj[q].seen = "up" =>
            js'.obj[q].seen = "up" \/ \A d \in Live(q) : heap'[d].cut
      BY <2>2, <2>9, <2>12 DEF CameUp
    <3> QED BY <1>1, <2>13, <3>1, <3>2, <3>3, <3>4, OpenFrame
  <2> QED BY <2>15, <2>16, <2>19, <2>20, <2>21 DEF LinksInv
<1> QED BY <1>4, <1>5

(* Nothing the invariant speaks of changes, but for callbacks of           *)
(* 'discover' events.                                                      *)
LEMMA LinksStutter ==
  ASSUME LinksInv, UNCHANGED <<heap, conn, aaa, js>>, offers' \subseteq offers
  PROVE  LinksInv'
<1>1. LinksType'
  BY DEF LinksInv, LinksType
<1>2. PipeInv'
  BY DEF LinksInv, PipeInv, Caught, Live
<1>3. \A q \in Peer : Registered(q)'
  BY DEF LinksInv, Registered, Known, UpTicks, UpLinks, Live, Here, Serves
<1>4. OpenInv'
  BY DEF LinksInv, OpenInv, OpenAt, UpTicks, Live
<1> QED BY <1>1, <1>2, <1>3, <1>4 DEF LinksInv

(* The next callback of nextTick keeps the invariant: an 'up' was the only *)
(* one of its Link object, and the ones behind move up.                    *)
LEMMA NextTickStep ==
  ASSUME LinksInv, NextTick
  PROVE  LinksInv'
<1> DEFINE t == js.ticks[1]
           n == Len(js.ticks)
           up == t.kind = "up"
<1>1. /\ heap \in Seq(LinkRecs) /\ conn \in Seq(ConnRecs) /\ js \in Meshes
      /\ PipeInv /\ OpenInv /\ (\A q \in Peer : Registered(q))
  BY LinksFacts
<1>2. /\ js.ticks \in Seq(TickRecs) /\ js.links \in SUBSET Peer
      /\ js.obj \in [Peer -> ObjRecs] /\ js.dead \in SUBSET Peer
  BY <1>1 DEF Meshes
<1>3. UNCHANGED <<heap, conn, aaa>> /\ js.ticks # <<>>
  BY DEF NextTick
<1>4. n \in Nat /\ n # 0 /\ DOMAIN js.ticks = 1 .. n /\ t \in TickRecs /\ t = Head(js.ticks)
  BY <1>2, <1>3
<1>5. t.peer \in Peer /\ t.at \in Nat
  BY <1>4 DEF TickRecs
<1>6. /\ Tail(js.ticks) \in Seq(TickRecs)
      /\ DOMAIN Tail(js.ticks) = 1 .. n - 1
      /\ \A i \in 1 .. n - 1 : Tail(js.ticks)[i] = js.ticks[i + 1]
  <2>1. Tail(js.ticks) \in Seq(TickRecs) /\ Len(Tail(js.ticks)) = n - 1
    BY <1>2, <1>3, <1>4
  <2>2. \A i \in 1 .. n - 1 : Tail(js.ticks)[i] = js.ticks[i + 1]
    BY <1>2, <1>3, <1>4
  <2> QED BY <2>1, <2>2
<1> DEFINE q0 == Tail(js.ticks)
           p == t.peer
           ob == [js.obj EXCEPT ![p].seen = "up"]
<1>7. /\ ob \in [Peer -> ObjRecs] /\ ob[p].seen = "up" /\ ob[p].c = js.obj[p].c
      /\ \A q \in Peer : q # p => ob[q] = js.obj[q]
  <2> DEFINE r == [js.obj[p] EXCEPT !.seen = "up"]
  <2>1. js.obj[p] \in ObjRecs
    BY <1>2, <1>5
  <2>2. r \in ObjRecs /\ r.seen = "up" /\ r.c = js.obj[p].c
    BY <2>1 DEF ObjRecs
  <2>3. ob = [js.obj EXCEPT ![p] = r]
    OBVIOUS
  <2> HIDE DEF r, ob, p
  <2>4. p \in Peer
    BY <1>5 DEF p
  <2> QED BY <1>2, <2>2, <2>3, <2>4
<1>8. js' = IF up THEN [js EXCEPT !.ticks = q0, !.links = @ \cup {p}, !.obj = ob]
            ELSE [js EXCEPT !.ticks = q0]
  BY <1>1, <1>4 DEF NextTick, Meshes
<1> HIDE DEF q0, ob
<1>9. /\ js' \in Meshes /\ js'.ticks = q0
      /\ js'.links = IF up THEN js.links \cup {p} ELSE js.links
      /\ js'.obj = IF up THEN ob ELSE js.obj
  <2>1. q0 \in Seq(TickRecs)
    BY <1>6 DEF q0
  <2>2. js.links \cup {p} \in SUBSET Peer
    BY <1>2, <1>5
  <2>3. CASE up
    BY <1>1, <1>7, <1>8, <2>1, <2>2, <2>3 DEF Meshes
  <2>4. CASE ~up
    BY <1>1, <1>8, <2>1, <2>4 DEF Meshes
  <2> QED BY <2>3, <2>4
<1>10. /\ DOMAIN js'.ticks = 1 .. n - 1
       /\ \A i \in 1 .. n - 1 : js'.ticks[i] = js.ticks[i + 1]
  BY <1>6, <1>9 DEF q0
<1>11. LinksType'
  <2>1. ASSUME NEW i \in DOMAIN js'.ticks, js'.ticks[i].kind = "discover"
        PROVE  js'.ticks[i].at \in DOMAIN conn
    <3>1. i + 1 \in DOMAIN js.ticks /\ js'.ticks[i] = js.ticks[i + 1]
      BY <1>4, <1>10
    <3> QED BY <2>1, <3>1 DEF LinksInv, LinksType
  <2>2. ASSUME NEW o \in offers' PROVE o.peer \in Peer /\ o.at \in DOMAIN conn
    <3>1. CASE o \in offers
      BY <3>1 DEF LinksInv, LinksType
    <3>2. CASE o \notin offers
      <4>1. t.kind = "discover" /\ o = [peer |-> t.peer, at |-> t.at]
        BY <1>4, <2>2, <3>2 DEF NextTick
      <4>2. t.at \in DOMAIN conn
        BY <1>4, <4>1 DEF LinksInv, LinksType
      <4> QED BY <1>5, <4>1, <4>2
    <3> QED BY <3>1, <3>2
  <2> QED BY <1>3, <1>9, <2>1, <2>2 DEF LinksInv, LinksType
<1>12. PipeInv'
  BY <1>1, <1>3 DEF PipeInv, Caught, Live
<1>13. ASSUME NEW q
       PROVE  /\ \A i \in UpTicks(q)' : i + 1 \in UpTicks(q) /\ i \in Nat
              /\ \A i \in UpTicks(q) : i \in Nat /\ (i # 1 => i - 1 \in UpTicks(q)')
  <2>1. ASSUME NEW i \in UpTicks(q)' PROVE i + 1 \in UpTicks(q) /\ i \in Nat
    BY <1>4, <1>10 DEF UpTicks
  <2>2. ASSUME NEW i \in UpTicks(q), i # 1 PROVE i - 1 \in UpTicks(q)'
    <3>1. i - 1 \in 1 .. n - 1 /\ (i - 1) + 1 = i
      BY <1>4, <2>2 DEF UpTicks
    <3>2. js'.ticks[i - 1] = js.ticks[i]
      BY <1>10, <3>1
    <3> QED BY <1>10, <2>2, <3>1, <3>2 DEF UpTicks
  <2>3. ASSUME NEW i \in UpTicks(q) PROVE i \in Nat
    BY <1>4 DEF UpTicks
  <2> QED BY <2>1, <2>2, <2>3
<1>14. \A q : UpLinks(q)' = UpLinks(q) /\ Live(q)' = Live(q)
  BY <1>3 DEF UpLinks, Live
<1>15. ASSUME NEW q \in Peer PROVE Registered(q)'
  <2>1. Registered(q)
    BY <1>1
  <2>2. \A i, k \in UpTicks(q)' : i = k
    <3> SUFFICES ASSUME NEW i \in UpTicks(q)', NEW k \in UpTicks(q)' PROVE i = k
      OBVIOUS
    <3>1. i + 1 = k + 1 /\ i \in Nat /\ k \in Nat
      BY <1>13, <2>1 DEF Registered
    <3> QED BY <3>1
  <2>3. \A s \in DOMAIN conn : Here(s, q) => Here(s, q)'
    BY <1>3 DEF Here
  <2>4. \A s \in DOMAIN conn : \A c : Serves(s, q, c) => Serves(s, q, c)'
    BY <1>3 DEF Serves
  <2>5. CASE up /\ p = q
    <3>1. 1 \in UpTicks(q)
      BY <1>4, <2>5 DEF UpTicks
    <3>2. UpTicks(q)' = {}
      <4> SUFFICES ASSUME NEW i \in UpTicks(q)' PROVE FALSE
        OBVIOUS
      <4>1. i + 1 = 1 /\ i \in Nat /\ i \in DOMAIN js'.ticks
        BY <1>13, <2>1, <3>1 DEF Registered, UpTicks
      <4> QED BY <1>10, <4>1
    <3>3. js'.obj[q].seen = "up" /\ js'.obj[q].c = js.obj[q].c /\ q \in js'.links
      BY <1>7, <1>9, <2>5
    <3>4. UpLinks(q)' # {} /\ \A c \in UpLinks(q)' :
            js.obj[q].c = c /\ \E s \in DOMAIN conn : Serves(s, q, c)
      BY <1>14, <2>1, <3>1 DEF Registered
    <3>5. \A c \in UpLinks(q)' : \E s \in DOMAIN conn' : Serves(s, q, c)'
      BY <1>3, <2>4, <3>4
    <3> QED BY <3>2, <3>3, <3>4, <3>5 DEF Registered, Known
  <2>6. CASE ~(up /\ p = q)
    <3>1. 1 \notin UpTicks(q)
      BY <2>6 DEF UpTicks
    <3>2. UpTicks(q)' # {} <=> UpTicks(q) # {}
      BY <1>13, <3>1
    <3>3. js'.obj[q].seen = js.obj[q].seen /\ js'.obj[q].c = js.obj[q].c
      BY <1>7, <1>9, <2>6
    <3>4. q \in js'.links <=> q \in js.links
      BY <1>9, <2>6
    <3> QED BY <1>3, <1>14, <2>1, <2>2, <2>3, <2>4, <3>2, <3>3, <3>4, RegisteredFrame
  <2> QED BY <2>5, <2>6
<1>16. OpenInv'
  <2> SUFFICES ASSUME NEW i \in DOMAIN js'.ticks, NEW q, NEW c,
                      js'.ticks[i].kind = "open", js'.ticks[i].peer = q,
                      js'.ticks[i].at = c
               PROVE  OpenAt(i, q, c)'
    BY DEF OpenInv
  <2>1. /\ i + 1 \in DOMAIN js.ticks /\ js'.ticks[i] = js.ticks[i + 1]
        /\ i \in Nat
    BY <1>4, <1>10
  <2>2. OpenAt(i + 1, q, c)
    BY <1>1, <2>1 DEF OpenInv
  <2>3. q \in Peer
    BY <1>1, <2>1, TickPeers
  <2>4. c \in Live(q)' /\ heap' = heap
    BY <1>3, <1>14, <2>2 DEF OpenAt
  <2>5. ASSUME js.obj[q].seen = "up" PROVE js'.obj[q].seen = "up"
    BY <1>7, <1>9, <2>3, <2>5
  <2>6. ASSUME NEW k \in UpTicks(q), k < i + 1
        PROVE  js'.obj[q].seen = "up" \/ \E m \in UpTicks(q)' : m < i
    <3>1. CASE k = 1
      <4>1. up /\ p = q
        BY <3>1 DEF UpTicks
      <4> QED BY <1>7, <1>9, <4>1
    <3>2. CASE k # 1
      <4>1. k - 1 \in UpTicks(q)' /\ k \in Nat
        BY <1>13, <3>2
      <4>2. k - 1 < i
        BY <2>1, <2>6, <4>1
      <4> QED BY <4>1, <4>2
    <3> QED BY <3>1, <3>2
  <2> QED BY <2>2, <2>4, <2>5, <2>6 DEF OpenAt
<1> QED BY <1>11, <1>12, <1>15, <1>16 DEF LinksInv

(* The callback of a 'discover' event keeps the invariant: the connection  *)
(* it was for is still open, and catches the link there is by then, or a   *)
(* new one, unless it has one.                                             *)
LEMMA TakeOfferStep ==
  ASSUME ~Astray, LinksInv, NEW o \in offers, NEW good \in BOOLEAN, TakeOffer(o, good)
  PROVE  LinksInv'
<1> SUFFICES ASSUME NEW s, s = o.at, NEW h,
                    h = IF LiveIn(heap, o.peer) = 0 THEN Append(heap, CLink(o.peer))
                        ELSE heap,
                    NEW c, c = LiveIn(h, o.peer)
             PROVE  LinksInv'
  OBVIOUS
<1>1. /\ heap \in Seq(LinkRecs) /\ conn \in Seq(ConnRecs) /\ js \in Meshes
      /\ DOMAIN conn = 1 .. Len(conn) /\ Len(conn) \in Nat /\ PipeInv
  BY LinksFacts
<1>2. s \in DOMAIN conn
  BY DEF LinksInv, LinksType
<1>3. /\ conn[s].open /\ conn[s].peer = o.peer
      /\ aaa' = aaa /\ offers' \subseteq offers
  BY DEF TakeOffer
<1>4. conn[s].peer \in Peer /\ conn[s] \in ConnRecs
  BY <1>2, LinksFacts
<1>5. CASE ~good
  <2>1. UNCHANGED <<heap, conn, aaa, js>>
    BY <1>5 DEF TakeOffer
  <2> QED BY <1>3, <2>1, LinksStutter
<1>6. CASE good /\ conn[s].linked # 0
  <2>1. /\ conn[s].linked \in DOMAIN heap /\ heap[conn[s].linked].peer = conn[s].peer
        /\ heap[conn[s].linked].frees = 0
    BY <1>1, <1>2, <1>3, <1>6 DEF PipeInv, Caught
  <2>2. IsLive(LiveIn(heap, o.peer), heap, o.peer)
    BY <1>1, LiveInFacts
  <2>3. LiveIn(heap, o.peer) # 0
    BY <1>3, <2>1, <2>2 DEF IsLive
  <2>4. UNCHANGED <<heap, conn, aaa, js>>
    BY <1>6, <2>3 DEF TakeOffer
  <2> QED BY <1>3, <2>4, LinksStutter
<1>7. CASE good /\ conn[s].linked = 0
  <2>1. h \in Seq(LinkRecs) /\ c \in Nat /\ c # 0 /\ TurnLink(s, c, h)
    <3>1. CASE LiveIn(heap, o.peer) = 0
      <4>1. LiveIn(heap, conn[s].peer) = 0 /\ h = Append(heap, CLink(conn[s].peer))
        BY <1>3, <3>1
      <4>2. c = LiveIn(h, conn[s].peer)
        BY <1>3
      <4> QED BY <1>1, <1>2, <1>4, <4>1, <4>2, NewLink
    <3>2. CASE LiveIn(heap, o.peer) # 0
      <4>1. h = heap /\ c = LiveIn(heap, conn[s].peer) /\ c # 0
        BY <1>3, <3>2
      <4>2. IsLive(LiveIn(heap, conn[s].peer), heap, conn[s].peer)
        BY <1>1, LiveInFacts
      <4>3. IsLive(c, heap, conn[s].peer)
        BY <4>1, <4>2
      <4>4. TurnLink(s, c, heap)
        BY <1>2, <4>3, SameLink
      <4> QED BY <1>1, <4>1, <4>3, <4>4 DEF IsLive
    <3> QED BY <3>1, <3>2
  <2>2. c \in DOMAIN h /\ h[c] \in LinkRecs
    <3>1. c \in DOMAIN h
      BY <2>1 DEF TurnLink
    <3> QED BY <2>1, <3>1
  <2>3. /\ conn' = [conn EXCEPT ![s].linked = c]
        /\ heap' = [h EXCEPT ![c].pipe = s]
        /\ js' = OnLink(js, h, c)
    BY <1>7 DEF TakeOffer
  <2>4. js' = js
    <3>1. h[c].up <=> h[c].peer \in js.links
      BY <1>2, <1>3, <1>7, <2>1, FirstTurn
    <3>2. h[c].up \in BOOLEAN
      BY <2>2 DEF LinkRecs
    <3>3. OnLink(js, h, c) = js
      BY <3>1, <3>2 DEF OnLink
    <3> QED BY <2>3, <3>3
  <2>5. /\ conn' \in Seq(ConnRecs) /\ DOMAIN conn' = DOMAIN conn
        /\ \A t \in DOMAIN conn : t # s => conn'[t] = conn[t]
        /\ conn'[s].kind = conn[s].kind /\ conn'[s].peer = conn[s].peer
        /\ conn'[s].open = conn[s].open /\ conn'[s].greeted = conn[s].greeted
        /\ conn'[s].last = conn[s].last /\ conn'[s].linked = c
    <3> DEFINE r == [conn[s] EXCEPT !.linked = c]
    <3>1. /\ r \in ConnRecs /\ r.kind = conn[s].kind /\ r.peer = conn[s].peer
          /\ r.open = conn[s].open /\ r.greeted = conn[s].greeted
          /\ r.last = conn[s].last /\ r.linked = c
      BY <1>4, <2>1 DEF ConnRecs
    <3>2. conn' = [conn EXCEPT ![s] = r]
      BY <2>3
    <3> HIDE DEF r
    <3>3. conn' \in Seq(ConnRecs) /\ DOMAIN conn' = DOMAIN conn
      BY <1>1, <1>2, <3>1, <3>2
    <3>4. conn'[s] = r /\ \A t \in DOMAIN conn : t # s => conn'[t] = conn[t]
      BY <1>1, <1>2, <3>2
    <3> QED BY <3>1, <3>3, <3>4
  <2>6. /\ heap' \in Seq(LinkRecs) /\ DOMAIN heap' = DOMAIN h
        /\ \A d \in DOMAIN h : d # c => heap'[d] = h[d]
        /\ heap'[c].peer = h[c].peer /\ heap'[c].up = h[c].up
        /\ heap'[c].cut = h[c].cut /\ heap'[c].frees = h[c].frees /\ heap'[c].pipe = s
    <3> DEFINE r == [h[c] EXCEPT !.pipe = s]
    <3>1. s \in Nat
      BY <1>1, <1>2
    <3>2. /\ r \in LinkRecs /\ r.peer = h[c].peer /\ r.up = h[c].up
          /\ r.cut = h[c].cut /\ r.frees = h[c].frees /\ r.pipe = s
      BY <2>2, <3>1 DEF LinkRecs
    <3>3. heap' = [h EXCEPT ![c] = r]
      BY <2>3
    <3> HIDE DEF r
    <3>4. heap' \in Seq(LinkRecs) /\ DOMAIN heap' = DOMAIN h
      BY <2>1, <2>2, <3>2, <3>3
    <3>5. heap'[c] = r /\ \A d \in DOMAIN h : d # c => heap'[d] = h[d]
      BY <2>1, <2>2, <3>3
    <3> QED BY <3>2, <3>4, <3>5
  <2>7. Plumbs(s, c, h, js)
    <3>1. ASSUME NEW d \in DOMAIN h
          PROVE  /\ heap'[d].peer = h[d].peer /\ heap'[d].up = h[d].up
                 /\ heap'[d].cut = h[d].cut /\ heap'[d].frees = h[d].frees
                 /\ IF c # 0 /\ conn[s].linked = 0 /\ d = c
                    THEN heap'[d].pipe = s ELSE heap'[d].pipe = h[d].pipe
      BY <1>7, <2>1, <2>6
    <3>2. conn'[s].linked = IF conn[s].linked = 0 THEN c ELSE conn[s].linked
      BY <1>7, <2>5
    <3> QED BY <2>4, <2>5, <2>6, <3>1, <3>2 DEF Plumbs
  <2>8. TurnTicks(js, Len(js.ticks)) /\ Len(js.ticks) \in Nat
    BY <1>1, SameTicks
  <2> QED BY <1>1, <1>2, <1>3, <2>1, <2>7, <2>8, Turned
<1> QED BY <1>5, <1>6, <1>7

(* The exported link_down keeps the invariant: it cuts the one C link of   *)
(* the peer, and its Link object goes out of _links.                       *)
LEMMA AppDownStep ==
  ASSUME LinksInv, NEW p \in Peer, AppDown(p)
  PROVE  LinksInv'
<1> SUFFICES ASSUME NEW c, c = js.obj[p].c
             PROVE  LinksInv'
  OBVIOUS
<1>1. /\ heap \in Seq(LinkRecs) /\ conn \in Seq(ConnRecs) /\ js \in Meshes
      /\ PipeInv /\ OpenInv /\ (\A q \in Peer : Registered(q))
  BY LinksFacts
<1>2. /\ UNCHANGED <<conn, aaa, offers>> /\ p \in js.links /\ js.obj[p].seen = "up"
      /\ heap' = [heap EXCEPT ![c].up = FALSE, ![c].pipe = 0, ![c].cut = TRUE]
      /\ js' = OnLink([js EXCEPT !.obj[p].seen = "down"], heap', c)
  BY DEF AppDown
<1>3. c \in UpLinks(p) /\ c \in Live(p) /\ c \in DOMAIN heap /\ heap[c].peer = p
  <2>1. PICK e : e \in UpLinks(p)
    BY <1>1, <1>2 DEF Registered
  <2>2. e = c
    BY <1>1, <2>1 DEF Registered
  <2> QED BY <2>1, <2>2 DEF UpLinks, Live
<1>4. \A d \in Live(p) : d = c
  BY <1>1, <1>3 DEF Live, PipeInv
<1>5. UpTicks(p) = {}
  BY <1>1, <1>2 DEF Registered
<1> DEFINE r == [heap[c] EXCEPT !.up = FALSE, !.pipe = 0, !.cut = TRUE]
<1>6. heap[c] \in LinkRecs
  BY <1>1, <1>3
<1>7. /\ r \in LinkRecs /\ r.up = FALSE /\ r.cut = TRUE /\ r.peer = p
      /\ r.frees = heap[c].frees
  BY <1>3, <1>6 DEF LinkRecs
<1>8. heap' = [heap EXCEPT ![c] = r]
  BY <1>1, <1>2, <1>3, <1>6 DEF LinkRecs
<1> HIDE DEF r
<1>9. heap' \in Seq(LinkRecs) /\ DOMAIN heap' = DOMAIN heap
  BY <1>1, <1>3, <1>7, <1>8
<1>10. /\ \A d \in DOMAIN heap : d # c => heap'[d] = heap[d]
       /\ ~heap'[c].up /\ heap'[c].cut /\ heap'[c].peer = p
       /\ heap'[c].frees = heap[c].frees
  <2>1. heap'[c] = r /\ \A d \in DOMAIN heap : d # c => heap'[d] = heap[d]
    BY <1>1, <1>3, <1>8
  <2> QED BY <1>7, <2>1
<1> DEFINE j == [js EXCEPT !.obj[p].seen = "down"]
           o == [js.obj EXCEPT ![p].seen = "down"]
<1>11. /\ o \in [Peer -> ObjRecs] /\ o[p].seen = "down"
       /\ \A q \in Peer : q # p => o[q] = js.obj[q]
  <2> DEFINE k == [js.obj[p] EXCEPT !.seen = "down"]
  <2>1. js.obj \in [Peer -> ObjRecs] /\ js.obj[p] \in ObjRecs
    BY <1>1 DEF Meshes
  <2>2. k \in ObjRecs /\ k.seen = "down"
    BY <2>1 DEF ObjRecs
  <2>3. o = [js.obj EXCEPT ![p] = k]
    OBVIOUS
  <2> HIDE DEF k, o
  <2> QED BY <2>1, <2>2, <2>3
<1>12. j = [js EXCEPT !.obj = o]
  BY <1>1 DEF Meshes
<1> HIDE DEF o
<1>13. j \in Meshes /\ j.obj = o /\ j.links = js.links /\ j.ticks = js.ticks
  BY <1>1, <1>11, <1>12 DEF Meshes
<1>14. js' = [j EXCEPT !.dead = @ \cup {p}, !.links = @ \ {p}]
  <2>1. js' = OnLink(j, heap', c)
    BY <1>2
  <2>2. p \in j.links
    BY <1>2, <1>13
  <2> HIDE DEF j
  <2> QED BY <1>10, <2>1, <2>2 DEF OnLink
<1> HIDE DEF j
<1>15. /\ js' \in Meshes /\ js'.obj = o /\ js'.links = js.links \ {p}
       /\ js'.ticks = js.ticks
  <2>1. j.dead \cup {p} \in SUBSET Peer /\ j.links \ {p} \in SUBSET Peer
    BY <1>13 DEF Meshes
  <2> QED BY <1>13, <1>14, <2>1 DEF Meshes
<1>16. LinksType'
  BY <1>1, <1>2, <1>9, <1>15 DEF LinksInv, LinksType
<1>17. \A q : Live(q)' = Live(q)
  BY <1>3, <1>9, <1>10 DEF Live
<1>18. PipeInv'
  <2>1. ASSUME NEW s \in DOMAIN conn PROVE Caught(s)'
    <3>1. Caught(s)
      BY <1>1 DEF PipeInv
    <3>2. \A d \in DOMAIN heap : /\ heap'[d].peer = heap[d].peer
                                 /\ heap'[d].frees = heap[d].frees
                                 /\ heap'[d].cut \/ heap'[d] = heap[d]
      BY <1>3, <1>10
    <3>3. conn'[s] = conn[s]
      BY <1>2
    <3> DEFINE k == conn[s]
    <3>4. /\ k.linked # 0 => k.linked \in DOMAIN heap' /\ heap'[k.linked].peer = k.peer
          /\ k.last # 0 => k.last \in DOMAIN heap' /\ heap'[k.last].peer = k.peer
      BY <1>9, <3>1, <3>2 DEF Caught
    <3>5. k.open /\ k.linked # 0 =>
            /\ heap'[k.linked].frees = 0
            /\ heap'[k.linked].cut \/ heap'[k.linked].pipe = s
      BY <3>1, <3>2 DEF Caught
    <3>6. ASSUME k.open, k.greeted, NEW d \in DOMAIN heap',
                 heap'[d].peer = k.peer, heap'[d].frees = 0
          PROVE  k.linked = d
      BY <1>9, <3>1, <3>2, <3>6 DEF Caught, Live
    <3> QED BY <3>3, <3>4, <3>5, <3>6 DEF Caught, Live
  <2>2. \A d, e \in DOMAIN heap' :
          heap'[d].peer = heap'[e].peer /\ heap'[d].frees = 0 /\ heap'[e].frees = 0 => d = e
    BY <1>1, <1>3, <1>9, <1>10 DEF PipeInv
  <2>3. \A s, t \in DOMAIN conn' :
          conn'[s].open /\ conn'[t].open /\ conn'[s].peer = conn'[t].peer => s = t
    BY <1>1, <1>2 DEF PipeInv
  <2> QED BY <1>2, <2>1, <2>2, <2>3 DEF PipeInv
<1>19. \A q : UpTicks(q)' = UpTicks(q)
  BY <1>15 DEF UpTicks
<1>20. ASSUME NEW q \in Peer PROVE Registered(q)'
  <2>1. Registered(q)
    BY <1>1
  <2>2. CASE q = p
    <3>1. UpLinks(p)' = {}
      BY <1>4, <1>10, <1>17 DEF UpLinks
    <3>2. UpTicks(p)' = {}
      BY <1>5, <1>19
    <3>3. js'.obj[p].seen # "up" /\ p \notin js'.links
      BY <1>11, <1>15
    <3> QED BY <2>2, <3>1, <3>2, <3>3 DEF Registered
  <2>3. CASE q # p
    <3>1. UpLinks(q)' = UpLinks(q)
      BY <1>3, <1>9, <1>10, <2>3 DEF UpLinks, Live
    <3>2. UpTicks(q)' = UpTicks(q)
      BY <1>19
    <3>3. js'.obj[q] = js.obj[q] /\ (q \in js'.links <=> q \in js.links)
      BY <1>11, <1>15, <2>3
    <3>4. \A i, k \in UpTicks(q)' : i = k
      BY <2>1, <3>2 DEF Registered
    <3>5. \A s \in DOMAIN conn : Here(s, q) => Here(s, q)'
      BY <1>2 DEF Here
    <3>6. \A s \in DOMAIN conn, d \in UpLinks(q) : Serves(s, q, d) => Serves(s, q, d)'
      BY <1>2 DEF Serves
    <3> QED BY <1>2, <2>1, <3>1, <3>2, <3>3, <3>4, <3>5, <3>6, RegisteredFrame
  <2> QED BY <2>2, <2>3
<1>21. OpenInv'
  <2>1. \A q \in Peer : Live(q) \subseteq Live(q)'
    BY <1>17
  <2>2. \A d \in DOMAIN heap : heap[d].cut => heap'[d].cut
    BY <1>10
  <2>3. \A q \in Peer : js.obj[q].seen = "up" =>
          js'.obj[q].seen = "up" \/ \A d \in Live(q) : heap'[d].cut
    BY <1>4, <1>10, <1>11, <1>15
  <2> DEFINE n == Len(js.ticks)
  <2>4. /\ n \in Nat /\ DOMAIN js.ticks = 1 .. n /\ DOMAIN js'.ticks = 1 .. n
        /\ \A i \in 1 .. n : js'.ticks[i] = js.ticks[i]
        /\ \A i \in 1 .. n : js.ticks[i].peer \in Peer
    BY <1>1, <1>15, TickPeers
  <2> HIDE DEF n
  <2>5. n + 1 \notin DOMAIN js'.ticks
    BY <2>4
  <2> QED BY <1>1, <2>1, <2>2, <2>3, <2>4, <2>5, OpenFrame
<1> QED BY <1>16, <1>18, <1>20, <1>21 DEF LinksInv

(* The 'close' of a stream keeps the invariant: the Link object of its     *)
(* link goes down and frees that link, unless the connection is a chunked  *)
(* one whose last packet had none.                                         *)
LEMMA CloseStep ==
  ASSUME ~Again, LinksInv, NEW s \in DOMAIN conn, Close(s)
  PROVE  LinksInv'
<1> SUFFICES ASSUME NEW c, c = Closing(s), NEW p, p = conn[s].peer
             PROVE  LinksInv'
  OBVIOUS
<1>1. /\ heap \in Seq(LinkRecs) /\ conn \in Seq(ConnRecs) /\ js \in Meshes
      /\ DOMAIN heap = 1 .. Len(heap) /\ Len(heap) \in Nat
      /\ PipeInv /\ (\A q \in Peer : Registered(q))
  BY LinksFacts
<1>2. conn[s] \in ConnRecs /\ p \in Peer
  BY LinksFacts
<1>3. c # 0 => heap[c].peer = p
  BY <1>1 DEF Closing, PipeInv, Caught
<1>4. /\ js.ticks = <<>> /\ conn[s].open /\ UNCHANGED <<aaa, offers>>
      /\ conn' = [conn EXCEPT ![s].open = FALSE]
      /\ p \notin js.links \/ js.obj[p].own = js.obj[p].c
      /\ IF c # 0 /\ p \in js.links THEN GoDown(p) ELSE UNCHANGED <<heap, js>>
  <2>1. p = IF c = 0 THEN conn[s].peer ELSE heap[c].peer
    BY <1>3
  <2> QED BY <2>1 DEF Close, Quiet
<1> DEFINE r == [conn[s] EXCEPT !.open = FALSE]
<1>5. /\ r \in ConnRecs /\ ~r.open /\ r.kind = conn[s].kind /\ r.peer = conn[s].peer
      /\ r.linked = conn[s].linked /\ r.last = conn[s].last
  BY <1>2 DEF ConnRecs
<1>6. conn' = [conn EXCEPT ![s] = r]
  BY <1>4
<1> HIDE DEF r
<1>7. conn' \in Seq(ConnRecs) /\ DOMAIN conn' = DOMAIN conn
  BY <1>1, <1>5, <1>6
<1>8. conn'[s] = r /\ \A t \in DOMAIN conn : t # s => conn'[t] = conn[t]
  BY <1>1, <1>6
<1>9. Len(conn') = Len(conn)
  BY <1>1, <1>7
<1>10. \A t \in DOMAIN conn : conn[t].open /\ conn[t].peer = p => t = s
  BY <1>1, <1>4 DEF PipeInv
<1>11. \A t, u \in DOMAIN conn' :
         conn'[t].open /\ conn'[u].open /\ conn'[t].peer = conn'[u].peer => t = u
  BY <1>1, <1>5, <1>7, <1>8 DEF PipeInv
<1>12. \A q : UpTicks(q) = {}
  BY <1>4 DEF UpTicks
<1>13. CASE c # 0 /\ p \in js.links
  <2> SUFFICES ASSUME NEW o, o = js.obj[p].own
               PROVE  LinksInv'
    OBVIOUS
  <2>1. o \in UpLinks(p) /\ o \in Live(p) /\ o \in DOMAIN heap /\ heap[o].peer = p
    <3>1. o = js.obj[p].c
      BY <1>4, <1>13
    <3>2. PICK e : e \in UpLinks(p)
      BY <1>1, <1>2, <1>13 DEF Registered
    <3>3. e = o
      BY <1>1, <1>2, <3>1, <3>2 DEF Registered
    <3> QED BY <3>2, <3>3 DEF UpLinks, Live
  <2>2. \A d \in Live(p) : d = o
    BY <1>1, <2>1 DEF Live, PipeInv
  <2>3. /\ js' = [js EXCEPT !.links = @ \ {p}, !.dead = @ \cup {p},
                            !.obj[p].seen = "down"]
        /\ heap' = [heap EXCEPT ![o].up = FALSE, ![o].pipe = 0, ![o].frees = @ + 1]
    BY <1>4, <1>13 DEF GoDown
  <2> DEFINE f == heap[o].frees + 1
             k == [heap[o] EXCEPT !.up = FALSE, !.pipe = 0, !.frees = f]
  <2>4. heap[o] \in LinkRecs
    BY <1>1, <2>1
  <2>5. heap[o].frees = 0 /\ heap[o].peer = p
    BY <2>1 DEF Live
  <2>6. k \in LinkRecs /\ k.frees = 1 /\ k.peer = p
    <3>1. f = 1
      BY <2>5
    <3> HIDE DEF f
    <3>2. k \in LinkRecs
      BY <2>4, <3>1 DEF LinkRecs
    <3>3. k.frees = f /\ k.peer = heap[o].peer
      BY <2>4 DEF LinkRecs
    <3> QED BY <2>5, <3>1, <3>2, <3>3
  <2>7. heap' = [heap EXCEPT ![o] = k]
    BY <1>1, <2>1, <2>3, <2>4 DEF LinkRecs
  <2> HIDE DEF k
  <2>8. heap' \in Seq(LinkRecs) /\ DOMAIN heap' = DOMAIN heap
    BY <1>1, <2>1, <2>6, <2>7
  <2>9. /\ \A d \in DOMAIN heap : d # o => heap'[d] = heap[d]
        /\ heap'[o].frees # 0 /\ heap'[o].peer = p
    BY <1>1, <2>1, <2>6, <2>7
  <2> DEFINE ob == [js.obj EXCEPT ![p].seen = "down"]
  <2>10. /\ ob \in [Peer -> ObjRecs] /\ ob[p].seen = "down"
         /\ \A q \in Peer : q # p => ob[q] = js.obj[q]
    <3> DEFINE e == [js.obj[p] EXCEPT !.seen = "down"]
    <3>1. js.obj \in [Peer -> ObjRecs] /\ js.obj[p] \in ObjRecs
      BY <1>1, <1>2 DEF Meshes
    <3>2. e \in ObjRecs /\ e.seen = "down"
      BY <3>1 DEF ObjRecs
    <3>3. ob = [js.obj EXCEPT ![p] = e]
      OBVIOUS
    <3> HIDE DEF e, ob
    <3> QED BY <1>2, <3>1, <3>2, <3>3
  <2>11. js' = [js EXCEPT !.links = @ \ {p}, !.dead = @ \cup {p}, !.obj = ob]
    BY <1>1, <2>3 DEF Meshes
  <2> HIDE DEF ob
  <2>12. /\ js' \in Meshes /\ js'.obj = ob /\ js'.links = js.links \ {p}
         /\ js'.ticks = js.ticks
    <3>1. js.dead \cup {p} \in SUBSET Peer /\ js.links \ {p} \in SUBSET Peer
      BY <1>1, <1>2 DEF Meshes
    <3> QED BY <1>1, <2>10, <2>11, <3>1 DEF Meshes
  <2>13. LinksType'
    BY <1>4, <1>7, <1>9, <2>8, <2>12 DEF LinksInv, LinksType
  <2>14. PipeInv'
    <3>1. \A d, e \in DOMAIN heap' :
            heap'[d].peer = heap'[e].peer /\ heap'[d].frees = 0 /\ heap'[e].frees = 0 => d = e
      BY <1>1, <2>8, <2>9 DEF PipeInv
    <3>2. ASSUME NEW t \in DOMAIN conn PROVE Caught(t)'
      <4>1. Caught(t)
        BY <1>1 DEF PipeInv
      <4>2. \A d \in DOMAIN heap : /\ heap'[d].peer = heap[d].peer
                                   /\ heap[d].peer # p => heap'[d] = heap[d]
        BY <2>1, <2>9
      <4> DEFINE l == conn[t].linked
                 a == conn[t].last
      <4>3. /\ l # 0 => l \in DOMAIN heap' /\ heap'[l].peer = conn[t].peer
            /\ a # 0 => a \in DOMAIN heap' /\ heap'[a].peer = conn[t].peer
        BY <2>8, <4>1, <4>2 DEF Caught
      <4>4. CASE t = s
        BY <1>5, <1>8, <4>3, <4>4 DEF Caught
      <4>5. CASE t # s
        <5>1. conn'[t] = conn[t]
          BY <1>8, <4>5
        <5>2. conn[t].open => conn[t].peer # p
          BY <1>10, <4>5
        <5>3. conn[t].open /\ l # 0 =>
                heap'[l].frees = 0 /\ (heap'[l].cut \/ heap'[l].pipe = t)
          BY <4>1, <4>2, <5>2 DEF Caught
        <5>4. ASSUME conn[t].open, conn[t].greeted, NEW d \in DOMAIN heap',
                     heap'[d].peer = conn[t].peer, heap'[d].frees = 0
              PROVE  l = d
          BY <2>8, <4>1, <4>2, <5>2, <5>4 DEF Caught, Live
        <5> QED BY <4>3, <5>1, <5>3, <5>4 DEF Caught, Live
      <4> QED BY <4>4, <4>5
    <3> QED BY <1>7, <1>11, <3>1, <3>2 DEF PipeInv
  <2>15. \A q : UpTicks(q)' = {}
    BY <1>4, <2>12 DEF UpTicks
  <2>16. ASSUME NEW q \in Peer PROVE Registered(q)'
    <3>1. CASE q = p
      <4>1. UpLinks(p)' = {}
        BY <2>2, <2>8, <2>9 DEF UpLinks, Live
      <4>2. js'.obj[p].seen # "up" /\ p \notin js'.links
        BY <2>10, <2>12
      <4> QED BY <2>15, <3>1, <4>1, <4>2 DEF Registered
    <3>2. CASE q # p
      <4>1. Registered(q)
        BY <1>1
      <4>2. UpLinks(q)' = UpLinks(q)
        BY <2>1, <2>8, <2>9, <3>2 DEF UpLinks, Live
      <4>3. UpTicks(q)' = {} /\ UpTicks(q) = {}
        BY <1>12, <2>15
      <4>4. js'.obj[q] = js.obj[q] /\ (q \in js'.links <=> q \in js.links)
        BY <2>10, <2>12, <3>2
      <4>5. \A t \in DOMAIN conn, d \in UpLinks(q) : Serves(t, q, d) => Serves(t, q, d)'
        BY <1>8, <3>2 DEF Serves
      <4> QED BY <1>7, <4>1, <4>2, <4>3, <4>4, <4>5, RegisteredFrame
    <3> QED BY <3>1, <3>2
  <2>17. OpenInv'
    BY <1>4, <2>12 DEF OpenInv
  <2> QED BY <2>13, <2>14, <2>16, <2>17 DEF LinksInv
<1>14. CASE ~(c # 0 /\ p \in js.links)
  <2>1. UNCHANGED <<heap, js>>
    BY <1>4, <1>14
  <2>2. LinksType'
    BY <1>1, <1>4, <1>7, <1>9, <2>1 DEF LinksInv, LinksType
  <2>3. PipeInv'
    <3>1. ASSUME NEW t \in DOMAIN conn PROVE Caught(t)'
      <4>1. Caught(t)
        BY <1>1 DEF PipeInv
      <4>2. CASE t = s
        BY <1>5, <1>8, <2>1, <4>1, <4>2 DEF Caught
      <4>3. CASE t # s
        BY <1>8, <2>1, <4>1, <4>3 DEF Caught, Live
      <4> QED BY <4>2, <4>3
    <3>2. \A d, e \in DOMAIN heap' :
            heap'[d].peer = heap'[e].peer /\ heap'[d].frees = 0 /\ heap'[e].frees = 0 => d = e
      BY <1>1, <2>1 DEF PipeInv
    <3> QED BY <1>7, <1>11, <3>1, <3>2 DEF PipeInv
  <2>4. ASSUME NEW q \in Peer PROVE Registered(q)'
    <3>1. Registered(q)
      BY <1>1
    <3>2. UpLinks(q)' = UpLinks(q) /\ UpTicks(q)' = {} /\ UpTicks(q) = {}
      BY <1>12, <2>1 DEF UpLinks, Live, UpTicks
    <3>3. ASSUME NEW t \in DOMAIN conn, NEW d \in UpLinks(q), Serves(t, q, d)
          PROVE  Serves(t, q, d)'
      <4>1. CASE t # s
        BY <1>8, <3>3, <4>1 DEF Serves
      <4>2. CASE t = s
        <5>1. q = p /\ conn[s].linked = d
          BY <3>3, <4>2 DEF Serves
        <5>2. d # 0
          BY <1>1 DEF UpLinks, Live
        <5>3. p \in js.links
          BY <1>12, <3>1, <5>1 DEF Registered, Known
        <5>4. c = 0
          BY <1>14, <5>3
        <5>5. conn[s].kind # "frames" /\ conn[s].last = 0
          BY <5>1, <5>2, <5>4 DEF Closing
        <5>6. conn[s].kind = "chunks"
          BY <1>2, <5>5 DEF ConnRecs
        <5> QED BY <1>5, <1>8, <4>2, <5>1, <5>5, <5>6 DEF Serves
      <4> QED BY <4>1, <4>2
    <3> QED BY <1>7, <2>1, <3>1, <3>2, <3>3, RegisteredFrame
  <2>5. OpenInv'
    BY <1>4, <2>1 DEF OpenInv
  <2> QED BY <2>2, <2>3, <2>4, <2>5 DEF LinksInv
<1> QED BY <1>13, <1>14

-----------------------------------------------------------------------------
(* Before the first connection there is nothing.                           *)
LEMMA LinksInit ==
  ASSUME Init
  PROVE  LinksInv
<1>1. /\ heap = <<>> /\ conn = <<>> /\ aaa = 0 /\ offers = {} /\ js = NoLinks
  BY DEF Init
<1>2. /\ js.ticks = <<>> /\ js.links = {} /\ js.dead = {}
      /\ js.obj = [p \in Peer |-> NoLink]
  BY <1>1 DEF NoLinks
<1>3. NoLink \in ObjRecs /\ NoLink.seen = "none"
  BY DEF NoLink, ObjRecs
<1>4. js.obj \in [Peer -> ObjRecs] /\ \A p \in Peer : js.obj[p].seen = "none"
  BY <1>2, <1>3
<1>5. js \in Meshes
  <2>1. NoLinks = [links |-> {}, dead |-> {}, obj |-> js.obj, ticks |-> <<>>]
    BY <1>2 DEF NoLinks
  <2>2. <<>> \in Seq(TickRecs)
    OBVIOUS
  <2> QED BY <1>1, <1>4, <2>1, <2>2 DEF Meshes
<1>6. DOMAIN heap = {} /\ DOMAIN conn = {} /\ DOMAIN js.ticks = {} /\ Len(conn) = 0
  BY <1>1, <1>2
<1>7. LinksType
  BY <1>1, <1>5, <1>6 DEF LinksType
<1>8. PipeInv
  BY <1>6 DEF PipeInv
<1>9. ASSUME NEW p \in Peer PROVE Registered(p)
  BY <1>2, <1>4, <1>6 DEF Registered, UpTicks, UpLinks, Live
<1>10. OpenInv
  BY <1>6 DEF OpenInv
<1> QED BY <1>7, <1>8, <1>9, <1>10 DEF LinksInv

(* Every step keeps the invariant.                                         *)
LEMMA LinksNext ==
  ASSUME ~Crossed, ~Astray, ~Again, LinksInv, [Next]_vars
  PROVE  LinksInv'
<1>1. ASSUME NEW p \in Peer, NEW kind \in {"frames", "chunks"}, Connect(p, kind)
      PROVE  LinksInv'
  BY <1>1, ConnectStep
<1>2. ASSUME NEW s \in DOMAIN conn, Discover(s) PROVE LinksInv'
  BY <1>2, DiscoverStep
<1>3. ASSUME NEW s \in DOMAIN conn, Handshake(s) PROVE LinksInv'
  BY <1>3, HandshakeStep
<1>4. ASSUME NEW s \in DOMAIN conn, ChannelOpen(s) PROVE LinksInv'
  BY <1>4, ChannelOpenStep
<1>5. ASSUME NEW s \in DOMAIN conn, Junk(s) PROVE LinksInv'
  BY <1>5, JunkStep
<1>6. CASE EndData
  BY <1>6, LinksStutter DEF EndData
<1>7. CASE NextTick
  BY <1>7, NextTickStep
<1>8. ASSUME NEW o \in offers, NEW good \in BOOLEAN, TakeOffer(o, good)
      PROVE  LinksInv'
  BY <1>8, TakeOfferStep
<1>9. ASSUME NEW p \in Peer, Accept(p) PROVE LinksInv'
  BY <1>9, LinksStutter DEF Accept
<1>10. ASSUME NEW p \in Peer, Reject(p) PROVE LinksInv'
  BY <1>10, LinksStutter DEF Reject
<1>11. ASSUME NEW p \in Peer, AppDown(p) PROVE LinksInv'
  BY <1>11, AppDownStep
<1>12. ASSUME NEW s \in DOMAIN conn, Close(s) PROVE LinksInv'
  BY <1>12, CloseStep
<1>13. CASE UNCHANGED vars
  BY <1>13, LinksStutter DEF vars
<1> QED BY <1>1, <1>2, <1>3, <1>4, <1>5, <1>6, <1>7, <1>8, <1>9, <1>10, <1>11,
           <1>12, <1>13 DEF Next

(* The invariant holds always.                                             *)
LEMMA LinksAlways ==
  ASSUME ~Crossed, ~Astray, ~Again
  PROVE  Spec => []LinksInv
<1>1. Init => LinksInv
  BY LinksInit
<1>2. LinksInv /\ [Next]_vars => LinksInv'
  BY LinksNext
<1> QED BY <1>1, <1>2, PTL DEF Spec

(* A peer whose C link is up has it in its Link object, and one object.    *)
LEMMA UpLink ==
  ASSUME LinksInv, NEW p \in Peer
  PROVE  /\ LiveIn(heap, p) # 0 /\ heap[LiveIn(heap, p)].up => LiveIn(heap, p) \in UpLinks(p)
         /\ \A c \in UpLinks(p) : c = LiveIn(heap, p) /\ c # 0 /\ heap[c].up
<1> DEFINE l == LiveIn(heap, p)
<1>1. heap \in Seq(LinkRecs) /\ DOMAIN heap = 1 .. Len(heap) /\ Len(heap) \in Nat /\ PipeInv
  BY LinksFacts
<1>2. IsLive(l, heap, p)
  BY <1>1, LiveInFacts
<1> HIDE DEF l
<1>3. l # 0 /\ heap[l].up => l \in UpLinks(p)
  BY <1>2 DEF IsLive, UpLinks, Live
<1>4. ASSUME NEW c \in UpLinks(p) PROVE c = l /\ c # 0 /\ heap[c].up
  <2>1. c \in DOMAIN heap /\ heap[c].peer = p /\ heap[c].frees = 0 /\ heap[c].up
    BY DEF UpLinks, Live
  <2>2. l # 0
    BY <1>2, <2>1 DEF IsLive
  <2>3. l \in DOMAIN heap /\ heap[l].peer = p /\ heap[l].frees = 0
    BY <1>2, <2>2 DEF IsLive
  <2> QED BY <1>1, <2>1, <2>2, <2>3 DEF PipeInv
<1> QED BY <1>3, <1>4 DEF l

(* Mesh._links is the truth between callbacks (RegistryMatches): it holds  *)
(* the Link objects of the peers whose C link is up, each with that link   *)
(* and its 'up' emitted, whatever packets, callbacks, decisions of the     *)
(* application and 'close' events there were on any number of connections. *)
THEOREM LinksRegistryMatches ==
  ASSUME ~Crossed, ~Astray, ~Again
  PROVE  Spec => []RegistryMatches
<1>1. LinksInv => RegistryMatches
  <2> SUFFICES ASSUME LinksInv, Quiet, NEW p \in Peer, NEW c, c = LiveIn(heap, p)
               PROVE  /\ p \in js.links <=> c # 0 /\ heap[c].up
                      /\ p \in js.links => js.obj[p].c = c /\ js.obj[p].seen = "up"
    BY DEF RegistryMatches
  <2>1. Registered(p) /\ UpTicks(p) = {}
    BY DEF LinksInv, Quiet, UpTicks
  <2>2. /\ c # 0 /\ heap[c].up => c \in UpLinks(p)
        /\ \A d \in UpLinks(p) : d = c /\ d # 0 /\ heap[d].up
    BY UpLink
  <2>3. ASSUME p \in js.links
        PROVE  c # 0 /\ heap[c].up /\ js.obj[p].c = c /\ js.obj[p].seen = "up"
    <3>1. PICK d : d \in UpLinks(p)
      BY <2>1, <2>3 DEF Registered
    <3>2. c # 0 /\ heap[c].up /\ c \in UpLinks(p)
      BY <2>2, <3>1
    <3> QED BY <2>1, <2>3, <3>2 DEF Registered, Known
  <2>4. ASSUME c # 0, heap[c].up PROVE p \in js.links
    BY <2>1, <2>2, <2>4 DEF Registered, Known
  <2> QED BY <2>3, <2>4
<1>2. Spec => []LinksInv
  BY LinksAlways
<1> QED BY <1>1, <1>2, PTL

(* A Link object emits 'up' once for each time it comes up (UpOnce).       *)
THEOREM LinksUpOnce ==
  ASSUME ~Crossed, ~Astray, ~Again
  PROVE  Spec => []UpOnce
<1>1. LinksInv => UpOnce
  <2> SUFFICES ASSUME LinksInv, NEW p \in Peer
               PROVE  Cardinality(UpTicks(p))
                        + (IF js.obj[p].seen = "up" THEN 1 ELSE 0) <= 1
    BY DEF UpOnce, UpTicks
  <2>1. Registered(p)
    BY DEF LinksInv
  <2>2. CASE UpTicks(p) = {}
    <3>1. Cardinality(UpTicks(p)) = 0
      BY <2>2, FS_EmptySet
    <3> QED BY <3>1
  <2>3. CASE UpTicks(p) # {}
    <3>1. PICK i : i \in UpTicks(p)
      BY <2>3
    <3>2. UpTicks(p) = {i}
      BY <2>1, <3>1 DEF Registered
    <3>3. Cardinality({i}) = 1
      BY FS_Singleton
    <3>4. js.obj[p].seen # "up"
      BY <2>1, <2>3 DEF Registered
    <3> QED BY <3>2, <3>3, <3>4
  <2> QED BY <2>2, <2>3
<1>2. Spec => []LinksInv
  BY LinksAlways
<1> QED BY <1>1, <1>2, PTL

(* 'open' comes with a Link object the application has had 'up' from       *)
(* (OpenHasLink).                                                          *)
THEOREM LinksOpenHasLink ==
  ASSUME ~Crossed, ~Astray, ~Again
  PROVE  Spec => []OpenHasLink
<1>1. LinksInv => OpenHasLink
  <2> SUFFICES ASSUME LinksInv, js.ticks # <<>>, NEW t, t = Head(js.ticks),
                      t.kind = "open"
               PROVE  heap[t.at].cut \/ (t.peer \in js.links /\ js.obj[t.peer].seen = "up")
    BY DEF OpenHasLink
  <2>1. js \in Meshes
    BY LinksFacts
  <2>2. js.ticks \in Seq(TickRecs)
    BY <2>1 DEF Meshes
  <2>3. 1 \in DOMAIN js.ticks /\ t = js.ticks[1] /\ DOMAIN js.ticks = 1 .. Len(js.ticks)
    BY <2>2
  <2>4. t.peer \in Peer
    BY <2>1, <2>3, TickPeers
  <2>5. OpenAt(1, t.peer, t.at)
    BY <2>3 DEF LinksInv, OpenInv
  <2>6. ~\E k \in UpTicks(t.peer) : k < 1
    BY <2>2, <2>3 DEF UpTicks
  <2>7. heap[t.at].cut \/ js.obj[t.peer].seen = "up"
    BY <2>5, <2>6 DEF OpenAt
  <2> QED BY <2>4, <2>7 DEF LinksInv, Registered
<1>2. Spec => []LinksInv
  BY LinksAlways
<1> QED BY <1>1, <1>2, PTL

(* The link an open connection has caught is there, its own peer's, and    *)
(* has the pipe of an open connection to that peer (Plumbed), with one     *)
(* connection to a peer at a time and answers to discoveries that come     *)
(* while the connection of the Frames object that asked is open.           *)
THEOREM LinksPlumbed ==
  ASSUME ~Crossed, ~Astray, ~Again
  PROVE  Spec => []Plumbed
<1>1. LinksInv => Plumbed
  <2> SUFFICES ASSUME LinksInv, NEW s \in DOMAIN conn, conn[s].open,
                      NEW c, c = conn[s].linked, c # 0
               PROVE  /\ heap[c].frees = 0
                      /\ heap[c].peer = conn[s].peer
                      /\ \/ heap[c].cut
                         \/ heap[c].pipe # 0 /\ conn[heap[c].pipe].open
                              /\ conn[heap[c].pipe].peer = conn[s].peer
    BY DEF Plumbed
  <2>1. Caught(s)
    BY DEF LinksInv, PipeInv
  <2>2. s # 0
    BY LinksFacts
  <2> QED BY <2>1, <2>2 DEF Caught
<1>2. Spec => []LinksInv
  BY LinksAlways
<1> QED BY <1>1, <1>2, PTL

(* A link in _links has a connection, but for the chunked ones that closed *)
(* after a packet without a link (Connected).                              *)
THEOREM LinksConnected ==
  ASSUME ~Crossed, ~Astray, ~Again
  PROVE  Spec => []Connected
<1>1. LinksInv => Connected
  <2> SUFFICES ASSUME LinksInv, NEW p \in js.links
               PROVE  \E s \in DOMAIN conn :
                        /\ conn[s].peer = p /\ conn[s].linked = js.obj[p].c
                        /\ conn[s].open \/ (conn[s].kind = "chunks" /\ conn[s].last = 0)
    BY DEF Connected
  <2>1. p \in Peer
    BY LinksFacts DEF Meshes
  <2>2. Registered(p)
    BY <2>1 DEF LinksInv
  <2>3. PICK c : c \in UpLinks(p)
    BY <2>2 DEF Registered
  <2>4. js.obj[p].c = c /\ \E s \in DOMAIN conn : Serves(s, p, c)
    BY <2>2, <2>3 DEF Registered
  <2> QED BY <2>4 DEF Serves
<1>2. Spec => []LinksInv
  BY LinksAlways
<1> QED BY <1>1, <1>2, PTL
-----------------------------------------------------------------------------
(* Module JsStartup, for every set of transports and any number of runs:   *)
(* the types, the identity that survives crashes, and that stopListen      *)
(* reaches everything that listens.                                        *)

(* Before the keys are there, there is no identity and nothing is being    *)
(* stored: a keystore may still be used.                                   *)
KeyInv ==
  /\ KeepsIdentity
  /\ phase \in {"off", "made", "keys"} => id = 0 /\ storing = 0

(* What listens, phase by phase.                                           *)
Listens(t) == port[t] \in {"open", "pending"}
PortInv ==
  /\ Stoppable
  /\ phase \in {"off", "made", "keys"} =>
       aborts = {} /\ \A t \in Transport : ~Listens(t)
  /\ phase = "listening" =>
       aborts = {} /\ \A t \in Transport \ used : ~Listens(t)
  /\ phase = "up" => \A t \in Transport : port[t] # "pending"

(* Every variable keeps its type, whatever the keystore, the transports    *)
(* and crashes do.                                                         *)
THEOREM StartupTypeCorrect == StartSpec => []StartTypeOK
<1>1. StartInit => StartTypeOK
  <2> SUFFICES ASSUME StartInit PROVE StartTypeOK
    OBVIOUS
  <2>1. keyed \in BOOLEAN /\ wants \in BOOLEAN
    BY Zenon DEF StartInit
  <2>2. runs \in 0 .. MaxRuns /\ id \in 0 .. MaxRuns /\ stored \in 0 .. MaxRuns
        /\ storing \in 0 .. MaxRuns
    BY JsStartupAssumption DEF StartInit
  <2>3. phase = "off" /\ used \subseteq Transport /\ aborts \subseteq Transport
        /\ port \in [Transport -> {"idle", "pending", "open", "failed"}]
    BY DEF StartInit, NoPorts
  <2> QED BY <2>1, <2>2, <2>3 DEF StartTypeOK
<1>2. StartTypeOK /\ [StartNext]_startVars => StartTypeOK'
  <2> SUFFICES ASSUME StartTypeOK, [StartNext]_startVars PROVE StartTypeOK'
    OBVIOUS
  <2> USE JsStartupAssumption DEF StartTypeOK
  <2>1. CASE Create BY <2>1 DEF Create
  <2>2. ASSUME NEW t \in Transport, UseTransport(t) PROVE StartTypeOK'
    BY <2>2 DEF UseTransport
  <2>3. CASE UseKeystore BY <2>3 DEF UseKeystore
  <2>4. ASSUME NEW listen \in BOOLEAN, Start(listen) PROVE StartTypeOK'
    BY <2>4 DEF Start, Ready, Listen, Ports
  <2>5. CASE GotKeys BY <2>5 DEF GotKeys, NewKeys, Ready, Listen, Ports
  <2>6. CASE KeysStored BY <2>6 DEF KeysStored
  <2>7. ASSUME NEW t \in Transport, NEW how \in {"open", "failed"},
               Settle(t, how)
        PROVE  StartTypeOK'
    BY <2>7 DEF Settle
  <2>8. CASE Listening BY <2>8 DEF Listening
  <2>9. CASE ListenError BY <2>9 DEF ListenError
  <2>10. CASE StopListen BY <2>10 DEF StopListen
  <2>11. CASE ListenAgain BY <2>11 DEF ListenAgain, Listen, Ports
  <2>12. CASE Crash
    <3>1. keyed' \in BOOLEAN /\ wants' \in BOOLEAN
      BY <2>12, Zenon DEF Crash
    <3>2. runs' \in 0 .. MaxRuns /\ id' \in 0 .. MaxRuns
          /\ stored' \in 0 .. MaxRuns /\ storing' \in 0 .. MaxRuns
      BY <2>12 DEF Crash
    <3>3. phase' = "off" /\ used' = {} /\ aborts' = {}
          /\ port' \in [Transport -> {"idle", "pending", "open", "failed"}]
      BY <2>12 DEF Crash, NoPorts
    <3> QED BY <3>1, <3>2, <3>3
  <2>13. CASE UNCHANGED startVars BY <2>13 DEF startVars
  <2> QED
    BY <2>1, <2>2, <2>3, <2>4, <2>5, <2>6, <2>7, <2>8, <2>9, <2>10, <2>11,
       <2>12, <2>13 DEF StartNext
<1> QED BY <1>1, <1>2, PTL DEF StartSpec

(* Keys that reached the keystore stay the identity of every later run     *)
(* that uses it (start, _storeKeys), over any number of crashes.           *)
THEOREM StartupKeepsIdentity == StartSpec => []KeepsIdentity
<1>1. StartInit => KeyInv
  BY DEF StartInit, KeyInv, KeepsIdentity
<1>2. KeyInv /\ [StartNext]_startVars => KeyInv'
  <2> SUFFICES ASSUME KeyInv, [StartNext]_startVars PROVE KeyInv'
    OBVIOUS
  <2> USE DEF KeyInv, KeepsIdentity
  <2>1. CASE Create BY <2>1 DEF Create
  <2>2. ASSUME NEW t \in Transport, UseTransport(t) PROVE KeyInv'
    BY <2>2 DEF UseTransport
  <2>3. CASE UseKeystore BY <2>3 DEF UseKeystore
  <2>4. ASSUME NEW listen \in BOOLEAN, Start(listen) PROVE KeyInv'
    BY <2>4 DEF Start, Ready, Listen
  <2>5. CASE GotKeys BY <2>5 DEF GotKeys, NewKeys, Ready, Listen
  <2>6. CASE KeysStored BY <2>6 DEF KeysStored
  <2>7. ASSUME NEW t \in Transport, NEW how \in {"open", "failed"},
               Settle(t, how)
        PROVE  KeyInv'
    BY <2>7 DEF Settle
  <2>8. CASE Listening BY <2>8 DEF Listening
  <2>9. CASE ListenError BY <2>9 DEF ListenError
  <2>10. CASE StopListen BY <2>10 DEF StopListen
  <2>11. CASE ListenAgain BY <2>11 DEF ListenAgain, Listen
  <2>12. CASE Crash BY <2>12 DEF Crash
  <2>13. CASE UNCHANGED startVars BY <2>13 DEF startVars
  <2> QED
    BY <2>1, <2>2, <2>3, <2>4, <2>5, <2>6, <2>7, <2>8, <2>9, <2>10, <2>11,
       <2>12, <2>13 DEF StartNext
<1>3. KeyInv => KeepsIdentity
  BY DEF KeyInv
<1> QED BY <1>1, <1>2, <1>3, PTL DEF StartSpec

(* While the mesh is up, what listens is exactly what stopListen has an    *)
(* abort function for, in whatever order the promises were settled.        *)
THEOREM StartupStoppable == StartSpec => []Stoppable
<1>1. StartInit => PortInv
  BY DEF StartInit, PortInv, Stoppable, Listens, NoPorts
<1>2. StartTypeOK /\ PortInv /\ [StartNext]_startVars => PortInv'
  <2> SUFFICES ASSUME StartTypeOK, PortInv, [StartNext]_startVars PROVE PortInv'
    OBVIOUS
  <2> USE DEF PortInv, Stoppable, Listens, StartTypeOK
  <2>1. CASE Create BY <2>1 DEF Create
  <2>2. ASSUME NEW t \in Transport, UseTransport(t) PROVE PortInv'
    BY <2>2 DEF UseTransport
  <2>3. CASE UseKeystore BY <2>3 DEF UseKeystore
  <2>4. ASSUME NEW listen \in BOOLEAN, Start(listen) PROVE PortInv'
    BY <2>4 DEF Start, Ready, Listen, Ports
  <2>5. CASE GotKeys BY <2>5 DEF GotKeys, Ready, Listen, Ports
  <2>6. CASE KeysStored BY <2>6 DEF KeysStored
  <2>7. ASSUME NEW t \in Transport, NEW how \in {"open", "failed"},
               Settle(t, how)
        PROVE  PortInv'
    BY <2>7 DEF Settle
  <2>8. CASE Listening BY <2>8 DEF Listening
  <2>9. CASE ListenError BY <2>9 DEF ListenError
  <2>10. CASE StopListen BY <2>10 DEF StopListen
  <2>11. CASE ListenAgain BY <2>11 DEF ListenAgain, Listen, Ports
  <2>12. CASE Crash BY <2>12 DEF Crash, NoPorts
  <2>13. CASE UNCHANGED startVars BY <2>13 DEF startVars
  <2> QED
    BY <2>1, <2>2, <2>3, <2>4, <2>5, <2>6, <2>7, <2>8, <2>9, <2>10, <2>11,
       <2>12, <2>13 DEF StartNext
<1>3. PortInv => Stoppable
  BY DEF PortInv
<1> QED BY <1>1, <1>2, <1>3, StartupTypeCorrect, PTL DEF StartSpec
=============================================================================
