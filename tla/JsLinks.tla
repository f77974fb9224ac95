------------------------------- MODULE JsLinks ------------------------------
(***************************************************************************)
(* The links of the JavaScript bindings (src/js/core.js): connections      *)
(* (objects Frames and Chunks, each on one stream), the C links behind     *)
(* them, and the Link objects an application sees, kept in Mesh._links and *)
(* Mesh._deadLinks, from the moment the mesh is up (JsStartup has what is  *)
(* before).                                                                *)
(*                                                                         *)
(* Node runs one callback at a time, and before the next one everything    *)
(* that process.nextTick has queued.  A 'data' callback may hold several   *)
(* packets: busy is the connection whose callback is running.              *)
(*                                                                         *)
(* The C library is modelled by what core.js sees of it (mesh_receive,     *)
(* mesh_add, link_pipe, link_down, link_free: modules Mesh and Handshake   *)
(* have the rest).  A peer is its id, the first eight characters of its    *)
(* hashname.                                                               *)
(*                                                                         *)
(* An operator defined just before another with the same parameters is a   *)
(* deliberately wrong variant: replacing the second by the first must make *)
(* a property fail.                                                        *)
(***************************************************************************)
EXTENDS Naturals, Sequences, FiniteSets, TLC

CONSTANTS
  Peer,         \* the other endpoints
  MaxConns,     \* bound: connections in a run
  MaxTicks,     \* bound: callbacks of nextTick waiting at one time
  Crossed,      \* may two connections at a time lead to one peer?
  Astray,       \* may the answer to a discovery reach a Frames object whose
                \* connection has closed meanwhile, or is to another peer?
  Again         \* may a link that came back go down a second time?

ASSUME JsLinksAssumption ==
  /\ MaxConns \in Nat /\ MaxTicks \in Nat \ {0}
  /\ Crossed \in BOOLEAN /\ Astray \in BOOLEAN /\ Again \in BOOLEAN

VARIABLES
  heap,     \* the C links ever made; a pointer is an index of heap
  conn,     \* the connections; linked is the closure's variable, last is
            \* the variable link of Chunks, the result of the last packet
  aaa,      \* the Frames object that registered on_discover "aaa" last
  js,       \* the Mesh object: _links, _deadLinks, Link objects, nextTick
  busy,     \* the connection whose 'data' callback runs, or 0
  accept, reject,   \* Mesh._accept, Mesh._reject
  ask,      \* does the application listen to 'discover'?
  offers    \* the callbacks of 'discover' events it has not called

vars == <<heap, conn, aaa, js, busy, accept, reject, ask, offers>>

CLink(p) == [peer |-> p, up |-> FALSE, pipe |-> 0, cut |-> FALSE, frees |-> 0]
CLinks == [peer : Peer, up : BOOLEAN, pipe : 0 .. MaxConns, cut : BOOLEAN,
           frees : 0 .. 2]

(* A Link object: _c_link, the c_link its 'down' listener keeps, and the   *)
(* last event the application saw ("none": no object yet).                 *)
NoLink == [c |-> 0, own |-> 0, seen |-> "none"]
NoLinks == [links |-> {}, dead |-> {}, obj |-> [p \in Peer |-> NoLink],
            ticks |-> <<>>]

(* The C link of a peer, or 0.                                             *)
LiveIn(h, p) ==
  LET S == {c \in DOMAIN h : h[c].peer = p /\ h[c].frees = 0}
  IN  IF S = {} THEN 0 ELSE CHOOSE c \in S : TRUE

TickFirst(j, kind, p, at) ==
  [j EXCEPT !.ticks = <<[kind |-> kind, peer |-> p, at |-> at]>> \o @]
Tick(j, kind, p, at) ==
  [j EXCEPT !.ticks = Append(@, [kind |-> kind, peer |-> p, at |-> at])]

Init ==
  /\ heap = <<>> /\ conn = <<>> /\ aaa = 0 /\ js = NoLinks /\ busy = 0
  /\ accept = {} /\ reject = {} /\ offers = {}
  /\ ask \in BOOLEAN

Quiet == busy = 0 /\ js.ticks = <<>>

-----------------------------------------------------------------------------
(* The mesh_on_link callback, called by the library when a link comes up   *)
(* or goes down, and by core.js through mesh_link.  A peer that was here   *)
(* before gets its old Link object back.                                   *)
OnLinkAgain(j, h, c) ==
  LET p == h[c].peer IN
  IF h[c].up
  THEN Tick([j EXCEPT !.obj[p].c = c, !.obj[p].own = c, !.links = @ \cup {p}],
            "up", p, c)
  ELSE [j EXCEPT !.dead = @ \cup {p}, !.links = @ \ {p}]
OnLink(j, h, c) ==
  LET p == h[c].peer IN
  CASE h[c].up /\ p \notin j.links /\ p \in j.dead ->
         Tick([j EXCEPT !.obj[p].c = c], "up", p, c)
    [] h[c].up /\ p \notin j.links /\ p \notin j.dead ->
         Tick([j EXCEPT !.obj[p] = [c |-> c, own |-> c, seen |-> "new"],
                        !.links = @ \cup {p}], "up", p, c)
    [] ~h[c].up /\ p \in j.links ->
         [j EXCEPT !.dead = @ \cup {p}, !.links = @ \ {p}]
    [] OTHER -> j

(* The end of a turn of the receive loops, after mesh_receive has returned *)
(* link c, or 0: the first link of a connection gets its pipe.  h and j    *)
(* are the heap and the Mesh object by then.                               *)
PlumbedLate(s, c, h, j) ==
  /\ conn' = [conn EXCEPT ![s].last = c, ![s].greeted = TRUE,
                          ![s].linked = IF @ = 0 THEN c ELSE @]
  /\ heap' = h
  /\ js' = IF c # 0 /\ conn[s].linked = 0 THEN OnLink(j, h, c) ELSE j
Plumb(s, c, h, j) ==
  LET first == c # 0 /\ conn[s].linked = 0 IN
  /\ conn' = [conn EXCEPT ![s].last = c, ![s].greeted = TRUE,
                          ![s].linked = IF first THEN c ELSE @]
  /\ heap' = IF first THEN [h EXCEPT ![c].pipe = s] ELSE h
  /\ js' = IF first THEN OnLink(j, h, c) ELSE j

(* frames() and chunks(): a connection for a stream.  Each Frames object   *)
(* replaces the on_discover callback of the one before.                    *)
Connect(p, kind) ==
  /\ Quiet
  /\ Len(conn) < MaxConns
  /\ Crossed \/ \A s \in DOMAIN conn : conn[s].open => conn[s].peer # p
  /\ conn' = Append(conn, [kind |-> kind, peer |-> p, open |-> TRUE,
                           linked |-> 0, last |-> 0,
                           greeted |-> FALSE])
  /\ aaa' = IF kind = "frames" THEN Len(conn) + 1 ELSE aaa
  /\ UNCHANGED <<heap, js, busy, accept, reject, ask, offers>>

(* A packet of a 'data' callback of connection s: the first one, or one    *)
(* more.  The peer's constructor sends the greeting first, and the stream  *)
(* keeps the order.                                                        *)
Packet(s) ==
  /\ s \in DOMAIN conn /\ conn[s].open
  /\ Quiet \/ busy = s
  /\ Len(js.ticks) < MaxTicks
  /\ busy' = s
  /\ UNCHANGED <<aaa, accept, reject, ask, offers>>

(* _open, and the decision of the two on_discover callbacks.               *)
Open == accept = {} /\ ~ask
Welcome(p) == p \notin reject /\ (Open \/ p \in accept)

(* A greeting, or a handshake without a link: the packet is "discovered".  *)
(* The callback of start adds a link for a welcome peer; for the others    *)
(* that of Frames asks the application at the next tick.                   *)
Discover(s) ==
  LET p == conn[s].peer
      new == Welcome(p) /\ LiveIn(heap, p) = 0
      h == IF new THEN Append(heap, CLink(p)) ELSE heap
      j == IF aaa # 0 /\ ~Welcome(p) /\ p \notin reject
           THEN Tick(js, "discover", p, aaa) ELSE js
  IN  /\ Packet(s)
      /\ Plumb(s, LiveIn(h, p), h, j)

(* A handshake for a link brings it up, with an on_link event if it was    *)
(* not.                                                                    *)
Handshake(s) ==
  /\ Packet(s) /\ conn[s].greeted
  /\ LET c == LiveIn(heap, conn[s].peer)
         h == [heap EXCEPT ![c].up = TRUE]
     IN  /\ c # 0
         /\ Plumb(s, c, h, IF heap[c].up THEN js ELSE OnLink(js, h, c))

(* A packet of a channel; an open is passed on at the next tick.           *)
ChannelOpen(s) ==
  /\ Packet(s) /\ conn[s].greeted
  /\ LET c == LiveIn(heap, conn[s].peer) IN
       /\ c # 0 /\ heap[c].up
       /\ Plumb(s, c, heap, Tick(js, "open", conn[s].peer, c))

(* A packet that mesh_receive knows no link for.                           *)
Junk(s) == Packet(s) /\ conn[s].greeted /\ Plumb(s, 0, heap, js)

EndData ==
  /\ busy # 0
  /\ busy' = 0
  /\ UNCHANGED <<heap, conn, aaa, js, accept, reject, ask, offers>>

(* The next callback of nextTick: 'up' (and 'link') of a Link object, an   *)
(* 'open' event, or a 'discover' event with its callback.                  *)
NextTick ==
  /\ busy = 0 /\ js.ticks # <<>>
  /\ LET t == Head(js.ticks)
         j == [js EXCEPT !.ticks = Tail(@)]
     IN  /\ js' = IF t.kind = "up"
                  THEN [j EXCEPT !.links = @ \cup {t.peer},
                                 !.obj[t.peer].seen = "up"]
                  ELSE j
         /\ offers' = IF t.kind = "discover" /\ ask
                      THEN offers \cup {[peer |-> t.peer, at |-> t.at]}
                      ELSE offers
  /\ UNCHANGED <<heap, conn, aaa, busy, accept, reject, ask>>

(* The application calls the callback of a 'discover' event: mesh_add with *)
(* a packet the library may have freed by then (good: it still reads well) *)
(* and the pipe of the Frames object that asked.                           *)
TakeOffer(o, good) ==
  LET h == IF LiveIn(heap, o.peer) = 0 THEN Append(heap, CLink(o.peer))
           ELSE heap
      c == LiveIn(h, o.peer)
      first == good /\ conn[o.at].linked = 0
  IN
  /\ busy = 0 /\ Len(js.ticks) < MaxTicks
  /\ Astray \/ (conn[o.at].open /\ conn[o.at].peer = o.peer)
  /\ offers' = offers \ {o}
  /\ conn' = IF first THEN [conn EXCEPT ![o.at].linked = c] ELSE conn
  /\ heap' = IF first THEN [h EXCEPT ![c].pipe = o.at]
             ELSE IF good THEN h ELSE heap
  /\ js' = IF first THEN OnLink(js, h, c) ELSE js
  /\ UNCHANGED <<aaa, busy, accept, reject, ask>>

Accept(p) ==
  /\ Quiet
  /\ accept' = accept \cup {p}
  /\ UNCHANGED <<heap, conn, aaa, js, busy, reject, ask, offers>>

Reject(p) ==
  /\ Quiet
  /\ reject' = reject \cup {p}
  /\ UNCHANGED <<heap, conn, aaa, js, busy, accept, ask, offers>>

(* The application takes a link down itself, by the exported link_down:    *)
(* the pipe is gone, on_link is called.                                    *)
AppDown(p) ==
  LET c == js.obj[p].c
      h == [heap EXCEPT ![c].up = FALSE, ![c].pipe = 0, ![c].cut = TRUE]
  IN
  /\ busy = 0
  /\ p \in js.links /\ js.obj[p].seen = "up"
  /\ heap' = h
  /\ js' = OnLink([js EXCEPT !.obj[p].seen = "down"], h, c)
  /\ UNCHANGED <<conn, aaa, busy, accept, reject, ask, offers>>

(* The 'down' listener of a Link object: out of _links, link_down (whose   *)
(* on_link event finds nothing to do) and link_free of its own c_link.     *)
GoDownKept(p) ==
  LET c == js.obj[p].own IN
  /\ js' = [js EXCEPT !.dead = @ \cup {p}, !.obj[p].seen = "down"]
  /\ heap' = [heap EXCEPT ![c].up = FALSE, ![c].pipe = 0, ![c].frees = @ + 1]
GoDown(p) ==
  LET c == js.obj[p].own IN
  /\ js' = [js EXCEPT !.links = @ \ {p}, !.dead = @ \cup {p},
                      !.obj[p].seen = "down"]
  /\ heap' = [heap EXCEPT ![c].up = FALSE, ![c].pipe = 0, ![c].frees = @ + 1]

(* The link that the 'close' callback looks up.                            *)
ClosingLast(s) == conn[s].last
Closing(s) == IF conn[s].kind = "frames" \/ conn[s].linked = 0
              THEN conn[s].linked ELSE conn[s].last

(* The stream emits 'close': 'down' for the Link object of its link.       *)
Close(s) ==
  LET c == Closing(s)
      p == IF c = 0 THEN conn[s].peer ELSE heap[c].peer
  IN
  /\ Quiet
  /\ s \in DOMAIN conn /\ conn[s].open
  /\ Again \/ p \notin js.links \/ js.obj[p].own = js.obj[p].c
  /\ conn' = [conn EXCEPT ![s].open = FALSE]
  /\ IF c # 0 /\ p \in js.links THEN GoDown(p) ELSE UNCHANGED <<heap, js>>
  /\ UNCHANGED <<aaa, busy, accept, reject, ask, offers>>

Next ==
  \/ \E p \in Peer, kind \in {"frames", "chunks"} : Connect(p, kind)
  \/ \E s \in DOMAIN conn : Discover(s)
  \/ \E s \in DOMAIN conn : Handshake(s)
  \/ \E s \in DOMAIN conn : ChannelOpen(s)
  \/ \E s \in DOMAIN conn : Junk(s)
  \/ EndData
  \/ NextTick
  \/ \E o \in offers, good \in BOOLEAN : TakeOffer(o, good)
  \/ \E p \in Peer : Accept(p)
  \/ \E p \in Peer : Reject(p)
  \/ \E p \in Peer : AppDown(p)
  \/ \E s \in DOMAIN conn : Close(s)

Spec == Init /\ [][Next]_vars

(* Peers differ in nothing.                                                *)
Symmetry == Permutations(Peer)
-----------------------------------------------------------------------------
(* Properties.                                                             *)

(* The values each variable takes.                                         *)
TypeOK ==
  /\ heap \in Seq(CLinks)
  /\ conn \in Seq([kind : {"frames", "chunks"}, peer : Peer, open : BOOLEAN,
                   linked : 0 .. Len(heap), last : 0 .. Len(heap),
                   greeted : BOOLEAN])
  /\ aaa \in 0 .. Len(conn) /\ busy \in 0 .. Len(conn)
  /\ js.links \subseteq Peer /\ js.dead \subseteq Peer
  /\ js.obj \in [Peer -> [c : 0 .. Len(heap), own : 0 .. Len(heap),
                          seen : {"none", "new", "up", "down"}]]
  /\ js.ticks \in Seq([kind : {"up", "open", "discover"}, peer : Peer,
                       at : Nat])
  /\ accept \subseteq Peer /\ reject \subseteq Peer /\ ask \in BOOLEAN

(* Mesh._links is the truth: between callbacks it holds the Link objects   *)
(* of exactly the peers whose C link is up, each with that C link.         *)
RegistryMatches ==
  Quiet => \A p \in Peer :
    LET c == LiveIn(heap, p) IN
    /\ p \in js.links <=> c # 0 /\ heap[c].up
    /\ p \in js.links => js.obj[p].c = c /\ js.obj[p].seen = "up"

(* A Link object emits 'up' once for each time it comes up, although       *)
(* on_link is called twice for one event (by the library and through       *)
(* mesh_link) and an old object is not in _links before the tick.          *)
UpOnce ==
  \A p \in Peer :
    LET ups == {i \in DOMAIN js.ticks :
                  js.ticks[i].kind = "up" /\ js.ticks[i].peer = p}
    IN  Cardinality(ups) + (IF js.obj[p].seen = "up" THEN 1 ELSE 0) <= 1

(* 'open' comes with a Link object the application knows: 'link' and 'up'  *)
(* were emitted before, unless the application took the link down itself.  *)
OpenHasLink ==
  busy = 0 /\ js.ticks # <<>> /\ Head(js.ticks).kind = "open" =>
    LET t == Head(js.ticks) IN
    heap[t.at].cut \/ (t.peer \in js.links /\ js.obj[t.peer].seen = "up")

(* "catch new link and plumb delivery pipe" (the receive loop of Frames):  *)
(* the link an open connection has caught is there, is its own peer's, and *)
(* has the pipe of an open connection to that peer, unless the application *)
(* took the link down itself.                                              *)
Plumbed ==
  \A s \in DOMAIN conn :
    LET c == conn[s].linked IN
    Quiet /\ conn[s].open /\ c # 0 =>
      /\ heap[c].frees = 0
      /\ heap[c].peer = conn[s].peer
      /\ \/ heap[c].cut
         \/ heap[c].pipe # 0 /\ conn[heap[c].pipe].open
              /\ conn[heap[c].pipe].peer = conn[s].peer

(* A link in _links has a connection: 'close' takes it out.  (The 'close'  *)
(* callback of Chunks looks at the result of the last packet, so a chunked *)
(* connection that ended with a packet without link leaves its link        *)
(* behind.)                                                                *)
Connected ==
  Quiet => \A p \in js.links : \E s \in DOMAIN conn :
    /\ conn[s].peer = p /\ conn[s].linked = js.obj[p].c
    /\ conn[s].open \/ (conn[s].kind = "chunks" /\ conn[s].last = 0)
=============================================================================
