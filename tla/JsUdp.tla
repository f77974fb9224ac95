-------------------------------- MODULE JsUdp -------------------------------
(***************************************************************************)
(* The UDP samples of the JavaScript bindings: src/js/samples/send.js, a   *)
(* client that discovers the server by one hello and sends it the lines of *)
(* its standard input, and src/js/samples/udp.js, the server that answers  *)
(* hellos and prints the lines.  Both draw a new identity each time they   *)
(* start.  The exchanges behind the links are those of module Exchange.    *)
(*                                                                         *)
(* Datagrams may be lost, delivered twice and overtake each other.  Nobody *)
(* sends anything again, so a datagram that is lost may be missed for      *)
(* ever: lost remembers it.                                                *)
(*                                                                         *)
(* An operator defined just before another with the same parameters is a   *)
(* deliberately wrong variant: replacing the second by the first must make *)
(* a property fail.                                                        *)
(***************************************************************************)
EXTENDS Exchange, Sequences, SequencesExt

CONSTANTS
  MaxRuns,      \* bound: starts of the client
  MaxServers,   \* bound: starts of the server
  MaxLines,     \* bound: lines typed in a run of the client
  MaxClock,     \* bound: what util_sys_seconds may return
  MaxNet        \* bound: datagrams on their way to one side

ASSUME JsUdpAssumption ==
  /\ MaxRuns \in Nat /\ MaxServers \in Nat \ {0} /\ MaxLines \in Nat
  /\ MaxClock \in Nat \ {0} /\ MaxNet \in Nat \ {0}

Run == 1 .. MaxRuns
Server == 1 .. MaxServers

VARIABLES
  order,    \* order[r][h]: whose key sorts first, client r's or server h's
  run,      \* starts of the client so far
  client,   \* the process that runs: the links of its mesh, the server its
            \* variable link leads to, typed lines
  server,   \* its start and its links, one for each client it met
  net,      \* net.c, net.s: datagrams on their way to the client, the server
  keys,     \* exchanges created so far, the source of fresh keys
  printed,  \* printed[r]: the lines of client r on the server's console
  lost,     \* a datagram was lost, or the server restarted
  swapped   \* a datagram has overtaken another

vars == <<order, run, client, server, net, keys, printed, lost,
          swapped>>

NoLink == [x |-> XNew(1, NoKey), pipe |-> FALSE]
Off == [on |-> FALSE, peer |-> 0, links |-> [h \in Server |-> NoLink],
        typed |-> 0]
NoLinks == [r \in Run |-> NoLink]

Init ==
  /\ order \in [Run -> [Server -> {1, 2}]]
  /\ run = 0 /\ client = Off /\ server = [id |-> 1, links |-> NoLinks]
  /\ net = [c |-> <<>>, s |-> <<>>]
  /\ keys = 0 /\ printed = [r \in Run |-> <<>>] /\ lost = FALSE
  /\ swapped = FALSE

-----------------------------------------------------------------------------
(* Datagrams.  id: who sent it.  A handshake is readable by the server or  *)
(* client it was made for, a line in the session of two keys.              *)
Hello(id) == [kind |-> "hello", id |-> id, to |-> 0, at |-> 0, key |-> 0,
              for |-> 0, c |-> 0, n |-> 0]
HandshakeMsg(id, to, x) ==
  [Hello(id) EXCEPT !.kind = "handshake", !.to = to, !.at = x.out,
                    !.key = x.key]
Line(id, x, n) ==
  [Hello(id) EXCEPT !.kind = "line", !.key = x.key, !.for = x.eid,
                    !.c = x.cid, !.n = n]

(* Sending ms to one side; a network that is full loses the rest.          *)
Full(q, ms) == Len(q) + Len(ms) > MaxNet
Sent(q, ms) == IF Full(q, ms) THEN SubSeq(q \o ms, 1, MaxNet) ELSE q \o ms

(* A datagram taken out of the queue, or left there to come a second time. *)
Rest(q, i) == {RemoveAt(q, i), q}

(* link_pipe, and link_sync after a handshake: the current handshake.      *)
SyncedNever(id, to, x) == <<>>
Synced(id, to, x) ==
  IF CanHandshake(x) THEN <<HandshakeMsg(id, to, x)>> ELSE <<>>

(* link_get_key: the link of a key, with an exchange; a new one if need be.*)
Linked(l, ord, now) ==
  IF l.x.key # NoKey THEN l ELSE [l EXCEPT !.x = XOut(XNew(ord, keys + 1), now)]

(* link_receive_handshake: the new exchange, and whether to send ours.     *)
Applied(x, m) ==
  LET y == XIn(x, m.at)
      z == XSync(y, m.key)
  IN  IF y.in < x.out THEN [x |-> y, sync |-> TRUE]
      ELSE [x |-> z, sync |-> z.out # x.out]

-----------------------------------------------------------------------------
(* send.js starts: a mesh with new keys, and one hello to the server.      *)
ClientStart ==
  /\ ~client.on /\ run < MaxRuns
  /\ run' = run + 1
  /\ client' = [Off EXCEPT !.on = TRUE]
  /\ net' = [c |-> <<>>, s |-> Sent(net.s, <<Hello(run + 1)>>)]
  /\ lost' = (lost \/ Full(net.s, <<Hello(run + 1)>>))
  /\ UNCHANGED <<order, server, keys, printed, swapped>>

ClientEnd ==
  /\ client.on
  /\ client' = Off
  /\ net' = [net EXCEPT !.c = <<>>]
  /\ UNCHANGED <<order, run, server, keys, printed, lost, swapped>>

(* receive of send.js with a hello: link and pipe, and from now on the     *)
(* lines go to that link.  What is sent replies to where the hello came    *)
(* from.                                                                   *)
ClientHello(m, rest) ==
  \E now \in 1 .. MaxClock :
    LET old == client.links[m.id]
        l == [Linked(old, order[run][m.id], now) EXCEPT !.pipe = TRUE]
        ms == Synced(run, m.id, l.x)
    IN
    /\ m.kind = "hello"
    /\ client' = [client EXCEPT !.peer = m.id, !.links[m.id] = l]
    /\ keys' = IF old.x.key = NoKey THEN keys + 1 ELSE keys
    /\ net' = [c |-> rest, s |-> Sent(net.s, ms)]
    /\ lost' = (lost \/ Full(net.s, ms))
    /\ UNCHANGED <<order, run, server, printed>>

(* ... and with anything else: mesh_receive, which knows the handshakes of *)
(* the links only.                                                         *)
ClientReceive(m, rest) ==
  LET l == client.links[m.id]
      known == m.to = run /\ l.x.key # NoKey
      a == Applied(l.x, m)
      ms == IF a.sync THEN Synced(run, m.id, a.x) ELSE <<>>
  IN
  /\ m.kind = "handshake"
  /\ client' = IF known THEN [client EXCEPT !.links[m.id].x = a.x] ELSE client
  /\ net' = [c |-> rest, s |-> IF known THEN Sent(net.s, ms) ELSE net.s]
  /\ lost' = (lost \/ (known /\ Full(net.s, ms)))
  /\ UNCHANGED <<order, run, server, keys, printed>>

(* A line on standard input: refused without a link; link_direct takes a   *)
(* channel id, and drops the line when there is no session yet.            *)
Type ==
  LET x == client.links[client.peer].x
      n == client.typed + 1
      ms == IF x.eid # NoKey THEN <<Line(run, x, n)>> ELSE <<>>
  IN
  /\ client.on /\ client.peer # 0 /\ client.typed < MaxLines
  /\ client' = [client EXCEPT !.typed = n,
                              !.links[client.peer].x = XNextCid(x)]
  /\ net' = [net EXCEPT !.s = Sent(@, ms)]
  /\ lost' = (lost \/ Full(net.s, ms))
  /\ UNCHANGED <<order, run, server, keys, printed, swapped>>

-----------------------------------------------------------------------------
(* receive of udp.js with a hello: link, hello back, pipe.                 *)
ServerHello(m, rest) ==
  \E now \in 1 .. MaxClock :
    LET old == server.links[m.id]
        l == [Linked(old, 3 - order[m.id][server.id], now) EXCEPT !.pipe = TRUE]
        ms == <<Hello(server.id)>> \o Synced(server.id, m.id, l.x)
        there == client.on /\ m.id = run
    IN
    /\ m.kind = "hello"
    /\ server' = [server EXCEPT !.links[m.id] = l]
    /\ keys' = IF old.x.key = NoKey THEN keys + 1 ELSE keys
    /\ net' = [c |-> IF there THEN Sent(net.c, ms) ELSE net.c, s |-> rest]
    /\ lost' = (lost \/ (there /\ Full(net.c, ms)))
    /\ UNCHANGED <<order, run, client, printed>>

(* mesh_receive with a handshake.                                          *)
ServerReceive(m, rest) ==
  LET l == server.links[m.id]
      known == m.to = server.id /\ l.x.key # NoKey
      a == Applied(l.x, m)
      there == client.on /\ m.id = run
      ms == IF known /\ a.sync /\ there THEN Synced(server.id, m.id, a.x) ELSE <<>>
  IN
  /\ m.kind = "handshake"
  /\ server' = IF known THEN [server EXCEPT !.links[m.id].x = a.x] ELSE server
  /\ net' = [c |-> Sent(net.c, ms), s |-> rest]
  /\ lost' = (lost \/ Full(net.c, ms))
  /\ UNCHANGED <<order, run, client, keys, printed>>

(* mesh_receive with a line: decrypted in the session, its channel id      *)
(* checked, and printed by the callback of mesh_on_open.                   *)
PrintLine(m, rest) ==
  LET x == server.links[m.id].x
      ok == x.eid = m.key /\ x.key = m.for /\ ValidCid(x, m.c)
  IN
  /\ m.kind = "line"
  /\ server' = IF ok THEN [server EXCEPT !.links[m.id].x = XTakeCid(x, m.c)]
               ELSE server
  /\ printed' = IF ok THEN [printed EXCEPT ![m.id] = Append(@, m.n)]
                ELSE printed
  /\ net' = [net EXCEPT !.s = rest]
  /\ UNCHANGED <<order, run, client, keys, lost>>

(* The server starts again on the same port, with a new identity.  What is *)
(* on its way to it arrives all the same.                                  *)
ServerRestart ==
  /\ server.id < MaxServers
  /\ server' = [id |-> server.id + 1, links |-> NoLinks]
  /\ lost' = TRUE
  /\ UNCHANGED <<order, run, client, net, keys, printed, swapped>>

Lose(e) ==
  /\ \E i \in 1 .. Len(net[e]) : net' = [net EXCEPT ![e] = RemoveAt(@, i)]
  /\ lost' = TRUE
  /\ UNCHANGED <<order, run, client, server, keys, printed, swapped>>

(* A datagram arrives, any one of those on their way.                      *)
ToClient(i, rest) ==
  /\ ClientHello(net.c[i], rest) \/ ClientReceive(net.c[i], rest)
  /\ swapped' = (swapped \/ i > 1)
ToServer(i, rest) ==
  /\ \/ ServerHello(net.s[i], rest) \/ ServerReceive(net.s[i], rest)
     \/ PrintLine(net.s[i], rest)
  /\ swapped' = (swapped \/ i > 1)

Next ==
  \/ ClientStart \/ ClientEnd \/ Type \/ ServerRestart
  \/ \E e \in {"c", "s"} : Lose(e)
  \/ \E i \in 1 .. Len(net.c) : \E rest \in Rest(net.c, i) : ToClient(i, rest)
  \/ \E i \in 1 .. Len(net.s) : \E rest \in Rest(net.s, i) : ToServer(i, rest)

Spec == Init /\ [][Next]_vars

(* A datagram that is not lost arrives for the last time in the end.       *)
FairSpec ==
  /\ Spec
  /\ WF_vars(net.c # <<>> /\ ToClient(1, Tail(net.c)))
  /\ WF_vars(net.s # <<>> /\ ToServer(1, Tail(net.s)))
-----------------------------------------------------------------------------
(* Properties.                                                             *)

Messages == [kind : {"hello", "handshake", "line"}, id : Nat, to : Nat,
             at : Nat, key : Nat, for : Nat, c : Nat, n : Nat]
Links == [x : Exchanges, pipe : BOOLEAN]

(* The values each variable takes.                                         *)
TypeOK ==
  /\ run \in 0 .. MaxRuns
  /\ client \in [on : BOOLEAN, peer : 0 .. MaxServers,
                 links : [Server -> Links], typed : 0 .. MaxLines]
  /\ server \in [id : Server, links : [Run -> Links]]
  /\ net \in [c : Seq(Messages), s : Seq(Messages)]
  /\ printed \in [Run -> Seq(1 .. MaxLines)]
  /\ lost \in BOOLEAN

(* The lines of a client are printed in the order they were typed, each at *)
(* most once, although datagrams come twice and out of order, each side    *)
(* repeats its handshake, and a server that started again gets what was    *)
(* meant for the one before.                                               *)
PrintedInOrder ==
  \A r \in Run : \A i, j \in DOMAIN printed[r] :
    i < j => printed[r][i] < printed[r][j]

(* One hello is enough: whenever a client runs its link comes up, unless a *)
(* datagram is lost or the server restarted.                               *)
Establishes ==
  []<>(\/ ~client.on \/ lost
       \/ \E h \in Server : XUp(client.links[h].x))

Lines(q) == {m \in Range(q) : m.kind = "line"}
(* A line typed when the link was up is printed: it does not stay on its   *)
(* way, and when it is gone it has been printed, unless datagrams are lost *)
(* or overtake each other (an older channel id is refused, and so is a     *)
(* line that comes before the handshake that makes its session).           *)
LineArrives ==
  /\ []<>(Lines(net.s) = {} \/ lost \/ swapped)
  /\ [][\A m \in Lines(net.s) \ Lines(net'.s) :
          m.n \in Range(printed'[m.id]) \/ lost' \/ swapped']_vars
=============================================================================
