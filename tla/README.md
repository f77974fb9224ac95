# telehash-c: specification and verification

TLA+ modules for the protocol core of telehash-c and for its JavaScript
bindings, TLC configurations that check them on small instances, and TLAPS
proofs of the results that hold for every instance. The C sources are under
`src/src/`, the headers under `src/include/`, the bindings and their samples under
`src/js/`.

## 1. Inventory

telehash-c is a single-threaded C library. The application owns a *mesh*, the
mesh owns *links* to other endpoints, each link an *exchange* (the keys and the
handshake state) and a list of *channels*. Everything happens in calls from the
application or a transport: `mesh_receive` with a packet, `mesh_process` with
the time, or an API call. What makes it hard is not threads but order: the
network loses, duplicates and reorders, the other endpoint restarts, timers and
callbacks re-enter the library, and interrupts feed `util_frames`.

The bindings run the library, compiled to JavaScript, under node. `core.js` wraps
it in objects (`Mesh`, `Link`, `Channel`, `Frames`, `Chunks`) with events. Here the
order is that of node: one callback at a time, everything queued by
`process.nextTick` before the next one, write callbacks, timers and promises at
any time. Objects outlive the C structures they point to, so most hazards are
about what one layer still believes of the other.

| Component | State | Operations | Hard behaviour | Correct when |
|---|---|---|---|---|
| exchange (`e3x/exchange.c`) | `in`, `out` (handshake times), own and remote ephemeral key, `last`, `cid` | `_out`, `_in`, `_sync`, `_down`, `_cid`, `_handshake`, `_receive`, `_send` | old and repeated handshakes, restarts, parity rules | times keep their owner, ids are not used twice in a session |
| link: session (`link.c`) | `x`, `key`, `send_cb` (the pipe) | `link_get`, `_load`, `_pipe`, `_sync`, `_resync`, `_receive_handshake`, `_down`, `_free` | both sides start, resync and restart at once; nothing is retried by the library | `on_link` events match `link_up`; an up link has a session; both ends agree in the end |
| link: channels (`link.c`, `chan.c`) | `chans`, per channel `in`, `timeout`, `trecv`, handler | `link_chan`, `link_receive`, `link_process`, `chan_receive`, `chan_err`, `chan_process`, `chan_timeout` | handlers called in the middle of list surgery, repeated opens, frees | the list is the live channels, an id is unambiguous, an open is accepted once, a timeout fires in time |
| chunks (`util/chunks.c`) | write queue and offsets, `blocked`, `ack`, received chunks | `_send`, `_len`, `_write`, `_written`, `_read`, `_receive`, `_frame`, `_next` | short writes, both sides blocking, acks of acks | a FIFO of whole packets that comes to rest |
| frames (`util/frames.c`) | `in`/`inat`, `out`, two queues, lock bits | `_send`, `_receive`, `_inbox`, `_outbox`, `_sent`, `_clear` | interrupts inside `_send`/`_receive`, frames cut or lost | no dangling pointer; a FIFO; back in step after a loss |
| mesh (`mesh.c`) | links, callbacks, cached handshakes | `mesh_receive`, `_process`, `_unlink`, `_discover`, `_open`, `_forward` | dispatch by token, removal deferred to the next process, re-entrant sends | a packet reaches the link it belongs to; a removed link is gone |
| transports (`net/`) | sockets, buffers | read and write loops | loss, partial writes, re-entrant loopback | environment of the models |
| js: stream pumps (`core.js` Frames, Chunks; `samples/serial.js`) | queue, `flushing`, `readbuf` | flush, the callbacks of write and drain, timers, 'data', 'close' | everything calls flush; errors in the middle | one write at a time; a FIFO; never idle with blocks waiting |
| js: start-up (`core.js` Mesh) | keys, keystore, `_listen`, `_aborts` | `use`, `start`, `listen`, `stopListen` | asynchronous keystore, promises, crashes | a stored identity is kept; what listens can be stopped; start ends |
| js: links (`core.js` Mesh, Link) | `_links`, `_deadLinks`, `linked`, `_accept`, `_reject` | discovery, `on_link`, plumbing, 'down', `accept`, `reject` | several packets in one callback, ticks, links that come back | `_links` is the C library's truth; 'up' once, before 'open'; pipes of open connections |
| js: channels (`core.js` Channel) | `_c_chan`, the Duplex's buffer | `channel`, `init`, `console`, `send`, 'data', pause, resume | the C channel is freed under the object; pointers run out | FIFO both ways; the end is told; no send on freed memory |
| js: UDP samples (`samples/send.js`, `udp.js`) | one link, all links | hello, handshakes, lines | loss, duplication, reordering, restarts | lines once and in order; one hello is enough when nothing is lost |
| js: bridge (`include/index.js`) | function pointers | wrapping of C functions | pointers are never given back | with the modules that use it |
| lob, hashname, xht, util | buffers, tables | parsing, lists, sorting | none beyond their own algorithms | sequential |
| cipher sets, crypto | keys | encryption, hashing | numeric code | idealized: a message decrypts iff the keys are right |

`PROJECT.json` lists all components, including those left out, and under
`hazards` each hard-to-test place at its line with the properties aimed at it.

## 2. Modules

`Exchange` is a library of operators, one for each function of `exchange.c` that
changes the exchange. `Handshake` and `Channels` compose it with the two halves
of `link.c`: an exchange is one variable `x` there, and every action calls the
`Exchange` operators in the order in which the C function does. `Chunks`
implements the abstract `PacketPipe`, and so do `JsStream` and, channel by channel,
`JsChannels`. `JsUdp` puts two ends together over `Exchange`. `Mesh`, `Frames`,
`ChanTimer`, `JsStartup` and `JsLinks` stand alone: what is below them is in them
as far as they see it. `TypeOK` in each module (`TimerTypeOK`, `StartTypeOK` in
`ChanTimer` and `JsStartup`) says what its variables are; it is checked for
`Handshake` and proved for `Handshake`, `JsStartup`, `JsStream`, `JsChannels`, `JsUdp`,
`Mesh` and, inside the inductive invariant, `ChanTimer`; the invariants of the other
proofs carry types of their own. The other runs spend their properties on
behaviour. `ChanTimer`, `JsStartup` and `Frames` name their variables' tuple, initial state and
specification `timerVars`, `TimerInit`, `TimerSpec`, `startVars`, `StartInit`,
`StartSpec` and `frameVars`, `FrameInit`, `FrameSpec`, so that one module can extend
them beside another component.

**Exchange.** `XNew`, `XOut`, `XIn`, `XSync`, `XDown`, `XNextCid`, `ValidCid`,
`XTakeCid`. Keys are numbers; the parity of a time tells which of the two peers
chose it (`Align`). `uint32_t` never wraps in the bounded models (a hazard
without a property).

**Handshake.** Two peers with an inbox each. One action for each entry point:
`LinkGet`, `LinkLoad`, `LinkPipe`, `Sync` (link_sync by the application),
`LinkResync`, `LinkDown`, `Forget` (the link is freed, or the process is
restarted), and for an incoming handshake `Discover` (no link: `mesh_discover`
only tells the application), `ReceiveHandshake` and `ReceiveFirstHandshake`
(the key comes with the handshake). A received handshake may stay in the inbox
(duplication), be lost (`Lose`) or be overtaken (`Reordering`). `Clock` is what
`util_sys_seconds` may return to a peer that creates an exchange. `told` records
the last `on_link` event; `chosen` is a history variable: the times each peer
made up itself.

**Channels.** One link and its channels against an environment: the peer, its
restarts (new key, ids from the start) and a network that keeps every packet and
delivers it any number of times. `heap` is the memory of channels with a count
of how often each was freed and, as history, the session in which the channel was
created (`since`); `chans` are the pointers on the list (a set: nothing depends on
their order). `LinkProcessChan` is
the recursion of `link_process_chan` as a whole: all handlers run, then the list
is what that recursion returns. A handler is `none`, `drain` (the loop all
handlers of the repository have) or `relay` (it also opens a channel, which the
assignment of `link.c:464` loses: `Tracked`). `link_down` leaves the channels it
frees on the list. Once a pointer of the list dangles, what the code does is
undefined, and nothing more is modelled (`Sound`).

**Mesh.** The list `mesh->links` of one mesh, with links as heap cells and a
history of which were freed. `Get` is `link_get`, `link_get_key` and `mesh_add`,
which differ in whether they call `link_load`; `Unlink` marks (`csid = 0`).
`mesh_process` is four actions, split where the code calls out: `Process` reads
the first link and its `next` and runs channel handlers, `Stay` or `DropDown`
follows by the mark, `DropFree` comes after the down event. In between, every
other action may happen, since handlers and events call the library. `up` and
`told` stand for the session, which `Handshake` has in full; `held` are the links
the application counts on.

**ChanTimer.** The timeout of one silent channel with relative times, so that a
channel may live for ever in a finite model.

**PacketPipe / Chunks.** `PacketPipe` is the promise: packets sent in each
direction arrive whole, in order, each in the end. `Chunks` is
`util_chunks_struct` field by field at two endpoints. Each has a byte stream
(`StreamWrite`) or a framed transport (`FrameWrite`). A stream is a socket, which may
take less than it is offered and whose loop accounts for what it took (`tcp4.c`), or
a serial port, whose loop accounts for what it offered (`serial.c`). Reading is
byte-wise, which is what `_util_chunks_append` reduces a longer read to.
The bytes of a packet carry its number and their place, so a lost, repeated or
misplaced byte shows.

**Frames.** One sender and one receiver. The transport's calls are atomic (it is
an interrupt), the application's `util_frames_send` and `util_frames_receive`
are split at the point where an interrupt matters. Node k of a queue has address
k, and `outgone`/`ingone` say how many have been freed. `Outcomes` is
`util_frames_inbox` with its recursion into what is left of the data; as in the
code a frame is a header iff it is `HeaderLen` long. A datagram that is lost (`Lose`)
is one frame, a header or a packet.

**JsStream.** One direction of one stream: the pump of class `Frames`, of class
`Chunks` or of `serial.js` (`kind`), and the reader of `Frames`. `FlushOne` and
`FlushAll` are the two flush functions; every caller of them is an action: `Send`
(the pipe of the link), `OwnData`, `Timeout`, the callbacks `WriteDone`,
`WriteFailed`, `Drained`, `DrainFailed`. A block is `FrameSize` bytes that carry its
number and their place. `Data` brings any part of the wire, `Cut` is one turn of
the loop over `readbuf`.

**JsStartup.** A process that may crash at any moment and starts again. An
identity is the number of the run that made the keys. `Start` without a keystore
calls back at once; with one, `GotKeys` is its callback and `KeysStored` the end of
`_storeKeys`, for which nobody waits. A transport's promise is `pending` until
`Settle`; `Listening` and `ListenError` are the two ends of `Promise.all`.

**JsLinks.** From 'up' on. `heap` are the C links with the pipe each has, `conn` the
`Frames` and `Chunks` objects with their closure variables `linked` and `last` (the
`link` of Chunks), `js` the Mesh object: `_links`, `_deadLinks`, the Link object of
each peer with both its C links (`_c_link`, and the one its 'down' listener keeps)
and the queue of `nextTick`. `busy` is the connection whose 'data' callback runs: it
may hold several packets, and no tick runs before `EndData`. `Discover`,
`Handshake`, `ChannelOpen` and `Junk` are one turn of the receive loop each, by what
`mesh_receive` made of the packet; all end in `Plumb`. `OnLink` is the callback of
`mesh_on_link` as a whole. `TakeOffer` is the application calling the callback it
got with 'discover', at any later time; in the run and the proofs, while the
connection that is to carry the answer is open and leads to the peer in question
(`Astray`).

**JsChannels.** The channels of one link in three layers: C channel, Duplex,
application. `calling` is the channel whose 'data' listener runs: the C channel
whose end packet it is handed is freed only when it returns (`Return`). A stream
that does not flow buffers, and `Flow` emits one packet. `CanWrap` says whether
`addFunction` has a pointer left.

**JsUdp.** `send.js` and `udp.js` with one queue of datagrams to each side. Any
datagram may arrive next, stay to come again, or be lost. `ServerRestart` gives the
server a new identity and no links, and leaves what is on its way to it: it binds
the same port. So the client may meet several servers and keeps a link to each.
The receive functions
are split by what `hashname_vkey` and `mesh_receive` find: `ClientHello`,
`ClientReceive`, `ServerHello`, `ServerReceive`, `PrintLine`. `lost` and `swapped` are
history: nothing is sent again by either sample, so progress is stated for
behaviours without loss.

A definition that stands just before another with the same parameters and is not
used (`XOutUnaligned`, `FreedAlways`, ...) is a wrong variant, listed under
`mutants` with the property that must fail when it replaces the right one.

## 3. Runs

| Run | Checks | Bounds |
|---|---|---|
| HandshakeSafety | `TypeOK`, `AtProvenance`, `EventsMatchState`, `UpHasSession` under every network and clock | one resync, one down, one restart, two handshakes on their way to each peer, two clock values: enough for a stale handshake of each kind (before a resync, a down, a restart) to meet a newer one |
| HandshakeConverges | `Converges` (liveness) | as above, no reordering, clock past former times, two downs: of both links, or of one twice |
| ChunksDelivery | `WriteInBounds`, `FramingInSync`, refinement of `PacketPipe` (`DeliversPackets`), `ComesToRest` | cap 3; packets of one full chunk and of one full and one partial chunk; two packets in any distribution over the two directions; a wire of six bytes, so that a writer meets a full wire; one endpoint on a socket, one on frames |
| FramesDelivery | `NoDangling`, `InOrder`, `LossIsBounded`, `Delivers` (liveness) | headers of two bytes and packets of four and eight (8, 16 and 32, say, in the code), in any order; as datagrams four packets, since one loss may cost three, with one loss; over a stream twelve bytes of packets, which is up to three |
| ChannelsSafety | `FindsChannel`, `OpenOnce` | two channels, three packets, one restart of the peer, all three handlers |
| MeshRemoval | `WalkIsSafe`, `ListIsHeap`, `EventedDown`, `KeptLink`, `Removed` (liveness) | two hashnames, three links ever created, so that a hashname is removed and added again while another link is in the list |
| ChanTimerSafety | `NotEarly` | gaps of three ticks, timeouts of four |
| JsStreamDelivery | `OneWrite`, `NeverIdle`, refinement of `PacketPipe` (`InOrder`), `Delivers` (liveness) | all three pumps; four blocks of three bytes: one read, one under way, one waiting, one to come, cut anywhere by 'data' |
| JsStartupKeys | `KeepsIdentity`, `Stoppable`, `StartsUp` (liveness) | three runs (keys made, stored and loaded, with a crash between any two), two transports, of which one may fail |
| JsLinksLife | `RegistryMatches`, `UpOnce`, `OpenHasLink`, `Plumbed`, `Connected` | two peers, two connections in a row or side by side, two ticks waiting: a link that goes and comes back, with another peer's link beside it; peers are symmetric |
| JsChannelsLife | `SafeSend`, refinement of `PacketPipe` (`InOrder`), `Delivers` (liveness) | a channel opened from each side, one packet each way after the open, one or two function pointers, so that the last channel may get none |
| JsUdpSamples | `PrintedInOrder`, `Establishes`, `LineArrives` (liveness) | one client, a server that restarts once and gets what was meant for the one before, both orders of the keys, two lines, two datagrams on their way to each side |

The constants are the bounds and the assumptions about the environment; each is
described where it is declared. `CHECK_DEADLOCK FALSE` is set where a system that
has delivered everything, or has used up its bounds, rightly stops.

### What is excluded, and why

Some behaviour of the code breaks a property. Where the model has it, a constant
excludes it from the run; setting the constant and running the same configuration
shows the counterexample. Each is a hazard in `PROJECT.json`, with the comment of
the code it disagrees with.

| Constant | Fails | What the code does |
|---|---|---|
| `ClockBehind` (HandshakeConverges) | `Converges` | `link_load` starts `out` at the time of day. If that is not past what the peer used before it restarted, the other side answers with the old time, which has the restarted peer's own parity and is refused by `e3x_exchange_in`. Nobody moves again. |
| `DownResync` (HandshakeSafety) | `UpHasSession` | `link_resync` after `link_down` sets `out` again while `in` was kept. |
| `LastByteAlone`, `Lens = {4, 5}` (ChunksDelivery) | `DeliversPackets` | `util_chunks_written` recognises the final flush by `len == 1`; a last write of one data byte looks the same, and the packet is dropped without its flush. It never comes out, or comes out in one piece with the next. |
| `SerialShort`, with `Serial = {1}` (ChunksDelivery) | `DeliversPackets`, and `FramingInSync`, `ComesToRest` | `serial_flush` tells `util_chunks_written` of the `len` bytes it offered, not of the `ret` the port took (`serial.c:48`): after a short write bytes are missing, and the reader takes data for a size. |
| `CutHeaders` (FramesDelivery) | `InOrder`, `Delivers` | `util_frames_inbox` reads magic and length from the data of this call, not from the buffer in which a header in parts has been put together. |
| `HeaderLen \in Lens` (FramesDelivery) | `Delivers` | `util_frames_send` takes a packet of exactly 8 bytes (`frames.c:104`), and `util_frames_sent` then takes its packet frame for a header (`frames.c:276`): the packet stays in front of the queue for ever. |
| `Lens` not multiples of `HeaderLen` (FramesDelivery) | `LossIsBounded` | What is left of a frame begins the next header, and `frames.c:206` accepts it. |
| `OldSessions` (ChannelsSafety) | `OpenOnce`, `FindsChannel` | A session brought back by a repeated handshake accepts its old opens and packets again. |
| `Reget`, `LastMoment` (MeshRemoval) | `KeptLink`, `EventedDown` | A marked link is returned by `link_get`, or loaded again by its own down event, and freed under its holder. |
| `Crossed` (JsLinksLife) | `Plumbed`, `RegistryMatches`, `UpOnce`, `Connected` | With two connections to one peer at a time, `linked` of one keeps a link that was freed through the other. |
| `Astray` (JsLinksLife) | the same four | The answer to a discovery gives the link the pipe of the connection that replaced the callback "aaa" last (`core.js:196`), which may be to another peer, or have closed before the application answered: then a peer that has connected again gets the pipe of a closed stream. |
| `Again` (JsLinksLife) | `RegistryMatches` | The 'down' listener of a Link that came back frees its first C link a second time and leaves the second one up. |
| `Eager` (JsChannelsLife) | `Delivers`, `InOrder` | Packets right behind an open find no channel: it is made at the next tick. |

Some more is in the statement of a property: `SafeSend` leaves out paused
streams, `NeverIdle` and `Delivers` of `JsStream` streams with an error, `Stoppable` a
mesh that ended in 'error'. `Converges` allows for two links that were both taken
down (`BothSilent`): `out` is 0 on both sides, `e3x_exchange_handshake` has nothing to
send, `link_load` returns early on the exchange it finds, and nothing but
`link_resync` or a new link would begin again. `FindsChannel` has no other half: an
open of a renewed session goes into the old session's channel of the same id
(`link.c:285`). And `Tracked`, that every channel created and not freed is on the list,
is no property of a run: as an invariant of ChannelsSafety it fails with a handler
that opens a channel, which the result of `link_process_chan` wipes off the list
(`link.c:464`, `291`). And `ChanTimer` shows why `NotEarly` has no other half:
each `chan_process` moves the timeout on by the time since the last one, so that
in a loop faster than the timeout it never comes.

### Fairness

* *Handshake:* weak fairness of `LinkLoad`, `LinkPipe` and `Sync`, strong fairness
  of consuming a delivered handshake. The library sends a handshake once, so an
  application that wants its link must call `link_sync` again, as the programs of
  the repository do from their loops; a network that loses everything for ever
  excludes any progress.
* *Chunks, Frames:* weak fairness of the write, read and receive steps: the loops
  of the transports run all of them for each pipe at each turn. `Send` is not fair.
* *Mesh:* weak fairness of the steps of `mesh_process`, which every program of the
  repository calls from its loop; nothing is assumed of the application.
* *JsStream, JsStartup:* weak fairness of node's callbacks and timers, of the
  reader, and of the keystore's and the transports' answers; an error is an answer.
  Sends, errors in particular, crashes and 'close' are not fair.
* *JsChannels:* weak fairness of the end of callbacks and of ticks; strong fairness
  of `Receive`, since other callbacks of the application may come in between again
  and again and node's event loop still polls the transport in each round. The
  application never has to act.
* *JsUdp:* weak fairness of the last arrival of the datagram in front of each
  queue: one that is not lost arrives, and is not repeated for ever. Typing, ends
  and restarts are not fair.

## 4. Proofs

`HandshakeProofs` proves, for all values of the constants and without a bound on
inboxes or calls:

* `HandshakeTypeCorrect`: `Spec => []TypeOK`.
* `HandshakeAtProvenance`: `Spec => []AtProvenance`. The inductive invariant
  `IndInv` adds to `TypeOK` that every time kept or travelling is in `chosen` of its
  owner and that a message carries a real key (without that, synchronizing to it
  would leave the exchange without a session). It is inductive by the lemmas on
  the exchange (`XOutFacts`: a raised `out` has the parity of its owner;
  `XInFacts`, `XSyncFacts`: a time adopted from a message was good there) and on
  the network (`LinkSyncGood`, `RemainsGood`).
* `HandshakeSession`: with `~DownResync`, `Spec => [](EventsMatchState /\
  UpHasSession)`, and from it `HandshakeEvents`. `SessionInv` adds to `IndInv` that for
  each peer `told` is `link_up` and an up exchange has a remote key; neither half is
  inductive alone, since `link_down` tells the application only if the link was up.

`ChannelsProofs` ends with the timer of `ChanTimer`: `TimerNotEarly`,
`TimerSpec => []NotEarly`, from the invariant that the timeout is never before the
time asked for (`Kicked`).

`ChunksProofs` proves `ChunksWriteInBounds` and `ChunksFramingInSync`, for every cap
and packet length and however few bytes a socket takes, with `~SerialShort`: a
serial port takes a write whole. `ChunksInv` says of each
wire that a place where a size byte is leads to the next one (`Leads`): behind it
come as many data bytes as it says and then a size byte, unless the wire ends, and
then the bytes missing are those the writer has still to write of its chunk
(`Unwritten`). The reader is at such a place, less what its newest chunk has
(`InStep`). Stated place by place, this needs no induction over the bytes; the
lemmas `SizeWritten`, `DataWritten`, `SizeRead` and `DataRead` are the four ways a
wire changes.

`ChunksProofs` goes on to the refinement, `ChunksImplementsPipe`: with
`~LastByteAlone` and `~SerialShort`, `Spec => Pipe!Spec`, the safety part of `DeliversPackets`. `PipeInv` says of each byte which packet it belongs
to. A *spot* is a place between two bytes written: the packets complete there, the
bytes of the next one, the bytes missing of the chunk. In each direction
(`Direction`) the packets reassembled are the first of those sent, the chunks
received lead from there to some spot (`Holds`), the bytes on the wire from that
one to another (`Carries`), and that is where the writer is (`WritesAt`). A size of 0
leads from the end of a packet to the next, and from the start of one nowhere: it
is a flush or an ack by where it comes, which is why `util_chunks_receive` may drop
acks (`AcksLead`) and need not be told how long a packet is (`ChunksGather`). A spot
at the end of a packet is only reached if the flush is a write of its own;
`Chunked` (chunks begin at multiples of cap, and the last byte is never the only one
left) gives that, and it is where the hypothesis is used (`NoLastByte`).
`ChunksTypeCorrect`, with `~SerialShort` alone, is `Spec => []TypeOK`.

`JsStreamProofs` proves `StreamOneWrite` and `StreamNeverIdle` for every number of
blocks, from `PumpInv`: on an open stream the flag is set if and, without an error,
only if a write or a drain, and just one of them, is under way, and a queue with
blocks has the flag set or a timer. `FlushFacts` says what a flush does,
`FlushKeepsInv` covers its three callers (a send, incoming data, a timer). It also
proves `StreamTypeCorrect` and `StreamInOrder`: the detailed specification implements
`PacketPipe`, for every size of a block. `StreamInv` says where every block is: those
received, those whose bytes are in `readbuf` and on the wire, one behind the other
and possibly begun (`UnderWay`), those written and those in the queue are the
blocks sent, in order and without a gap.

`JsLinksProofs` ends with `JsStartup`: `StartupTypeCorrect`, `StartupKeepsIdentity` and
`StartupStoppable`, for any transports and any number of runs and crashes. `KeyInv`
adds that before the keystore has answered there is no identity and nothing is
being stored, so that a keystore may still be installed; `PortInv` adds what may
listen in each phase, and that nothing is pending while the mesh is up (or a late
promise could change what listens).

`MeshProofs` proves for any hashnames and any number of links `MeshTypeCorrect`,
`MeshWalkIsSafe` and `MeshListIsHeap` from `ListInv`: no link is on the list twice, the
list is what was created and not freed, a hashname has one link, and the two links
`mesh_process` has in hand are on the list and different, so that the `next` it read
before `link_process` is not the link that this call may free.
`MeshEventedDown` (with `~LastMoment`) and `MeshKeptLink` (with `~LastMoment`, `~Reget`)
add `EventInv`, that an event told follows the session, and `KeptInv`, that what the
application holds has no mark. The module ends with `Frames`:

* `FramesNoDangling`, `FrameSpec => []NoDangling`, from the invariant that a head
  pointer is kept only while `is_sending` is set.
* `FramesInOrder`, with `~CutHeaders` and `HeaderLen \notin Lens`: from a stream, the
  application gets the packets sent, whole and in order, for every length of header
  and packets longer than it. A *spot* is a
  place between two bytes of what is sent: the packet it is about, its header or
  its data, how many bytes of it are past. `SenderOK` says of the sender's queue
  which packet each node has, `ReceiverOK` the same of the receiver's, and `WireOK`
  that a sequence of spots leads, one byte of the wire at each step, from where the
  receiver is (what `in` holds is the part of the frame before its spot) to where
  the sender goes on writing. A path that exists needs no induction over the wire:
  a write extends it at its end, and a read of n bytes drops its first n
  (`PathGrow`, `PathDrop`). The bytes of one read are another matter, since
  `util_frames_inbox` goes through all of them in one step, as a recursion: for them
  `InboxInduction` shows that what each byte keeps holds at the end. It takes the
  least byte after which it fails (`LeastNumber`).
* `FramesTypeCorrect`, for both transports. `Lens # {}` says that there is something to
  send, so that a header is not longer than the receiver allows.

`ChannelsProofs` proves, for any number of channels, packets and restarts:

* `ChannelsFindsChannel`, with `~OldSessions` and with all handlers and `link_down` at
  any moment: our ids are odd and below the next one, the peer's are even and on the
  list once (`IdsInv`); the current session is the newest that was ever in use
  (`SinceInv`), and a packet is decrypted in the current session alone, so that one
  that waits is not older than its channel.
* `ChannelsOpenOnce`, with `~OldSessions`: an open that was accepted belongs to a
  session that was used, and in the current session its id is used up (`OpensInv`).

`JsLinksProofs` proves all that the run JsLinksLife checks, `LinksRegistryMatches`,
`LinksUpOnce`, `LinksOpenHasLink`, `LinksPlumbed` and `LinksConnected`, with `~Crossed`,
`~Astray` and `~Again`, for any number of peers, connections, ticks and links. None of the five is
inductive, and they need each other; `LinksInv` has them all. `PipeInv`: a peer has one
C link that is not freed and one open connection; what a connection has caught is
that link, and one that was greeted has caught what there is. `Registered`: the
Link object of a link that is up has seen 'up' or has exactly one tick to come that
emits it, and in the second case the connection it came by is still open.
`OpenInv`: in front of the tick of an 'open' is that of its 'up'. With them a link that
comes up was caught before, and one caught for the first time is up only if its
object is in `_links`, so that the call of `on_link` through `mesh_link` finds nothing
to do (`FirstTurn`); `Turned` covers every turn of the receive loops that takes no link
up.

`JsChannelsProofs` proves, for any channels, packets and function pointers:

* `JsChannelsTypeCorrect` and `JsChannelsSafeSend`, from `StreamInv`. A stream that was
  never paused has nothing buffered: it flows, or the tick of its constructor that
  makes it flow is still to come, and no packet comes in before that tick
  (`InStep`). So its listener has heard the end, or is hearing it, when the library
  frees the C channel, and a later send stops at `ended`.
* `JsChannelsInOrder`, with `~Eager`: each channel implements `PacketPipe`. `PipesInv` says
  where each packet is: those the application got, those in the Duplex's buffer
  (at the end perhaps the error packet of `link_down`), those on their way, each
  numbered, in order and without a gap (`Brings`). `Brings` speaks of the packets of
  one channel in a queue shared by all, without a filter over the queue, so that
  nothing in it needs an induction. An open the peer sent is in front of the queue
  or in `nextTick`, once (`Unopened`, `OpensOnce`).

`JsUdpProofs` proves `JsUdpTypeCorrect` and `JsUdpPrintedInOrder` for any number of
clients, restarts and lines and any network, with the datagrams meant for one start
of the server reaching the next. Channel ids alone do not give the order: they
start again with each session. `ServersInv`: what comes from a server names a start
that was, and the client's links lead to such starts. `KeysInv`: a key is made once
and stays with the link that made it, so a handshake carries the key of one link.
`OneKey`: hence between a run of the client and the server that runs there is one
session; a repeated handshake resets nothing. `LinesInv`: in one session the
channel ids follow the numbers of the lines. `RunsInv`: of the runs to come nothing
is known. `PrintedInv` is the point: a line on its way that belongs to a session with
the server that runs is larger than the last one printed, by this server or one
before, or the server refuses it (`Refused`), so only larger lines get through. All of them
speak only of datagrams that are there, so that loss, repetition and reordering
keep them (`UdpQuiet`); `UdpClientLink` and `UdpServerLink` are what every step does
that changes a link.

A theorem with a hypothesis on a constant (`~DownResync`, `~LastByteAlone`, ...) is about the
behaviours without what the table *What is excluded, and why* describes; with it
a property fails, as TLC shows there. The runs have the same values.

The assumptions on constants (`HandshakeAssumption`, `ChanTimerAssumption`,
`ChunksAssumption`, `FramesAssumption`, `JsStreamAssumption`, `JsStartupAssumption`, `MeshAssumption`,
`ChannelsAssumption`, `JsLinksAssumption`, `JsChannelsAssumption`, `JsUdpAssumption`)
are types and, for `Frames` and `Chunks`, lengths.

Only model-checked:

* all liveness (`Converges`, `ComesToRest`, `Removed`, `StartsUp`, `Delivers`,
  `Establishes`, `LineArrives`): the prover has no rules for fairness;
* `LossIsBounded` of `Frames`: it charges each packet missing to a loss, over the
  history of a receiver that is out of step. What it says of a number of packets
  would have to become an invariant of every place in such a history.

## 5. Not modelled

Cryptography, packet parsing and the buffers of `lob.c`, hash tables and base
encodings (sequential, covered by test vectors); socket set-up (I/O); the
extensions under `src/ext` (written for an interface the headers no longer have
and not built); `chan_sync` (a TODO in the code); `inbox_err` of frames, which
only `util_frames_ok` reads. Memory exhaustion is not modelled anywhere.

Of the bindings: `Link.close`, which throws before it changes anything
(`core.js:360`); `direct`, which keeps no state; `start` called twice, and `listen`
called while it listens; middleware of type `rng` and `channel`; keys in the
environment; `lob.chunking` (an npm package); the conversions of `index.js` other
than functions and `BUFFER`; `thc.js`, which emscripten generates; the set-up and
console output of the samples.

Dangers of the code that lie outside the models, or about which there is nothing
to state yet:

* `exchange.c:153`: `ephemeral_new` fails after `in` and `out` were updated.
* `exchange.c:105`: times wrap at 2^32 to 0, which means no handshake.
* `exchange.c:243`: an open overtaken by a later one is refused for good, by design.
* `chunks.c:230`: `waiting` is reset before it is compared with `cap`, so a writer
  never blocks after a full chunk; the receiver's buffer is the transport's affair.
* `chan.c:164`: an error is pushed at the end of the queue, not at its top.
* `frames.c:101`, `29`: packets longer than the receiver allows (excluded by
  `FramesAssumption`), `inbox_err` sharing a byte with the lock bits.
* `core.js:111`, `121`, `149` call an older interface of frames than `util_frames.h`
  declares (`util_frames_new(frame_size)`, and `inbox` and `outbox` with a frame of a
  fixed size): `JsStream` models the bindings over that interface, `Frames` the C code
  as it is.
* `loopback.c:9`: a handshake re-entered before the first one has fired its event.
* `mesh.c:142`: callbacks of `mesh_process` that call `link_free` or `mesh_process`
  again. `Mesh` lets them get, mark, repair, bring up and take down links.
* `core.js:360`, `index.js:57`: `Link.close` and `CALLBACK` name what is not in scope.
* `index.js:22`: memory for a string is counted in characters and written in UTF-8.

## 6. Plan

Done: `Exchange`, `Handshake`, `Chunks`/`PacketPipe`, `Channels`, `ChanTimer`,
`Frames`, `Mesh` (links and their removal), the bindings (`JsStream`, `JsStartup`,
`JsLinks`, `JsChannels`, `JsUdp`), and the proofs above. Next, in this order:

1. The rest of `mesh.c` in `Mesh`: `mesh_receive` by token, forwarding, the list
   of callbacks, and the loopback transport, whose send is a nested call.
2. Failure of key derivation inside a handshake (`ephemeral_new`), and wrapping
   of times, in `Exchange`.
3. Pure algorithms in one run: the list operations of `lob.c`, `util_sort`, `xht`.
