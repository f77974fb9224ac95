-------------------------------- MODULE Mesh --------------------------------
(***************************************************************************)
(* The links of one mesh: the list mesh->links, mesh_unlink, which only    *)
(* marks a link, and mesh_process, which removes the marked ones while it  *)
(* walks over the list (src/src/mesh.c and the list half of                *)
(* src/src/link.c).  Handlers and on_link events run in the middle of the  *)
(* walk and may call the library: every action of the application and of   *)
(* the network is possible there too (a loopback pipe delivers inside a    *)
(* send).                                                                  *)
(*                                                                         *)
(* A link's session is a Boolean here, up; module Handshake has the rest.  *)
(*                                                                         *)
(* An operator defined just before another with the same parameters is a   *)
(* deliberately wrong variant: replacing the second by the first must make *)
(* a property fail.                                                        *)
(***************************************************************************)
EXTENDS Naturals, Sequences, FiniteSets, SequencesExt

CONSTANTS
  Hashname,     \* the other endpoints
  MaxLinks,     \* bound: link structs created
  Reget,        \* may the application get a marked link by link_get or
                \* link_get_key, which do not take the mark away?
  LastMoment    \* may the down event of a link that is being removed bring
                \* that link back (mesh_add, or a handshake)?

ASSUME MeshAssumption ==
  MaxLinks \in Nat /\ Reget \in BOOLEAN /\ LastMoment \in BOOLEAN

VARIABLES
  heap,     \* the links ever created; a pointer is an index of heap
  links,    \* mesh->links: pointers, newest first
  walk,     \* mesh_process: its stage, and its "link" and "next", or 0
  held      \* the pointers the application got and did not unlink

vars == <<heap, links, walk, held>>

(* loaded: x and key are set; marked: csid = 0; told: the last on_link     *)
(* event said the link was up.                                             *)
Link(id) == [id |-> id, loaded |-> FALSE, marked |-> FALSE, up |-> FALSE,
             told |-> FALSE, freed |-> FALSE]
Links == [id : Hashname, loaded : BOOLEAN, marked : BOOLEAN, up : BOOLEAN,
          told : BOOLEAN, freed : BOOLEAN]

Idle == [stage |-> "idle", link |-> 0, next |-> 0]

Init ==
  /\ heap = <<>>
  /\ links = <<>>
  /\ walk = Idle
  /\ held = {}

(* Pointers of the list, the link of a hashname; the place of p in a list, *)
(* and the pointer behind it.                                              *)
Listed == {links[i] : i \in DOMAIN links}
Of(id) == {p \in Listed : heap[p].id = id}
Place(list, p) == CHOOSE i \in DOMAIN list : list[i] = p
Behind(list, p) ==
  IF Place(list, p) < Len(list) THEN list[Place(list, p) + 1] ELSE 0

(* Is p the link whose down event is running, before it is freed?          *)
Going(p) == walk.stage = "event" /\ walk.link = p

-----------------------------------------------------------------------------
(* link_load: a link that has its exchange only loses the mark.            *)
LinkLoadUnrepaired(l) ==
  [l EXCEPT !.loaded = TRUE, !.marked = l.loaded /\ l.marked]
LinkLoad(l) == [l EXCEPT !.loaded = TRUE, !.marked = FALSE]

(* What link_get ("id"), link_get_key ("key") and mesh_add ("add") do to   *)
(* the link they find or create.                                           *)
Loads(l, how) == how = "add" \/ (how = "key" /\ ~l.loaded)
Got(l, how) == IF Loads(l, how) THEN LinkLoad(l) ELSE l

Get(id, how) ==
  \/ \E p \in Of(id) :
       /\ Reget \/ Loads(heap[p], how) \/ ~heap[p].marked
       /\ LastMoment \/ ~Going(p)
       /\ heap' = [heap EXCEPT ![p] = Got(@, how)]
       /\ held' = held \cup {p}
       /\ UNCHANGED <<links, walk>>
  \/ /\ Of(id) = {}
     /\ Len(heap) < MaxLinks
     /\ heap' = Append(heap, Got(Link(id), how))
     /\ links' = <<Len(heap) + 1>> \o links
     /\ held' = held \cup {Len(heap) + 1}
     /\ UNCHANGED walk

(* mesh_unlink.                                                            *)
UnlinkAtOnce(p) ==
  /\ p \in held
  /\ heap' = [heap EXCEPT ![p].freed = TRUE, ![p].told = FALSE]
  /\ links' = SelectSeq(links, LAMBDA q : q # p)
  /\ held' = held \ {p}
  /\ UNCHANGED walk
Unlink(p) ==
  /\ p \in held
  /\ heap' = [heap EXCEPT ![p].marked = TRUE]
  /\ held' = held \ {p}
  /\ UNCHANGED <<links, walk>>

(* mesh_receive_handshake for a link, marked or not: it loads a link that  *)
(* has no key and, if the handshake is good, the link is up, with an event *)
(* if it was not.  (Without a link the application is told, and may call   *)
(* Get.)                                                                   *)
ReceiveHandshake(p, good) ==
  /\ p \in Listed
  /\ LastMoment \/ ~Going(p)
  /\ LET l == IF heap[p].loaded THEN heap[p] ELSE LinkLoad(heap[p])
     IN  heap' = [heap EXCEPT ![p] =
                    IF good THEN [l EXCEPT !.up = TRUE, !.told = TRUE] ELSE l]
  /\ UNCHANGED <<links, walk, held>>

(* link_down: the event comes only if the link was up.  (Its channels are  *)
(* in module Channels.)                                                    *)
DownedQuietly(l) == [l EXCEPT !.up = FALSE]
Downed(l) == [l EXCEPT !.up = FALSE, !.told = IF l.up THEN FALSE ELSE @]

LinkDown(p) ==
  /\ p \in held
  /\ heap' = [heap EXCEPT ![p] = Downed(@)]
  /\ UNCHANGED <<links, walk, held>>

-----------------------------------------------------------------------------
(* mesh_process.  The turn for link p reads its next from the list as it   *)
(* is then, and runs the handlers of its channels.                         *)
Turn(list, p) ==
  IF p = 0 THEN Idle
  ELSE [stage |-> "handlers", link |-> p, next |-> Behind(list, p)]

Process ==
  /\ walk.stage = "idle"
  /\ walk' = Turn(links, IF links = <<>> THEN 0 ELSE Head(links))
  /\ UNCHANGED <<heap, links, held>>

(* The handlers have run: a link that is not marked stays.                 *)
StayUp ==
  /\ walk.stage = "handlers"
  /\ heap[walk.link].up \/ ~heap[walk.link].marked
  /\ walk' = Turn(links, walk.next)
  /\ UNCHANGED <<heap, links, held>>
Stay ==
  /\ walk.stage = "handlers"
  /\ ~heap[walk.link].marked
  /\ walk' = Turn(links, walk.next)
  /\ UNCHANGED <<heap, links, held>>

(* A marked one is taken down, with its event.                             *)
DropDown ==
  /\ walk.stage = "handlers"
  /\ heap[walk.link].marked
  /\ heap' = [heap EXCEPT ![walk.link] = Downed(@)]
  /\ walk' = [walk EXCEPT !.stage = "event"]
  /\ UNCHANGED <<links, held>>

(* link_free, whatever the event has done, and on with the next one.  The  *)
(* link's neighbours in the list are joined.                               *)
UnlistedHead(p) == IF Head(links) = p THEN Tail(links) ELSE links
Unlisted(p) == IF p \in Listed THEN RemoveAt(links, Place(links, p)) ELSE links

DropFree ==
  /\ walk.stage = "event"
  /\ heap' = [heap EXCEPT ![walk.link].freed = TRUE]
  /\ links' = Unlisted(walk.link)
  /\ walk' = Turn(links', walk.next)
  /\ UNCHANGED held

Next ==
  \/ \E id \in Hashname, how \in {"id", "key", "add"} : Get(id, how)
  \/ \E p \in DOMAIN heap : Unlink(p)
  \/ \E p \in DOMAIN heap : LinkDown(p)
  \/ \E p \in DOMAIN heap, good \in BOOLEAN : ReceiveHandshake(p, good)
  \/ Process \/ Stay \/ DropDown \/ DropFree

Spec == Init /\ [][Next]_vars

(* The loop calls mesh_process again and again, and each call ends.        *)
FairSpec == Spec /\ WF_vars(Process \/ Stay \/ DropDown \/ DropFree)
-----------------------------------------------------------------------------
(* Properties.                                                             *)

(* The values each variable takes.                                         *)
TypeOK ==
  /\ heap \in Seq(Links)
  /\ links \in Seq(DOMAIN heap)
  /\ walk \in [stage : {"idle", "handlers", "event"},
               link : 0 .. Len(heap), next : 0 .. Len(heap)]
  /\ (walk.stage = "idle") = (walk.link = 0)
  /\ held \subseteq DOMAIN heap

(* mesh_process reads next before link_process may free the link: neither  *)
(* is freed under the walk, although handlers and events get, unlink and   *)
(* add links meanwhile.                                                    *)
WalkIsSafe ==
  /\ walk.link # 0 => ~heap[walk.link].freed
  /\ walk.next # 0 => ~heap[walk.next].freed

(* The list holds the links that are not freed, and one for a hashname, so *)
(* that mesh_linkid and link_get find the link a handshake is for.         *)
ListIsHeap ==
  /\ Listed = {p \in DOMAIN heap : ~heap[p].freed}
  /\ \A p, q \in Listed : heap[p].id = heap[q].id => p = q

(* "will event it down and clean up" (mesh_unlink): the application has    *)
(* been told that a link is down before it is freed.                       *)
EventedDown == \A p \in DOMAIN heap : heap[p].freed => ~heap[p].told

(* "repair in case mesh_unlink was called" (link_load): a link that the    *)
(* application got, after an unlink or before, is there until it unlinks   *)
(* it.                                                                     *)
KeptLink == \A p \in held : ~heap[p].freed

(* "during next process()" (mesh_unlink): a link is removed in the end,    *)
(* unless link_load took the mark away.                                    *)
Marked(p) == p \in DOMAIN heap /\ heap[p].marked /\ ~heap[p].freed
Removed == \A p \in 1 .. MaxLinks : Marked(p) ~> ~Marked(p)
=============================================================================
