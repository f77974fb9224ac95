------------------------------ MODULE JsStartup -----------------------------
(***************************************************************************)
(* The life of one Mesh of src/js/core.js up to its 'up' event, over       *)
(* several runs of the process: use, start, the keystore (_getKeys and     *)
(* _storeKeys, which a middleware may make asynchronous), listen with one  *)
(* promise for each transport, stopListen, and a crash at any moment.      *)
(*                                                                         *)
(* The names of the state machine say Start, so that JsLinksProofs can     *)
(* extend this module next to JsLinks.                                     *)
(*                                                                         *)
(* An operator defined just before another with the same parameters is a   *)
(* deliberately wrong variant: replacing the second by the first must make *)
(* a property fail.                                                        *)
(***************************************************************************)
EXTENDS Naturals

CONSTANTS
  Transport,    \* what middleware of type "transport" brings to listen on
  MaxRuns       \* bound: starts of the process

ASSUME JsStartupAssumption == MaxRuns \in Nat \ {0}

VARIABLES
  runs,       \* starts of the process so far
  phase,      \* where the current one is
  keyed,      \* _getKeys and _storeKeys are those of a keystore
  used,       \* this._listen
  wants,      \* start was told to listen, until it does
  id,         \* the keys in the C mesh: the run that made them, 0 for none
  stored,     \* the keys in the keystore, or 0; survives a crash
  storing,    \* the keys _storeKeys is busy with, or 0
  port,       \* port[t]: "idle", "pending" (its promise), "open", "failed"
  aborts      \* this._aborts

startVars == <<runs, phase, keyed, used, wants, id, stored, storing, port, aborts>>

NoPorts == [t \in Transport |-> "idle"]

StartInit ==
  /\ runs = 0 /\ phase = "off" /\ keyed = FALSE /\ used = {} /\ wants = FALSE
  /\ id = 0 /\ stored = 0 /\ storing = 0
  /\ port = NoPorts /\ aborts = {}

(* The process ends, at any moment; only the keystore remains.             *)
Crash ==
  /\ phase # "off"
  /\ phase' = "off" /\ keyed' = FALSE /\ used' = {} /\ wants' = FALSE
  /\ id' = 0 /\ storing' = 0 /\ port' = NoPorts /\ aborts' = {}
  /\ UNCHANGED <<runs, stored>>

-----------------------------------------------------------------------------
(* Telehash(on_up): the constructor; the library has no keys yet.          *)
Create ==
  /\ phase = "off" /\ runs < MaxRuns
  /\ runs' = runs + 1
  /\ phase' = "made"
  /\ UNCHANGED <<keyed, used, wants, id, stored, storing, port, aborts>>

(* use, with a middleware of type "transport" or "keystore".               *)
UseTransport(t) ==
  /\ phase \in {"made", "keys"}
  /\ used' = used \cup {t}
  /\ UNCHANGED <<runs, phase, keyed, wants, id, stored, storing, port, aborts>>

UseKeystore ==
  /\ phase = "made"
  /\ keyed' = TRUE
  /\ UNCHANGED <<runs, phase, used, wants, id, stored, storing, port, aborts>>

(* listen(): the promise of every transport is under way.                  *)
Ports == [t \in Transport |-> IF t \in used THEN "pending" ELSE port[t]]
Listen == phase' = "listening" /\ port' = Ports

(* The end of the callback of _getKeys: listen, or emit 'up'.              *)
Ready(listen) == IF listen THEN Listen ELSE phase' = "up" /\ UNCHANGED port

(* start(listen): a new C mesh, its callbacks, and _getKeys.  Without a    *)
(* keystore that calls back at once; no keys are in the environment, and   *)
(* new ones are made and stored nowhere.                                   *)
Start(listen) ==
  /\ phase = "made"
  /\ IF keyed THEN phase' = "keys" /\ wants' = listen /\ UNCHANGED <<id, port>>
     ELSE id' = runs /\ Ready(listen) /\ UNCHANGED wants
  /\ UNCHANGED <<runs, keyed, used, stored, storing, aborts>>

(* The keystore calls back: load the stored keys, or make and store new    *)
(* ones, without waiting for the keystore.                                 *)
NewKeysAlways == id' = runs /\ storing' = runs
NewKeys ==
  IF stored # 0 THEN id' = stored /\ UNCHANGED storing
  ELSE id' = runs /\ storing' = runs

GotKeys ==
  /\ phase = "keys"
  /\ NewKeys
  /\ Ready(wants)
  /\ wants' = FALSE
  /\ UNCHANGED <<runs, keyed, used, stored, aborts>>

KeysStored ==
  /\ storing # 0
  /\ stored' = storing
  /\ storing' = 0
  /\ UNCHANGED <<runs, phase, keyed, used, wants, id, port, aborts>>

(* One transport's promise is settled.                                     *)
Settle(t, how) ==
  /\ port[t] = "pending"
  /\ port' = [port EXCEPT ![t] = how]
  /\ UNCHANGED <<runs, phase, keyed, used, wants, id, stored, storing, aborts>>

(* Promise.all: all have their abort function, or one has an error.        *)
ListeningAny ==
  /\ phase = "listening"
  /\ used = {} \/ \E t \in used : port[t] = "open"
  /\ aborts' = {t \in used : port[t] = "open"}
  /\ phase' = "up"
  /\ UNCHANGED <<runs, keyed, used, wants, id, stored, storing, port>>
Listening ==
  /\ phase = "listening"
  /\ \A t \in used : port[t] = "open"
  /\ aborts' = used
  /\ phase' = "up"
  /\ UNCHANGED <<runs, keyed, used, wants, id, stored, storing, port>>

ListenErrorMuted ==
  /\ phase = "listening"
  /\ \E t \in used : port[t] = "failed"
  /\ UNCHANGED startVars
ListenError ==
  /\ phase = "listening"
  /\ \E t \in used : port[t] = "failed"
  /\ phase' = "error"
  /\ UNCHANGED <<runs, keyed, used, wants, id, stored, storing, port, aborts>>

(* stopListen: every abort is called, and none is kept.                    *)
StopListen ==
  /\ phase = "up" /\ aborts # {}
  /\ port' = [t \in Transport |-> IF t \in aborts THEN "idle" ELSE port[t]]
  /\ aborts' = {}
  /\ UNCHANGED <<runs, phase, keyed, used, wants, id, stored, storing>>

(* listen, called by the application while nothing listens.                *)
ListenAgain ==
  /\ phase = "up" /\ aborts = {}
  /\ Listen
  /\ UNCHANGED <<runs, keyed, used, wants, id, stored, storing, aborts>>

StartNext ==
  \/ Create
  \/ \E t \in Transport : UseTransport(t)
  \/ UseKeystore
  \/ \E listen \in BOOLEAN : Start(listen)
  \/ GotKeys
  \/ KeysStored
  \/ \E t \in Transport, how \in {"open", "failed"} : Settle(t, how)
  \/ Listening
  \/ ListenError
  \/ StopListen
  \/ ListenAgain
  \/ Crash

StartSpec == StartInit /\ [][StartNext]_startVars

(* The keystore calls back, every promise is settled, and what settled     *)
(* promises call is called.                                                *)
FairStartSpec ==
  /\ StartSpec
  /\ WF_startVars(GotKeys)
  /\ WF_startVars(Listening \/ ListenError)
  /\ \A t \in Transport :
       WF_startVars(\E how \in {"open", "failed"} : Settle(t, how))
-----------------------------------------------------------------------------
(* Properties.                                                             *)

(* The values each variable takes.                                         *)
StartTypeOK ==
  /\ runs \in 0 .. MaxRuns
  /\ phase \in {"off", "made", "keys", "listening", "up", "error"}
  /\ used \subseteq Transport /\ aborts \subseteq Transport
  /\ keyed \in BOOLEAN /\ wants \in BOOLEAN
  /\ id \in 0 .. MaxRuns /\ stored \in 0 .. MaxRuns
  /\ storing \in 0 .. MaxRuns
  /\ port \in [Transport -> {"idle", "pending", "open", "failed"}]

(* Keys that reached the keystore are the identity of every later run that *)
(* uses it: start does not make new ones over them, and what it has made   *)
(* is stored or being stored, although 'up' does not wait for _storeKeys   *)
(* and the process may crash in between.                                   *)
KeepsIdentity ==
  keyed =>
    /\ stored # 0 => id \in {0, stored} /\ storing \in {0, stored}
    /\ stored = 0 => id = storing

(* stopListen stops everything: while the mesh is up, the transports that  *)
(* listen, or are about to, are exactly those whose abort function is in   *)
(* _aborts.                                                                *)
Stoppable ==
  phase = "up" => {t \in Transport : port[t] \in {"open", "pending"}} = aborts

(* start ends: the mesh is up, or an 'error' was emitted, whatever the     *)
(* order in which the keystore and the transports answer.                  *)
StartsUp ==
  phase \in {"keys", "listening"} ~> phase \in {"up", "error", "off"}
=============================================================================
