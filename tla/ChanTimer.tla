----------------------------- MODULE ChanTimer ------------------------------
(***************************************************************************)
(* The inactivity timeout of one channel on which nothing is received:     *)
(* chan_timeout and the timeout half of chan_process in src/src/chan.c,    *)
(* driven by a loop that calls link_process(now) at least every MaxGap     *)
(* ticks.                                                                  *)
(*                                                                         *)
(* Times are relative, so that a channel lives for ever in finitely many   *)
(* states: left is timeout - now, ago is now - trecv, and due is what is   *)
(* left of the time the application asked for, or -1 once it is over.      *)
(*                                                                         *)
(* The names of the state machine say Timer, so that ChannelsProofs can    *)
(* extend this module next to Channels.                                    *)
(*                                                                         *)
(* An operator defined just before another with the same parameter is a    *)
(* deliberately wrong variant: replacing the second by the first must make *)
(* a property fail.                                                        *)
(***************************************************************************)
EXTENDS Integers

CONSTANTS
  MaxGap,       \* most ticks between two calls of link_process
  MaxTimeout    \* bound: how far ahead the application sets a timeout

ASSUME ChanTimerAssumption ==
  MaxGap \in Nat \ {0} /\ MaxTimeout \in Nat \ {0}

VARIABLES
  armed,    \* c->timeout # 0
  left,     \* c->timeout - now
  due,      \* history: the time asked for - now, at least -1
  seen,     \* c->trecv # 0: there was a chan_process with a time
  ago,      \* ticks since the last chan_process with a time, or since the start
  failed    \* has chan_err(c, "timeout") been called?

timerVars == <<armed, left, due, seen, ago, failed>>

(* The values each variable takes.                                         *)
TimerTypeOK ==
  /\ armed \in BOOLEAN /\ left \in (0 - MaxGap) .. (MaxTimeout + MaxGap)
  /\ due \in -1 .. MaxTimeout
  /\ seen \in BOOLEAN /\ ago \in 0 .. MaxGap
  /\ failed \in BOOLEAN

TimerInit ==
  /\ armed = FALSE /\ left = 0 /\ due = 0
  /\ seen = FALSE /\ ago = 0
  /\ failed = FALSE

(* Time passes.                                                            *)
Tick ==
  /\ ago < MaxGap
  /\ ago' = ago + 1
  /\ left' = IF armed THEN left - 1 ELSE left
  /\ due' = IF armed /\ due >= 0 THEN due - 1 ELSE due
  /\ UNCHANGED <<armed, seen, failed>>

(* chan_timeout(c, now + d), for the first time or again.                  *)
ChanTimeout ==
  /\ ~failed
  /\ armed' = TRUE
  /\ \E d \in 1 .. MaxTimeout : left' = d /\ due' = d
  /\ UNCHANGED <<seen, ago, failed>>

(* chan_process(c, now): an error when the timeout is over, else the       *)
(* timeout is kicked forward by the time since the last call.              *)
OverAtOnce(l) == l <= 0
Over(l) == l < 0

ChanProcessTime ==
  /\ armed' = (armed /\ ~Over(left))
  /\ failed' = (failed \/ (armed /\ Over(left)))
  /\ left' = CASE ~armed \/ (~Over(left) /\ ~seen) -> left
               [] armed /\ Over(left) -> 0
               [] armed /\ ~Over(left) /\ seen -> left + ago
  /\ seen' = TRUE
  /\ ago' = 0
  /\ UNCHANGED due

TimerNext == Tick \/ ChanTimeout \/ ChanProcessTime

TimerSpec == TimerInit /\ [][TimerNext]_timerVars

-----------------------------------------------------------------------------
(* A channel never times out before the time the application set last,     *)
(* whatever the rhythm of the calls of link_process.                       *)
NotEarly == failed => due < 0
=============================================================================
