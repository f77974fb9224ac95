----------------------------- MODULE PacketPipe -----------------------------
(***************************************************************************)
(* What a chunked transport promises to the two meshes it connects:        *)
(* whole packets, in the order they were sent, none lost, none invented.   *)
(***************************************************************************)
EXTENDS Naturals, Sequences

CONSTANT Packets    \* what a packet may be

VARIABLES
  sent,   \* sent[e]: the packets endpoint e was asked to send
  got     \* got[e]: the packets handed to the mesh of endpoint e

End == {1, 2}
Other(e) == 3 - e

Init == sent = [e \in End |-> <<>>] /\ got = [e \in End |-> <<>>]

Send(e) ==
  /\ \E p \in Packets : sent' = [sent EXCEPT ![e] = Append(@, p)]
  /\ UNCHANGED got

Deliver(e) ==
  /\ Len(got[e]) < Len(sent[Other(e)])
  /\ got' = [got EXCEPT ![e] = Append(@, sent[Other(e)][Len(@) + 1])]
  /\ UNCHANGED sent

Next == \E e \in End : Send(e) \/ Deliver(e)

Spec == Init /\ [][Next]_<<sent, got>>
FairSpec == Spec /\ \A e \in End : WF_<<sent, got>>(Deliver(e))
=============================================================================
