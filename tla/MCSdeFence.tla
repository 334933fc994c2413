----------------------------- MODULE MCSdeFence -----------------------------
\* TLC instances of SdeFence.  In a serial behaviour one create or signal
\* begins when the other has returned.
EXTENDS SdeFence, TLC

VARIABLE serial

MCInit == Init /\ serial \in BOOLEAN

InProgress(p) == {t \in Thread : p[t] # "idle"}

MCNext ==
  /\ Next /\ UNCHANGED serial
  /\ serial => Cardinality(InProgress(pc')) <= 1

MCSpec == MCInit /\ [][MCNext]_<<vars, serial>>

(***************************************************************************)
(* When creates and signals do not overlap, no fence whose commit is done  *)
(* is left on the list unsignalled once the call has returned: neither a   *)
(* signal, an error, a reset nor a create for a value already reached      *)
(* forgets one.                                                            *)
(***************************************************************************)
SerialSignaled == serial => QuiescentSignaled

Symmetry == Permutations(Fence)
=============================================================================
