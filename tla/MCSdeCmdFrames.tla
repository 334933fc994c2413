--------------------------- MODULE MCSdeCmdFrames ---------------------------
(* Instances of SdeCmdFrames for TLC: undisturbed, with lost CTL start     *)
(* interrupts, with a display that goes off, and with transfers that hang. *)
EXTENDS SdeCmdFrames
Modes == {{}, {"noctl"}, {"off"}, {"timeout"}}
Frames == [f \in Modes |-> IF "timeout" \in f THEN 2 ELSE 3]
=============================================================================
