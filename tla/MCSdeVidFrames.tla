--------------------------- MODULE MCSdeVidFrames ---------------------------
(* Instances of SdeVidFrames for TLC: single and split panels, undisturbed,*)
(* with interrupts that come too late and with vsyncs that do not come.    *)
EXTENDS SdeVidFrames
Panels ==
    [phys : {{Master}, {Master, Slave}}, fault : {{}, {"late"}, {"hang"}},
     frames : {3}, offs : {2}]
=============================================================================
