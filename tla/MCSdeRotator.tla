---------------------------- MODULE MCSdeRotator ----------------------------
(* Instances of SdeRotator for TLC.                                        *)
EXTENDS SdeRotator

CONSTANTS c1, c2

Two == <<1, 2>>
Scene(f, n1, n2, ot2) ==
    [faults |-> f, frames |-> (c1 :> n1) @@ (c2 :> n2), ot |-> (c1 :> 2) @@ (c2 :> ot2)]

AllScenarios ==
    {Scene({}, 3, 2, 2),                        \* two contexts share the slots
     Scene({}, 2, 2, 4),                        \* or wait for idle hardware
     Scene({"fence"}, 2, 1, 2), Scene({"fence", "bad"}, 3, 0, 2),
     Scene({"hw"}, 2, 1, 4), Scene({"hw"}, 1, 1, 2),
     Scene({"off"}, 1, 1, 2), Scene({"fence", "off"}, 2, 0, 2),
     Scene({"off", "timeout"}, 1, 1, 2),        \* stopping cancels
     Scene({"off", "timeout"}, 1, 1, 4),
     Scene({"hw", "off", "timeout"}, 2, 0, 2)}

Overlapping == {Scene({"overlap"}, 2, 0, 2)}
=============================================================================
