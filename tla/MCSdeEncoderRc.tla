--------------------------- MODULE MCSdeEncoderRc ---------------------------
(* Instances of SdeEncoderRc for TLC.                                      *)
EXTENDS SdeEncoderRc

Scenario(d, f, a, c, i) ==
    [display |-> d, fault |-> f, actors |-> a, commits |-> c, inputs |-> i]

\* Each kind of display with everything users do, and again with failures, a
\* dead panel and suspend.
Ordinary ==
    {Scenario(d, {}, {"input", "vblank", "seamless", "idlepc", "autorefresh"},
              7, 2) : d \in Displays}
Disturbed ==
    {Scenario(d, {"clk", "tx"}, {"input", "vblank", "seamless", "esd", "suspend"},
              4, 1) : d \in Displays}

\* A video panel that switches modes without a full mode set.
VidSwitch == {Scenario("vid", {}, {"vidswitch"}, 5, 0)}

AllScenarios ==
    Ordinary \cup Disturbed
      \cup {Scenario("vid", {}, {"vidswitch", "vblank"}, 5, 0)}
=============================================================================
