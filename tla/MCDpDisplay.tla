----------------------------- MODULE MCDpDisplay -----------------------------
(* Instances of DpDisplay for TLC.                                         *)
EXTENDS DpDisplay

Scenario(m, h, s, p, a, c) ==
    [mst |-> m, hdcp |-> h, suspend |-> s, plugs |-> p, attentions |-> a, commits |-> c]

AllScenarios ==
    {Scenario(FALSE, FALSE, FALSE, 2, 2, 1),    \* one stream, plugged twice
     Scenario(FALSE, TRUE, FALSE, 2, 1, 1),     \* with HDCP
     Scenario(TRUE, FALSE, FALSE, 1, 1, 2),     \* two streams on a link
     Scenario(TRUE, TRUE, FALSE, 1, 0, 2),
     Scenario(FALSE, FALSE, TRUE, 1, 1, 1),     \* with suspend
     Scenario(FALSE, TRUE, TRUE, 1, 0, 1)}
=============================================================================
