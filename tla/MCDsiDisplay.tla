---------------------------- MODULE MCDsiDisplay ----------------------------
\* Every kind of panel, with at most one failure.
EXTENDS DsiDisplay

AllConfigs == Config
AllFaults == Faults
=============================================================================
