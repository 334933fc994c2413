------------------------------ MODULE MCSdeRsc ------------------------------
\* TLC instance of SdeRsc.
EXTENDS SdeRsc

\* Behaviours in which nothing fails, behaviours with every failure the driver
\* handles, and behaviours with one that it ignores.
Handled == {"entry", "exit", "timeout", "freeze"}
Modes == {{}, Handled, Handled \cup {"enable"}}
=============================================================================
