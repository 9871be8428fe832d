----------------------------- MODULE MCWatchdog -----------------------------
(* Two programs, four starts instead of a hundred, and small counts.        *)
EXTENDS Watchdog

MCPppds == {1, 2}
=============================================================================
