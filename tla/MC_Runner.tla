------------------------------ MODULE MC_Runner ------------------------------
(* Two devices, two pids hald-runner may hand out.                          *)
EXTENDS Runner

CONSTANTS d1, d2, p1, p2

MCDevices == {d1, d2}
MCPids == {p1, p2}

=============================================================================
