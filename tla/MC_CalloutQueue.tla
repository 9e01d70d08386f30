--------------------------- MODULE MC_CalloutQueue ---------------------------
(* Instantiation of CalloutQueue for TLC: two scripts, directories that    *)
(* match none, one or both of them, two pids for callouts (so pids are     *)
(* reused) and three triggering events.                                    *)
EXTENDS CalloutQueue

CONSTANTS s1, s2, p1, p2, runner

MCScripts == {s1, s2}
MCListings == {<<>>, <<s1>>, <<s1, s2>>}
MCPids == {p1, p2}
MCPidsWithRunner == {p1, p2, runner}
=============================================================================
