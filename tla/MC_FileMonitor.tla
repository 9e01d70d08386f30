--------------------------- MODULE MC_FileMonitor ---------------------------
(* FileMonitor instantiated for TLC: two paths as model values.           *)
EXTENDS FileMonitor

CONSTANTS a, b

MCPaths == {a, b}
MCMasks == {{"create", "delete"}, {"change"}}
=============================================================================
