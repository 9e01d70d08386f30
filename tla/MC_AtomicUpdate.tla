--------------------------- MODULE MC_AtomicUpdate ---------------------------
(* Instantiation of AtomicUpdate for TLC: two devices, two keys, nesting  *)
(* depth two and four property changes.                                    *)
EXTENDS AtomicUpdate

CONSTANTS d1, d2, k1, k2

MCDevices == {d1, d2}
MCKeys == {k1, k2}
=============================================================================
