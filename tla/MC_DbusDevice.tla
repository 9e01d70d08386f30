---------------------------- MODULE MC_DbusDevice ----------------------------
(* Instantiation of DbusDevice for TLC: two devices, two clients (one of   *)
(* them privileged), and two capability names standing for net and        *)
(* net.80203: "n" is a substring of "n.", which strstr cannot tell from a *)
(* listed name.  MAX_CAP_SIZE is scaled from 2048 to 4, so that a buffer  *)
(* of three characters is overrun by one AddCapability on a listed name,  *)
(* as 2048 is by a long enough list.                                       *)
EXTENDS DbusDevice

CONSTANTS d1, d2, c1, c2

MCDevices == {d1, d2}
MCServices == {c1, c2}
MCCaps == {<<"n">>, <<"n", ".">>}
=============================================================================
