----------------------------- MODULE MC_AclTool -----------------------------
(* Two tool processes, one device file and two users.  grant_user names  *)
(* an unknown user, which is skipped.                                      *)
EXTENDS AclTool

CONSTANTS p1, p2, dev, u1, u2, ghost

MCProcs == {p1, p2}
MCDevices == {dev}
MCUsers == {u1, u2}
MCPolicy == [d \in MCDevices |-> "active"]
MCNames == {ghost}
MCIdOf == [n \in MCNames |-> NoId]
MCGrantList == [d \in MCDevices |-> {ghost}]

=============================================================================
