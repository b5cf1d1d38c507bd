---------------------------- MODULE MCUpfSession ----------------------------
(* Instances of UpfSession for TLC: the SMFs, their SEIDs and the rule IDs   *)
(* as model values.                                                          *)
EXTENDS UpfSession, TLC

CONSTANTS n1, n2, s1, s2, p1, p2, u1, r1
=============================================================================
