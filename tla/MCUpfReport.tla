---------------------------- MODULE MCUpfReport ----------------------------
(* Instances of UpfReport: model values for URRs and periods.  URRs are      *)
(* interchangeable.                                                          *)
EXTENDS UpfReport, TLC
CONSTANTS u1, u2, p1, p2
Symmetry == Permutations(Urrs)
=============================================================================
