------------------------------ MODULE MCNefAf ------------------------------
(* Instances of NefAf: model values for goroutines, AFs and applications.    *)
EXTENDS NefAf
CONSTANTS t1, t2, t3, a1, a2, x1, x2
=============================================================================
