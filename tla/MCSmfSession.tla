---------------------------- MODULE MCSmfSession ----------------------------
(* Small instances of SmfSession: PDU sessions and addresses as model values. *)
EXTENDS SmfSession, TLC

CONSTANTS p1, p2, a1, a2

\* Neither is special.
Symmetry == Permutations({p1, p2}) \cup Permutations({a1, a2})
=============================================================================
