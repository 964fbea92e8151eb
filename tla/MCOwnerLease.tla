--------------------------- MODULE MCOwnerLease ---------------------------
(* OwnerLease for TLC: sets of processes and the steps at which they die. *)
EXTENDS OwnerLease, TLC

CONSTANTS p1, p2, p3, p4

TwoProcs == {p1, p2}
FourProcs == {p1, p2, p3, p4}

Serving == {"owner"}
Anywhere == Step \ {"failed", "gone"}

FourAlike == Permutations(FourProcs)
=============================================================================
