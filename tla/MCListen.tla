------------------------------- MODULE MCListen ------------------------------
(* Two or three instances on one path, with few inode numbers so that they   *)
(* come round again.                                                         *)
EXTENDS Listen, TLC

CONSTANTS p1, p2, p3

TwoInstances   == {p1, p2}
ThreeInstances == {p1, p2, p3}

ThreeInodes == 1..3
FourInodes  == 1..4
TwoLocks    == 1..2

AnyMeddling == {"bind", "file", "remove", "die"}
NoMeddling  == {}

Anything   == {"nothing", "stale", "live", "file"}
OwnTraces  == {"nothing", "stale"}

Symmetry == Permutations(ThreeInstances)

TwoSymmetry == Permutations(TwoInstances)
=============================================================================
