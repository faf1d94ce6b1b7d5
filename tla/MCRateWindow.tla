---------------------------- MODULE MCRateWindow -----------------------------
(* Three callers of one bucket. A token is five credits and a tick earns two *)
(* of them, so a refill nearly always leaves a fraction behind.              *)
EXTENDS RateWindow, TLC

CONSTANTS c1, c2, c3

MCCallers == {c1, c2, c3}

Symmetry == Permutations(MCCallers)
=============================================================================
