------------------------------ MODULE MCDeadlines -----------------------------
(* A headroom longer than the header timeout and an upstream timeout longer    *)
(* than either, as in the program, with the automatic shutdown timeout.        *)
EXTENDS Deadlines
=============================================================================
