------------------------------ MODULE MCHandler ------------------------------
(* Small sets of requests and of Docker's answers for Handler.               *)
EXTENDS Handler, TLC

CONSTANTS r1, r2, r3

ThreeRequests == {r1, r2, r3}
TwoRequests   == {r1, r2}

\* A success and an error of the daemon.
MainStatuses == {200, 500}

\* The edges of what is relayed: a redirect, the ends of both error ranges, the
\* one for errors about the object and the one for the daemon's, a code past them.
EdgeStatuses == {200, 301, 400, 499, 500, 599, 600}

\* A request no route matches, and one that takes the longest way.
Longest == {"none", "inspect"}

Symmetry == Permutations(Requests)
=============================================================================
