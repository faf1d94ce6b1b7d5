------------------------------- MODULE MCServe -------------------------------
(* A server with few slots.  c1 is the proxy's own user, whom every policy   *)
(* allows, c2 has the user and the group the policy names, c3 has the user   *)
(* only.                                                                     *)
EXTENDS Serve, TLC

CONSTANTS c1, c2, c3

Mixed == {c1, c2, c3}

Ids == [c \in Conns |->
          CASE c = c1 -> [uid |-> 0, gid |-> 0]
            [] c = c2 -> [uid |-> 1, gid |-> 1]
            [] OTHER  -> [uid |-> 1, gid |-> 0]]

One == {1}
=============================================================================
