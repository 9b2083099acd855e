--------------------------- MODULE MCSessionServer ---------------------------
(* A small server for TLC.                                                 *)
EXTENDS SessionServer, TLC

CONSTANTS s1, s2, c1, c2, h1

TwoSessions == {s1, s2}
Sockets == {c1, c2}
Requests == {h1}
Symmetric == Permutations(TwoSessions) \cup Permutations(Sockets)
=============================================================================
