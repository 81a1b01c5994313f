---------------------------- MODULE MCClientHandle ----------------------------
(* Three clients: each may destroy itself, c1 also c2 and c2 also c3.      *)
EXTENDS ClientHandle

CONSTANTS c1, c2, c3

Destruction == {<<c1, c1>>, <<c2, c2>>, <<c3, c3>>, <<c1, c2>>, <<c2, c3>>}
=============================================================================
