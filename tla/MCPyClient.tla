----------------------------- MODULE MCPyClient -----------------------------
(* Application threads are interchangeable; dispatchers are numbered in    *)
(* the order in which their runs are created, so they are not.             *)
EXTENDS PyClient, TLC

CONSTANTS a1, a2

AppSymmetry == Permutations({a1, a2})
=============================================================================
