------------------------- MODULE MCClientLifecycle -------------------------
(* ClientLifecycle for TLC: two application threads and the worker.        *)
EXTENDS ClientLifecycle, TLC

CONSTANTS c1, c2

CallerSymmetry == Permutations({c1, c2})
=============================================================================
