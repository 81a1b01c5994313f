----------------------------- MODULE CoreContract -----------------------------
(***************************************************************************)
(* What netft::Client promises its user about a run, and all that the      *)
(* Python binding relies on.  A run, once begun, delivers samples until it *)
(* is stopped or faults.  It never ends silently, delivers nothing after   *)
(* its end, never overlaps another run, and its fault stays latched until  *)
(* the next run really begins.  ClientLifecycle implements this contract,  *)
(* NativeClient uses the core only within it.                              *)
(***************************************************************************)
EXTENDS Naturals

VARIABLES
  live,       \* a run is in progress
  faulted,    \* the latest run ended with a fault
  stopping,   \* the run in progress has been told to stop
  run,        \* runs begun
  delivered   \* the run of the last completed delivery

contractVars == <<live, faulted, stopping, run, delivered>>

ContractInit ==
  live = FALSE /\ faulted = FALSE /\ stopping = FALSE /\ run = 0 /\ delivered = 0

Begin ==
  /\ ~live
  /\ live' = TRUE /\ faulted' = FALSE /\ stopping' = FALSE /\ run' = run + 1
  /\ UNCHANGED delivered

Deliver ==
  /\ live
  /\ delivered' = run
  /\ UNCHANGED <<live, faulted, stopping, run>>

RequestStop ==
  /\ live
  /\ stopping' = TRUE
  /\ UNCHANGED <<live, faulted, run, delivered>>

End ==
  /\ live /\ stopping
  /\ live' = FALSE /\ stopping' = FALSE
  /\ UNCHANGED <<faulted, run, delivered>>

Fault ==
  /\ live
  /\ live' = FALSE /\ faulted' = TRUE /\ stopping' = FALSE
  /\ UNCHANGED <<run, delivered>>

ContractNext == Begin \/ Deliver \/ RequestStop \/ End \/ Fault

ContractSpec == ContractInit /\ [][ContractNext]_contractVars
=============================================================================
