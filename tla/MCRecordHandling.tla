--------------------------- MODULE MCRecordHandling ---------------------------
(* RecordHandling for TLC.                                                 *)
EXTENDS RecordHandling

CONSTANTS k1, k2

(* One session with bias(): loss, duplication and reordering near the wrap *)
(* of the numbers.                                                         *)
Stream ==
  [recovery_policy |-> "Reconnect", deliver_samples_with_error_status |-> FALSE,
   sample_rate_limit_hz |-> FALSE, first_numbers |-> {1, 14}, statuses |-> {"Ok"},
   calibrations |-> {k1}, advances |-> {2}, pauses |-> {},
   bounds |-> [sent |-> 4, received |-> 4, malformed |-> 0, sessions |-> 1,
               biases |-> 1, reboots |-> 0, pauses |-> 0]]

(* Sessions that fail and begin again, with a sensor that may reboot.      *)
Sessions(policy, deliver) ==
  [recovery_policy |-> policy, deliver_samples_with_error_status |-> deliver,
   sample_rate_limit_hz |-> TRUE, first_numbers |-> {6}, statuses |-> {"Ok", "Error"},
   calibrations |-> {k1, k2}, advances |-> {0, 1}, pauses |-> {},
   bounds |-> [sent |-> 2, received |-> 2, malformed |-> 2, sessions |-> 3,
               biases |-> 0, reboots |-> 1, pauses |-> 0]]

(* A sensor that reboots between two sessions and is recognised by its low *)
(* numbers, or goes on for half the number space or all of it.             *)
Reboot ==
  [recovery_policy |-> "Reconnect", deliver_samples_with_error_status |-> FALSE,
   sample_rate_limit_hz |-> FALSE, first_numbers |-> {6}, statuses |-> {"Ok"},
   calibrations |-> {k1}, advances |-> {0, 1}, pauses |-> {5, 8, 15},
   bounds |-> [sent |-> 3, received |-> 4, malformed |-> 0, sessions |-> 2,
               biases |-> 0, reboots |-> 1, pauses |-> 1]]

AllScenarios ==
  {Stream, Reboot, Sessions("Reconnect", FALSE), Sessions("FailStop", TRUE)}

=============================================================================
