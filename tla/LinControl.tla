----------------------------- MODULE LinControl -----------------------------
(***************************************************************************)
(* What the LIN actuator component promises to the user of the web page,   *)
(* without the request slot, the timer and the bus: the life of the flap.  *)
(* A calibration learns the closed end, then the open end; the flap is     *)
(* driven only after a whole calibration; a new calibration may start at   *)
(* any time and is the only thing that takes the learned positions away.   *)
(***************************************************************************)

VARIABLE mode

Ready == {"READY", "OPENING", "CLOSING"}

Init == mode = "UNCALIBRATED"

StartCalibration == mode' = "CALIBRATING_TO_CLOSED"

LearnClosed == mode = "CALIBRATING_TO_CLOSED" /\ mode' = "CALIBRATING_TO_OPEN"

LearnOpen == mode = "CALIBRATING_TO_OPEN" /\ mode' = "READY"

Drive == mode \in Ready /\ mode' \in {"OPENING", "CLOSING"}

Next == StartCalibration \/ LearnClosed \/ LearnOpen \/ Drive

Spec == Init /\ [][Next]_mode
=============================================================================
