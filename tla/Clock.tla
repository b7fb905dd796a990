------------------------------- MODULE Clock --------------------------------
(* The wall clock of the event-processor, which the captures of detections *)
(* and the windows, gaps and cooldowns of the rules are measured by.       *)
EXTENDS Integers

CONSTANT MaxTime        \* bound on the clock

Times == 0 .. MaxTime

ASSUME ClockAssumption == MaxTime \in Nat

VARIABLE now            \* wall clock
=============================================================================
