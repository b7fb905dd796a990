---------------------------- MODULE MCAlarmState ----------------------------
(* Small instances of AlarmState: two operators and one psql edit. *)
EXTENDS AlarmState

CONSTANTS r1, r2

MCRequests == {r1, r2}
=============================================================================
