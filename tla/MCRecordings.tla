---------------------------- MODULE MCRecordings ----------------------------
(* Small instances of Recordings: two cameras that record in turn. *)
EXTENDS Recordings

CONSTANTS front, yard

MCCamOf == [s \in Segs |-> IF s % 2 = 1 THEN front ELSE yard]
MCQuota == [c \in Cameras |-> IF c = front THEN 2 ELSE 4]
=============================================================================
