---------------------------- MODULE MCSupervisor ----------------------------
(* A small instance of Supervisor: cameras that may share a graph, and a    *)
(* configuration that needs a graph of its own.                             *)
EXTENDS Supervisor

CONSTANTS plain, rotated

MCConfigs == {plain, rotated}
MCShapeKey == [f \in MCConfigs |-> IF f = rotated THEN "solo" ELSE "all"]
MCStarts == {[c \in Cameras |-> plain]}
=============================================================================
