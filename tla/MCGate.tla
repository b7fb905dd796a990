-------------------------------- MODULE MCGate --------------------------------
(* A small instance of Gate: the detections of a person who stands in a zone. *)
EXTENDS Gate, TLC

CONSTANTS person, d1, z1, c1

MCClassOf == [d \in Dets |-> person]
MCKindOf == [d \in Dets |-> "object"]
MCAlike == Dets \X Dets
MCInside == [d \in Dets |-> {z1}]
MCTaxonomies == {[s \in Slugs |-> [yolo |-> 0, enabled |-> TRUE, row |-> 0]]}
MCExclusions == {NoExclusion, [NoExclusion EXCEPT !.classes = {person}]}
MCCameraRows == {StartRow, [StartRow EXCEPT !.detectors = {"face"}], [StartRow EXCEPT !.unmute = {person}],
                 [StartRow EXCEPT !.mute = {person}, !.unmute = {person}]}
MCMuteBodies == {NoMutes, [NoMutes EXCEPT !["global"] = {person}, !["indoor"] = {person}]}
=============================================================================
