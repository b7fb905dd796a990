-------------------------------- MODULE MCFlags --------------------------------
(* A small instance of Flags: two detections of persons, and three classes *)
(* of which one is made while the model runs.                              *)
EXTENDS Flags, TLC

CONSTANTS person, kite, ball, d1, d2, c1, c2

MCClassOf == [d \in Dets |-> person]
MCTaxonomies == {(person :> [yolo |-> 0, enabled |-> TRUE, row |-> 0])
                 @@ (kite :> [yolo |-> 1, enabled |-> TRUE, row |-> 0]) @@ (ball :> None)}

Symm == Permutations(Callers)
=============================================================================
