--------------------------- MODULE MCSequenceRule ---------------------------
(* A small instance of SequenceRule: a three-hop rule whose last camera    *)
(* takes both classes, edited to two hops that one sighting of a person    *)
(* satisfies.                                                              *)
EXTENDS SequenceRule

CONSTANTS car, person, asPlanned, asEdited

MCKinds == {car, person}
MCVersions == {asPlanned, asEdited}
MCSteps ==
    [v \in MCVersions |->
        IF v = asPlanned THEN <<{car}, {person}, {person, car}>> ELSE <<{person}, {person}>>]
=============================================================================
