----------------------------- MODULE MCTripwire -----------------------------
(* Small instances of Tripwire: a person who walks about a line at y = 1,  *)
(* with a face above, and a car that stands still.                         *)
EXTENDS Tripwire

CONSTANTS person, car

MCPlaces ==
    [t \in Tracks |-> IF t = person THEN {<<0, 0>>, <<2, 0>>, <<0, 2>>, <<2, 1>>, <<2, 2>>} ELSE {<<0, 0>>}]
MCOffset == <<0, -2>>

\* Over the whole frame, or over its right half.
MCLines == {<<<<-1, 1>>, <<3, 1>>>>, <<<<1, 1>>, <<3, 1>>>>}
=============================================================================
