------------------------------ MODULE MCPersons ------------------------------
(* A small instance of Persons: two faces of one person that are near enough *)
(* to match but not to be duplicates, one of somebody else, and the mean of  *)
(* the two persons on a track that passed from one to the other.             *)
EXTENDS Persons, TLC

CONSTANTS p1, p2, d1, d2, u1, k1, c1, c2, t1

MCFaces == {"ann", "turned", "bob", "mixed"}

MCShows == (d1 :> "ann") @@ (d2 :> "ann") @@ (u1 :> "turned")

MCSim == [e \in MCFaces \X MCFaces |->
    IF e[1] = e[2] THEN 100
    ELSE IF "mixed" \in {e[1], e[2]} THEN 40
    ELSE IF "bob" \in {e[1], e[2]} THEN 10 ELSE 60]

\* Both detections are of one track.
MCTrackOf == (d1 :> t1) @@ (d2 :> t1)

\* Two faces take the mean from one person to the other.
MCBlends == [e \in MCFaces \X MCFaces |-> IF e[1] \in {e[2], "mixed"} THEN {e[2]} ELSE {"mixed"}]

\* The track is new, or it was another person's.
MCSeen == {t1 :> None, t1 :> "bob"}

\* Nobody is known yet, or somebody with an uploaded photo, perhaps.
MCStarts == {[p \in People |-> None], p1 :> {} @@ p2 :> None, p1 :> {u1} @@ p2 :> None}
            \cup {p2 :> {} @@ p1 :> None, p2 :> {u1} @@ p1 :> None}

Symm == Permutations(Callers) \cup Permutations(People) \cup Permutations(Dets)
=============================================================================
