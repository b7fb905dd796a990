---------------------------- MODULE MCIncidents ----------------------------
(* Instances of Incidents for TLC: a rule with the default merge window   *)
(* and no cooldown, a rule with a longer window and a cooldown, one that  *)
(* never merges, and a hotlist entry or a sequence rule.                  *)
EXTENDS Incidents, TLC

CONSTANTS c1, c2, anyRule, cooledRule, freshRule, hotlist, i1, i2, i3

Symm == Permutations(Ids)

MCMatches == [s \in Sources |-> IF s = freshRule THEN {c1} ELSE Cameras]
MCPhase == [s \in Sources |-> IF s \in Rules THEN 2 ELSE 1]
MCPhaseSequence == [s \in Sources |-> IF s \in Rules THEN 2 ELSE 3]
MCCooldown == [s \in Sources |-> IF s = anyRule THEN 0 ELSE 2]
MCMergeWindow ==
    [r \in Rules |-> IF r = anyRule THEN 0 ELSE IF r = freshRule THEN -1 ELSE 2]
MCSeverity == [s \in Sources |-> IF s = anyRule THEN 1 ELSE IF s = cooledRule THEN 3 ELSE 2]
============================================================================
