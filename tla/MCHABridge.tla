----------------------------- MODULE MCHABridge -----------------------------
(* Small instances of HABridge: one camera, one delivery and two keys. *)
EXTENDS HABridge

CONSTANTS home, other, house, elsewhere, bridge, d1, asHome, newPassword, asOther

MCOwnBroker == [k \in Keys |-> IF k = home THEN house ELSE elsewhere]
MCKeyOf == [c \in Configs |-> IF c = asOther THEN other ELSE home]
MCSameBroker == [k \in Keys |-> house]
=============================================================================
