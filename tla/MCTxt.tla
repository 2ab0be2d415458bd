-------------------------------- MODULE MCTxt --------------------------------
(* Two slots; a white workpiece in the rack, a red and a white one outside. *)
EXTENDS TxtFactory
CONSTANTS w1, r1, w2
Three == {w1, r1, w2}
Two == {w1, r1}
ThreeColours == [p \in Three |-> IF p = r1 THEN "RED" ELSE "WHITE"]
TwoColours == [p \in Two |-> IF p = r1 THEN "RED" ELSE "WHITE"]
OneIn == [s \in Slots |-> IF s = 1 THEN w1 ELSE NoUid]
BothIn == [s \in Slots |-> IF s = 1 THEN w1 ELSE r1]
=============================================================================
