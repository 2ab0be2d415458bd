------------------------------- MODULE MCRack -------------------------------
(* Two or three slots, three workpieces: one in the rack, two of a colour. *)
EXTENDS TxtRack
CONSTANTS w1, w2, r1
Three == {w1, w2, r1}
ThreeColours == [p \in Three |-> IF p = r1 THEN "RED" ELSE "WHITE"]
OneIn == [s \in Slots |-> IF s = 1 THEN w1 ELSE NoUid]
=============================================================================
