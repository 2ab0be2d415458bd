------------------------------ MODULE MCFactory ------------------------------
(***************************************************************************)
(* Small factories for TLC.                                                *)
(***************************************************************************)
EXTENDS Factory

CONSTANTS p1, p2, p3

\* Two slots, two white parts; one is in the rack, one arrives.
TwoSlots == <<"A1", "A2">>
TwoPieces == {p1, p2}
BothWhite == [p \in TwoPieces |-> "WHITE"]
OneStored == [s \in {"A1", "A2"} |-> IF s = "A1" THEN p1 ELSE "none"]

\* Two slots, a white and a red part, both of which are delivered.
WhiteAndRed == [p \in TwoPieces |-> IF p = p1 THEN "WHITE" ELSE "RED"]
NoneStored == [s \in {"A1", "A2"} |-> "none"]

\* Two slots, one white part that is delivered.
OnePiece == {p1}
OneWhite == [p \in OnePiece |-> "WHITE"]

\* Three slots, two white parts and a red one; two are in the rack.
ThreeSlots == <<"A1", "A2", "A3">>
ThreePieces == {p1, p2, p3}
OneRed == [p \in ThreePieces |-> IF p = p3 THEN "RED" ELSE "WHITE"]
TwoStored == [s \in {"A1", "A2", "A3"} |->
                IF s = "A1" THEN p1 ELSE IF s = "A3" THEN p3 ELSE "none"]
=============================================================================
