---------------------------- MODULE WorkpieceFlow ----------------------------
(***************************************************************************)
(* What the factory promises about workpieces, whatever the programs do:   *)
(* each one travels from place to place towards a goal, first the rack,    *)
(* then, once ordered, the output shelf, or the reject position when it is *)
(* found bad in the gripper; and no two of them ever share a place that    *)
(* has room for one.                                                       *)
(***************************************************************************)

CONSTANTS
  Part,      \* the workpieces
  Shelf,     \* the slots of the rack
  Tray       \* the bays of the sorting line

VARIABLES
  where,     \* the place of each workpiece
  goal       \* where it is going: "rack", "DSO" or "reject"

\* The legs that lead to each goal.
Leg == [
  rack   |-> {<<"outside", "DSI">>, <<"DSI", "gripper">>, <<"gripper", "belt">>}
               \cup {<<"belt", s>> : s \in Shelf},
  DSO    |-> {<<"belt", "gripper">>, <<"gripper", "oven">>, <<"oven", "SLD">>,
              <<"gripper", "DSO">>, <<"DSO", "gone">>}
               \cup {<<"SLD", t>> : t \in Tray} \cup {<<t, "gripper">> : t \in Tray},
  reject |-> {<<"gripper", "reject">>}]

\* Outside the factory and in the waste there is room for any number.
Free(place) == \/ place \in {"gone", "reject"}
               \/ \A p \in Part : where[p] # place

Travel(p, to) ==
  /\ <<where[p], to>> \in Leg[goal[p]] /\ Free(to)
  /\ where' = [where EXCEPT ![p] = to]
  /\ goal' = goal

\* A workpiece in the rack is ordered and leaves its slot.
Order(p) ==
  /\ where[p] \in Shelf /\ Free("belt")
  /\ where' = [where EXCEPT ![p] = "belt"]
  /\ goal' = [goal EXCEPT ![p] = "DSO"]

\* A shipped workpiece leaves the factory for good, or comes back later.
ComeBack(p) ==
  /\ where[p] = "DSO"
  /\ where' = [where EXCEPT ![p] = "outside"]
  /\ goal' = [goal EXCEPT ![p] = "rack"]

Spoil(p) ==
  /\ where[p] = "gripper"
  /\ goal' = [goal EXCEPT ![p] = "reject"]
  /\ where' = where

\* At the start workpieces are outside or in the rack.
FlowInit ==
  /\ where \in [Part -> {"outside"} \cup Shelf]
  /\ \A p, q \in Part : where[p] = where[q] /\ where[p] # "outside" => p = q
  /\ goal = [p \in Part |-> "rack"]

Stop == Shelf \cup Tray \cup {"DSI", "gripper", "belt", "oven", "SLD", "DSO",
                              "gone", "reject"}

FlowNext == \E p \in Part : Order(p) \/ ComeBack(p) \/ Spoil(p) \/ \E to \in Stop : Travel(p, to)

FlowSpec == FlowInit /\ [][FlowNext]_<<where, goal>>
=============================================================================
