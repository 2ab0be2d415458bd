------------------------------ MODULE OrderDesk ------------------------------
(***************************************************************************)
(* PRG_DSO_Status, PRG_Order and PRG_Acknowledge: what the dashboard sees  *)
(* and asks.  They run at the end of every scan.                           *)
(***************************************************************************)
EXTENDS DataBlocks

\* PRG_DSO_Status: an order ends when its part is taken from the output shelf
\* or has lain there for 5 s.  The timer starts in the scan that raises
\* StartEndOrder and runs out in a later one.
Shelf == IF Held("DSO") # {} THEN {"DSO_Occupied"} ELSE {}
\* A slip would be to take the level of the light barrier for its edge.
ShelfEmpty == Shelf = {}
Taken == Shelf = {} /\ "DSO_Occupied" \in bits
TimerOn == "StartEndOrder" \in bits
TimerStart == IF Shelf # {} /\ state = "SHIPPED" THEN {"StartEndOrder"} ELSE {}

DSOProgram ==
  /\ \/ /\ Taken \/ TimerOn
        /\ Switch(Shelf, {"StartEndOrder", "DSO_Occupied"})
        /\ state' = "WAITING_FOR_ORDER"
     \/ /\ ~Taken
        /\ Switch(Shelf \cup TimerStart, {"DSO_Occupied"} \ Shelf)
        /\ UNCHANGED state
  /\ UNCHANGED <<vgr, nfc, hbw, mpo, sld, ord, wp, rack, act, bay, typ,
                 button, at, cont>>

OrderInit == ord = 0 /\ ord' = 10 /\ UNCHANGED <<bits, typ, state, button>>

\* PRG_Order, step 10: a new time stamp of the order button.  The order is
\* passed on when the gripper robot is ready for it; until then the state
\* shown is ORDERED and the button stays new.
OrderTake ==
  /\ ord = 10
  /\ IF button = Blank THEN UNCHANGED <<ord, bits, typ, state, button>>
     ELSE /\ typ' = button /\ state' = "ORDERED"
          /\ IF "Ready_For_Outsource" \in bits
               THEN Switch({"HBW_Outsource"}, {}) /\ ord' = 20 /\ button' = Blank
               ELSE UNCHANGED <<ord, bits, button>>

\* Step 20: the order is withdrawn when its part has been picked up, or when
\* the robot has dropped it.
PickedUpOrDropped == "HBW_PickedUp" \in bits \/ "HBW_Outsource" \notin bits

OrderClear ==
  /\ ord = 20
  /\ IF PickedUpOrDropped
       THEN ord' = 0 /\ Switch({}, {"HBW_Outsource"}) /\ typ' = Blank
       ELSE UNCHANGED <<ord, bits, typ>>
  /\ UNCHANGED <<state, button>>

OrderProgram ==
  /\ OrderInit \/ OrderTake \/ OrderClear
  /\ UNCHANGED <<vgr, nfc, hbw, mpo, sld, wp, rack, act, bay, at, cont>>

\* PRG_Acknowledge: the errors of three stations are taken back.
AckProgram ==
  /\ IF "AcknowledgeButton" \in bits
       THEN Switch({}, {"AcknowledgeButton", "HBW_Error", "MPO_Error", "SLD_Error"})
       ELSE UNCHANGED bits
  /\ UNCHANGED <<vgr, nfc, hbw, mpo, sld, ord, wp, rack, act, bay, typ,
                 state, button, at, cont>>

OrdStep == {0, 10, 20}
=============================================================================
