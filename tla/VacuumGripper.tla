---------------------------- MODULE VacuumGripper ----------------------------
(***************************************************************************)
(* PRG_VGR_Ablauf: the step chain of the vacuum gripper robot, the station *)
(* that carries every workpiece and that starts every handover.            *)
(***************************************************************************)
EXTENDS DataBlocks

vgrShared == <<bits, wp, at, bay, state>>

\* Conditions that throw the chain back to step 0 in every scan they hold.
ResetBit == ModeBit \cup {"MPO_Error"}

\* Bits a scan at step 0 keeps FALSE.
InitBit == {"HBW_Storage", "HBW_Outsource", "NFC_Start_First", "NFC_Start",
            "Ready_For_Outsource"}

MpoRequest == {"MPO_Req_Discard", "MPO_Discards"}

Resets == bits \cap ResetBit # {}
NiOEdge == "Workpiece_NiO" \in bits /\ "NiO_Seen" \notin bits
MpoRequestOff == IF "MPO_Error" \in bits THEN MpoRequest ELSE {}

\* The edge of x_Workpiece_NiO stops every motion and jumps to step 70, whose
\* first branch leads to the reject procedure.  The edge memory is lowered
\* with the bit itself (VgrRejected): nothing can raise the bit in between.
BadPartStep == 1200

VgrBadPart ==
  /\ NiOEdge
  /\ Switch({"NiO_Seen"}, {"NFC_Start_First", "NFC_Start", "Ready_For_Outsource"}
                            \cup MpoRequestOff)
  /\ vgr' = BadPartStep
  /\ UNCHANGED <<wp, at, bay, state>>

\* Step 0: requests withdrawn, vacuum and compressor off.
VgrInit ==
  /\ ~NiOEdge
  /\ Resets \/ vgr = 0
  /\ Switch({}, InitBit \cup MpoRequestOff)
  /\ Carry("gripper", "lost")
  /\ vgr' = IF bits \cap {"Set_Pos_Activ", "Start_Park_Position", "MPO_Error"} = {}
              THEN 10 ELSE 0
  /\ UNCHANGED <<wp, bay, state>>

In(step) == ~NiOEdge /\ ~Resets /\ vgr = step

-----------------------------------------------------------------------------
\* Motions and waits: the chain goes on when the axes are in position and the
\* timers have run, which may take any number of scans.

FinishedMotion == {<<100, 150>>, <<160, 230>>, <<240, 270>>, <<310, 70>>}
OutsourceMotion == {<<400, 440>>, <<450, 460>>, <<485, 500>>, <<510, 520>>}
StoreMotion == {<<600, 640>>, <<650, 700>>, <<710, 750>>, <<760, 810>>,
                <<820, 880>>, <<890, 900>>, <<920, 960>>}
RejectMotion == {<<1210, 1270>>}

VgrMove ==
  /\ \E m \in FinishedMotion \cup OutsourceMotion \cup StoreMotion \cup RejectMotion :
       In(m[1]) /\ vgr' \in {m[1], m[2]}
  /\ UNCHANGED vgrShared

\* Steps 10 to 60: reference runs of the three axes.
VgrHome ==
  /\ In(10)
  /\ vgr' \in {10, 70}
  /\ Switch({"Ready_For_Outsource"}, {})
  /\ UNCHANGED <<wp, at, bay, state>>

-----------------------------------------------------------------------------
\* Step 70: what to do next, in the order of the IF chain.  Every job but an
\* order makes the robot unready for orders.

\* A slip would be to forget that.
UnreadyForgotten == {}
Unready == {"Ready_For_Outsource"}

FinishedBay == {c \in Colour : Held(c) # {}}
FirstBay == IF "BLUE" \in FinishedBay THEN "BLUE"
            ELSE IF "RED" \in FinishedBay THEN "RED" ELSE "WHITE"

Dispatch(cond, step) == In(70) /\ cond /\ vgr' = step /\ UNCHANGED <<wp, at>>
Good == "Workpiece_NiO" \notin bits
Ordered == "HBW_Outsource" \in bits

VgrDispatchBad ==
  /\ Dispatch(~Good, 1200)
  /\ Switch({}, Unready)
  /\ UNCHANGED <<bay, state>>

VgrDispatchFinished ==
  /\ Dispatch(Good /\ FinishedBay # {}, 100)
  /\ bay' = FirstBay
  /\ Switch({}, Unready)
  /\ UNCHANGED state

VgrDispatchOutsource ==
  /\ Dispatch(Good /\ FinishedBay = {} /\ Ordered, 400)
  /\ Switch({"Ready_For_Outsource"}, {})
  /\ state' = "ORDERED"
  /\ UNCHANGED bay

VgrDispatchStore ==
  /\ Dispatch(Good /\ FinishedBay = {} /\ ~Ordered /\ Held("DSI") # {}, 600)
  /\ Switch({"HBW_Storage"}, Unready)
  /\ UNCHANGED <<bay, state>>

VgrIdle ==
  /\ Dispatch(Good /\ FinishedBay = {} /\ ~Ordered /\ Held("DSI") = {}, 70)
  /\ Switch({"Ready_For_Outsource"}, {})
  /\ UNCHANGED <<bay, state>>

VgrDispatch == \/ VgrDispatchBad \/ VgrDispatchFinished \/ VgrDispatchOutsource
               \/ VgrDispatchStore \/ VgrIdle

-----------------------------------------------------------------------------
\* Finished parts: sorting bay -> NFC -> output shelf.

VgrTakeFinished ==
  /\ In(150)
  /\ \/ vgr' = 160 /\ Carry(bay, "gripper")
        /\ wp' = [wp EXCEPT !["VGR"] = wp["SLD"], !["SLD"] = NoWorkpiece]
     \/ vgr' = 150 /\ UNCHANGED <<wp, at>>
  /\ UNCHANGED <<bits, bay, state>>

\* Steps 230, 700 and 810 keep the request up until the reader has answered.
NfcRequest(step, request, next) ==
  /\ In(step)
  /\ IF "NFC_Completed" \in bits
       THEN vgr' = next /\ Switch({}, {request})
       ELSE vgr' = step /\ Switch({request}, {})
  /\ UNCHANGED <<wp, at, bay, state>>

VgrNfc == \/ NfcRequest(230, "NFC_Start", 240)
          \/ NfcRequest(700, "NFC_Start_First", 710)
          \/ NfcRequest(810, "NFC_Start", 820)

\* Step 270 holds the part above the shelf until the shelf is free; step 280
\* lowers it.
VgrToShelf ==
  /\ \/ In(270) /\ vgr' \in IF Held("DSO") = {} THEN {270, 280} ELSE {270}
     \/ In(280) /\ vgr' \in {280, 290}
  /\ UNCHANGED vgrShared

VgrShip ==
  /\ In(290)
  /\ \/ vgr' = 310 /\ Carry("gripper", "DSO") /\ state' = "SHIPPED"
        /\ wp' = [wp EXCEPT !["SSC"] = wp["VGR"], !["VGR"] = NoWorkpiece]
     \/ vgr' = 290 /\ UNCHANGED <<wp, at, state>>
  /\ UNCHANGED <<bits, bay>>

-----------------------------------------------------------------------------
\* Outsourcing: container on the warehouse belt -> oven.

\* A slip would be not to look for the container, or for the oven below.
ContainerUnchecked == TRUE
ContainerThere == "Container_Available" \in bits

VgrMeetContainer ==
  /\ \/ In(440) /\ vgr' = IF ContainerThere THEN 450 ELSE 440
     \/ In(880) /\ vgr' = IF ContainerThere THEN 890 ELSE 880
  /\ UNCHANGED vgrShared

VgrRequestOven ==
  /\ In(460)
  /\ vgr' = 470
  /\ Switch({"MPO_Req_Discard"}, {})
  /\ UNCHANGED <<wp, at, bay, state>>

VgrSuck ==
  /\ In(470)
  /\ \/ vgr' = 480 /\ Carry("belt", IF cont = "outside" THEN "gripper" ELSE "belt")
     \/ vgr' = 470 /\ UNCHANGED at
  /\ UNCHANGED <<bits, wp, bay, state>>

VgrPickedUp ==
  /\ In(480)
  /\ \/ vgr' = 485 /\ Switch({"HBW_PickedUp"}, {})
     \/ vgr' = 480 /\ UNCHANGED bits
  /\ UNCHANGED <<wp, at, bay, state>>

VgrLeaveBelt ==
  /\ In(500)
  /\ \/ vgr' = 510 /\ Switch({}, {"HBW_PickedUp"})
     \/ vgr' = 500 /\ UNCHANGED bits
  /\ UNCHANGED <<wp, at, bay, state>>

OvenUnchecked == TRUE
OvenReady == "Discard_Ready" \in bits

VgrLowerToOven ==
  /\ In(520)
  /\ \/ OvenReady /\ vgr' = 530 /\ Switch({}, {"MPO_Req_Discard"})
     \/ vgr' = 520 /\ UNCHANGED bits
  /\ UNCHANGED <<wp, at, bay, state>>

VgrReleaseOven ==
  /\ In(530)
  /\ vgr' = 540
  /\ Carry("gripper", IF mpo = 100 THEN "oven" ELSE "lost")
  /\ UNCHANGED <<bits, wp, bay, state>>

VgrDiscardOven ==
  /\ In(540)
  /\ vgr' = 550
  /\ Switch({"MPO_Discards"}, {"Ready_For_Outsource"})
  /\ state' = "IN_PROCESS"
  /\ UNCHANGED <<wp, at, bay>>

VgrLeaveOven ==
  /\ \/ In(550) /\ vgr' = 560 /\ "MPO_Discards_Accepted" \in bits
                /\ Switch({}, {"MPO_Discards"})
     \/ In(550) /\ vgr' = 550 /\ UNCHANGED bits
     \/ In(560) /\ vgr' = 580 /\ Switch({}, {"MPO_Discards"})
     \/ In(560) /\ vgr' = 560 /\ UNCHANGED bits
  /\ UNCHANGED <<wp, at, bay, state>>

VgrOutsourced ==
  /\ In(580)
  /\ \/ vgr' = 0 /\ wp' = [wp EXCEPT !["VGR"] = NoWorkpiece]
     \/ vgr' = 580 /\ UNCHANGED wp
  /\ UNCHANGED <<bits, at, bay, state>>

-----------------------------------------------------------------------------
\* Storing: input shelf -> NFC -> colour sensor -> NFC -> warehouse belt.

VgrTakeDelivered ==
  /\ In(640)
  /\ vgr' = 650
  /\ Carry("DSI", "gripper")
  /\ UNCHANGED <<bits, wp, bay, state>>

\* Without a workpiece under it the sensor may read anything; a slip would be
\* to read it before the value has settled.
Unsettled == Colour
Readable == IF Held("gripper") = {} THEN Colour ELSE {ColourOf[p] : p \in Held("gripper")}

VgrMeasureColour ==
  /\ In(750)
  /\ \E c \in Readable : wp' = [wp EXCEPT !["VGR"].type = c]
  /\ vgr' \in {750, 760}
  /\ UNCHANGED <<bits, at, bay, state>>

\* The part lands in the container if an empty one is under the gripper.
VgrRelease ==
  /\ In(900)
  /\ vgr' = 910
  /\ Carry("gripper", IF cont = "outside" /\ Held("belt") = {} THEN "belt" ELSE "lost")
  /\ UNCHANGED <<bits, wp, bay, state>>

\* The timer of step 910 starts in the scan that raises x_HBW_Discards, so it
\* cannot have run before the next one.
VgrDiscardBelt ==
  /\ In(910)
  /\ \/ vgr' = 920 /\ {"HBW_Discards", "Discards_Accepted"} \subseteq bits
        /\ Switch({}, {"HBW_Discards", "HBW_Storage"})
     \/ vgr' = 910 /\ Switch({"HBW_Discards"}, {})
  /\ UNCHANGED <<wp, at, bay, state>>

VgrStored ==
  /\ In(960)
  /\ \/ vgr' = 0 /\ "Discards_Accepted" \in bits
        /\ Switch({}, {"HBW_Discards"})
        /\ wp' = [wp EXCEPT !["VGR"] = BlankWorkpiece]
     \/ vgr' = 960 /\ UNCHANGED <<bits, wp>>
  /\ UNCHANGED <<at, bay, state>>

-----------------------------------------------------------------------------
\* Rejecting a part whose tag could not be read or written.

HbwAccepted == {"Discards_Accepted", "PickedUp_Accepted"}

\* The record of a bad part is deleted.
BadRecord == [wp EXCEPT !["VGR"] = NoWorkpiece]

\* The second scan of step 1200 has the number 1201: by then the program of
\* the vertical axis has answered x_Reference by lowering x_Referenced.
VgrReject ==
  /\ \/ In(1200) /\ vgr' = 1201
     \/ In(1201) /\ vgr' = 1210
  /\ wp' = BadRecord
  /\ IF bits \cap HbwAccepted # {}
       THEN Switch({}, HbwAccepted \cup {"HBW_Discards", "HBW_PickedUp"})
       ELSE Switch(IF "Container_Available" \in bits THEN {"HBW_Discards"} ELSE {}, {})
  /\ UNCHANGED <<at, bay, state>>

VgrDropBad ==
  /\ In(1270)
  /\ vgr' = 1280
  /\ Carry("gripper", "reject")
  /\ UNCHANGED <<bits, wp, bay, state>>

VgrRejected ==
  /\ In(1280)
  /\ \/ vgr' = 0 /\ Switch({}, {"Workpiece_NiO", "NiO_Seen", "HBW_Discards"})
     \/ vgr' = 1280 /\ UNCHANGED bits
  /\ UNCHANGED <<wp, at, bay, state>>

-----------------------------------------------------------------------------
VgrFinished == VgrTakeFinished \/ VgrToShelf \/ VgrShip
VgrOutsource == \/ VgrRequestOven \/ VgrSuck \/ VgrPickedUp \/ VgrLeaveBelt
                \/ VgrLowerToOven \/ VgrReleaseOven \/ VgrDiscardOven
                \/ VgrLeaveOven \/ VgrOutsourced
VgrStore == \/ VgrTakeDelivered \/ VgrMeasureColour \/ VgrRelease
            \/ VgrDiscardBelt \/ VgrStored
VgrBad == VgrReject \/ VgrDropBad \/ VgrRejected

\* One call of the program.
VGRProgram ==
  /\ \/ VgrBadPart \/ VgrInit \/ VgrMove \/ VgrHome \/ VgrDispatch \/ VgrNfc
     \/ VgrMeetContainer \/ VgrFinished \/ VgrOutsource \/ VgrStore \/ VgrBad
  /\ UNCHANGED <<nfc, hbw, mpo, sld, ord, rack, act, typ, button, cont>>

VgrStep == {0, 10, 70} \cup {100, 150, 160, 230, 240, 270, 280, 290, 310}
  \cup {400, 440, 450, 460, 470, 480, 485, 500, 510, 520, 530, 540, 550, 560, 580}
  \cup {600, 640, 650, 700, 710, 750, 760, 810, 820, 880, 890, 900, 910, 920, 960}
  \cup {1200, 1201, 1210, 1270, 1280}
=============================================================================
