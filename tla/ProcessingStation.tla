-------------------------- MODULE ProcessingStation --------------------------
(***************************************************************************)
(* PRG_MPO_Ablauf: the step chain of the multi-processing station with the *)
(* oven.  It opens the oven on request, takes a workpiece from the gripper *)
(* robot, fires and saws it and passes it to the sorting line.             *)
(***************************************************************************)
EXTENDS DataBlocks

CONSTANT MpoMayFail      \* whether a monitored wait may exceed 30 s

MpoInit ==
  /\ mpo = 0
  /\ mpo' = IF bits \cap {"MPO_Error", "Start_Park_Position"} = {} THEN 10 ELSE 0
  /\ UNCHANGED <<bits, wp, state, at>>

\* 10-50 start position, 110-270 firing, sawing and feeding, 290 belt run-on.
MpoMotion == {<<10, 60>>, <<110, 280>>, <<290, 60>>}

MpoMove ==
  /\ \E m \in MpoMotion : mpo = m[1] /\ mpo' \in {m[1], m[2]}
  /\ UNCHANGED <<bits, wp, state, at>>

MpoAwaitRequest ==
  /\ mpo = 60
  /\ mpo' = IF "MPO_Req_Discard" \in bits THEN 70 ELSE 60
  /\ UNCHANGED <<bits, wp, state, at>>

\* Steps 70 to 90: the oven opens, its feeder comes out.
MpoOpen ==
  /\ mpo = 70
  /\ \/ mpo' = 100 /\ Switch({"Discard_Ready"}, {"MPO_Discards_Accepted"})
     \/ mpo' = 70 /\ UNCHANGED bits
  /\ UNCHANGED <<wp, state, at>>

PartInOven == "MPO_Discards" \in bits /\ Held("oven") # {}
\* The record is taken over with the part.
TakeOver == wp' = [wp EXCEPT !["MPO"] = wp["VGR"]]

MpoAccept ==
  /\ mpo = 100
  /\ IF PartInOven
       THEN /\ mpo' = 105
            /\ Switch({"MPO_Discards_Accepted"}, {"Discard_Ready"})
            /\ TakeOver
       ELSE mpo' = 100 /\ UNCHANGED <<bits, wp>>
  /\ UNCHANGED <<state, at>>

\* The 30 s of step 100 are over; a part that arrives in the same scan is
\* still entered in the register.
MpoNoPart ==
  /\ mpo = 100 /\ MpoMayFail
  /\ mpo' = 0
  /\ Switch({"MPO_Error"}, {"Discard_Ready", "MPO_Discards_Accepted"})
  /\ IF PartInOven THEN TakeOver ELSE UNCHANGED wp
  /\ state' = "WAITING_FOR_ORDER"
  /\ UNCHANGED at

\* Step 105: the feeder retracts once the robot is out of the way.
MpoRetract ==
  /\ mpo = 105
  /\ \/ "MPO_Discards" \notin bits /\ mpo' = 110
        /\ Switch({}, {"MPO_Discards_Accepted"})
     \/ mpo' = 105 /\ UNCHANGED bits
  /\ UNCHANGED <<wp, state, at>>

\* Step 280: the part has passed the end of the belt.
MpoPassOn ==
  /\ mpo = 280
  /\ \/ /\ mpo' = 290 /\ Held("oven") # {}
        /\ wp' = [wp EXCEPT !["SLD"] = wp["MPO"], !["MPO"] = NoWorkpiece]
        /\ Carry("oven", "SLD")
     \/ mpo' = 280 /\ UNCHANGED <<wp, at>>
  /\ UNCHANGED <<bits, state>>

MpoLostPart ==
  /\ mpo = 280 /\ MpoMayFail
  /\ mpo' = 0
  /\ Switch({"MPO_Error"}, {})
  /\ \/ UNCHANGED <<wp, at>>
     \/ /\ Held("oven") # {}
        /\ wp' = [wp EXCEPT !["SLD"] = wp["MPO"], !["MPO"] = NoWorkpiece]
        /\ Carry("oven", "SLD")
  /\ UNCHANGED state

\* One call of the program.
MPOProgram ==
  /\ \/ MpoInit \/ MpoMove \/ MpoAwaitRequest \/ MpoOpen \/ MpoAccept
     \/ MpoNoPart \/ MpoRetract \/ MpoPassOn \/ MpoLostPart
  /\ UNCHANGED <<vgr, nfc, hbw, sld, ord, rack, act, bay, typ, button, cont>>

MpoStep == {0, 10, 60, 70, 100, 105, 110, 280, 290}
=============================================================================
