------------------------------ MODULE NfcReader ------------------------------
(***************************************************************************)
(* PRG_NFC: the dialogue with the NFC device behind the TXT gateway.  The  *)
(* device is external: it answers with the tag of the workpiece that the   *)
(* gripper holds over it, or not at all, and after 30 s the part counts as *)
(* bad.  Steps 60 and 70 (reading a tag by hand to clear the rack) raise   *)
(* Clean_Rack_HBW and are part of the operator in this model.              *)
(***************************************************************************)
EXTENDS DataBlocks

CONSTANT NfcMayFail      \* whether the device may stay silent for 30 s

\* Step 0: a request of the gripper robot starts the dialogue unless the part
\* is known to be bad.
NfcStart ==
  /\ nfc = 0
  /\ nfc' = IF "Workpiece_NiO" \in bits THEN 0
            ELSE IF "NFC_Start_First" \in bits THEN 20
            ELSE IF "NFC_Start" \in bits THEN 50 ELSE 0
  /\ Switch({}, {"NFC_Completed"})
  /\ UNCHANGED wp

\* Steps 10 to 30: the tag is deleted and its id read.
NfcDeleted ==
  /\ nfc = 20
  /\ \/ \E p \in Held("gripper") :
          nfc' = 50 /\ wp' = [wp EXCEPT !["VGR"].id = p]
     \/ nfc' = 20 /\ UNCHANGED wp
  /\ UNCHANGED bits

\* Steps 40 and 50: history, colour and state are written.
NfcWritten ==
  /\ nfc = 50
  /\ nfc' \in {50} \cup IF Held("gripper") # {} THEN {80} ELSE {}
  /\ UNCHANGED <<bits, wp>>

\* The answer and the end of the 30 s may fall into one scan: the id is
\* taken over and the part is bad all the same.
NfcTimeout ==
  /\ nfc \in {20, 50}
  /\ NfcMayFail
  /\ nfc' = 0
  /\ Switch({"Workpiece_NiO"}, {})
  /\ wp' \in {wp} \cup IF nfc = 20
       THEN {[wp EXCEPT !["VGR"].id = p] : p \in Held("gripper")} ELSE {}

NfcCompleted ==
  /\ nfc = 80
  /\ IF bits \cap {"NFC_Start", "NFC_Start_First"} = {}
       THEN nfc' = 0 /\ Switch({}, {"NFC_Completed"})
       ELSE nfc' = 80 /\ Switch({"NFC_Completed"}, {})
  /\ UNCHANGED wp

NFCProgram ==
  /\ NfcStart \/ NfcDeleted \/ NfcWritten \/ NfcTimeout \/ NfcCompleted
  /\ UNCHANGED <<vgr, hbw, mpo, sld, ord, rack, act, bay, typ, state,
                 button, at, cont>>

NfcStep == {0, 20, 50, 80}
=============================================================================
