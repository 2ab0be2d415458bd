----------------------------- MODULE DataBlocks -----------------------------
(***************************************************************************)
(* The global data blocks of the PLC program (gtyp_VGR, gtyp_HBW,          *)
(* gtyp_MPO, gtyp_SLD, gtyp_Setup, gtyp_Interface_Dashboard), which every  *)
(* program reads and writes, and the little of the plant that the          *)
(* properties look at: where each workpiece and the moving container are.  *)
(*                                                                         *)
(* A BOOL of a data block is a member of the set `bits' while it is TRUE.  *)
(* A step number stands for a chain of code steps that move the station's  *)
(* own axes, wait for its own timers and touch nothing shared; the chain   *)
(* has the number of its first step.                                       *)
(***************************************************************************)
EXTENDS Naturals, Sequences, FiniteSets

CONSTANTS
  Piece,          \* the workpieces that exist, each with its own NFC tag
  ColourOf,       \* what the colour sensors measure of a workpiece
  SlotOrder,      \* the rack, in the order the search loops visit it
  Stock           \* the pieces in the rack at start: a function Slot -> Piece or NoPiece

Colour == {"BLUE", "RED", "WHITE"}
NoPiece == "none"
Blank == ""           \* a cleared string of a data block
Slot == {SlotOrder[i] : i \in DOMAIN SlotOrder}

\* Places of a workpiece.  A rack slot is a place of its own; a bay of the
\* sorting line has the name of its colour.
Station == {"outside", "DSI", "gripper", "belt", "oven", "SLD", "DSO",
            "gone", "reject", "lost"}
Place == Station \cup Colour \cup Slot

ASSUME PlantAssumption ==
  /\ SlotOrder \in Seq(STRING)
  /\ \A i, j \in DOMAIN SlotOrder : SlotOrder[i] = SlotOrder[j] => i = j
  /\ Slot \cap (Station \cup Colour \cup {"none"}) = {}
  /\ Piece \cap {Blank, "0", "none"} = {}
  /\ ColourOf \in [Piece -> Colour]
  /\ Stock \in [Slot -> Piece \cup {NoPiece}]
  /\ \A s, t \in Slot : Stock[s] = Stock[t] /\ Stock[s] # NoPiece => s = t

VARIABLES
  bits,      \* the BOOLs of the data blocks that are TRUE
  vgr, nfc, hbw, mpo, sld, ord,   \* li_StepCase of each program
  wp,        \* the Workpiece register of each station
  rack,      \* Rack_Workpiece with the storing time of Rack_History
  act,       \* li_Counter_Act_Hor/Ver: the slot the warehouse works on
  bay,       \* ldi_Pos_SLD_*: the bay the gripper drives to
  typ,       \* s_HBW_Outsource_Typ
  state,     \* State_Order.s_state
  button,    \* the order button's type while its time stamp is new, else Blank
  at,        \* plant: the place of each workpiece
  cont       \* plant: where the container taken from the rack is

\* Start_Park_Position stands for the x_Start_Park_Position of the three
\* stations, which the same edge raises and only the first scan lowers.
\* The requests of the gripper robot, the answers of the other stations, the
\* setup switches and the edge memories.
VgrBit   == {"HBW_Storage", "HBW_Outsource", "HBW_PickedUp", "HBW_Discards",
             "MPO_Req_Discard", "MPO_Discards", "NFC_Start_First", "NFC_Start",
             "NFC_Completed", "Ready_For_Outsource", "Workpiece_NiO"}
HbwBit   == {"Container_Available", "PickedUp_Accepted", "Discards_Accepted",
             "HBW_Error", "lx_Storage"}
MpoBit   == {"Discard_Ready", "MPO_Discards_Accepted", "MPO_Error"}
SldBit   == {"SLD_Error"}
ModeBit  == {"Set_Pos_Activ", "Color_Sensor_Calibration", "Start_Park_Position"}
SetupBit == ModeBit \cup {"Clean_Rack_HBW", "AcknowledgeButton"}
EdgeBit  == {"NiO_Seen", "DSO_Occupied", "StartEndOrder"}
Bit == VgrBit \cup HbwBit \cup MpoBit \cup SldBit \cup SetupBit \cup EdgeBit

Id == Piece \cup {Blank, "0"}
Workpiece == [id : Id, type : Colour \cup {Blank}]
RackEntry == [id : Id, type : Colour \cup {Blank}, ts : Nat]
Register == {"VGR", "HBW", "MPO", "SLD", "SSC"}

NoWorkpiece    == [id |-> "0", type |-> Blank]   \* s_id '0', no type
BlankWorkpiece == [id |-> Blank, type |-> Blank]

\* Of the storing times only the order matters: ts is the rank of a record
\* among the records that have one, 0 stands for DT#1990-01-01, the value of a
\* cleared history.
FreeEntry  == [id |-> "0", type |-> Blank, ts |-> 0]
BlankEntry == [id |-> Blank, type |-> Blank, ts |-> 0]

Held(place) == {p \in Piece : at[p] = place}

\* Moves the workpieces of one place to another one.
Carry(from, to) == at' = [p \in Piece |-> IF at[p] = from THEN to ELSE at[p]]

\* Raises and lowers bits of the data blocks.
Switch(on, off) == bits' = (bits \ off) \cup on

vars == <<bits, vgr, nfc, hbw, mpo, sld, ord, wp, rack, act, bay, typ,
          state, button, at, cont>>
=============================================================================
