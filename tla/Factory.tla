------------------------------- MODULE Factory -------------------------------
(***************************************************************************)
(* The training factory: the programs of the PLC, called one after the     *)
(* other in the order of OB "Main", and the people around the factory, who *)
(* act between two scans.  The shared data blocks are the only channel     *)
(* between the programs, so the order of the calls decides which of them   *)
(* see a bit in the scan that raised it.                                   *)
(***************************************************************************)
EXTENDS VacuumGripper, NfcReader, HighBayWarehouse, ProcessingStation,
        SortingLine, OrderDesk

CONSTANTS
  Modes,       \* the setup switches the operator may use, a subset of SetupBit
  MayRestart,  \* whether the power of the PLC may fail
  Discipline,  \* the rules the customer keeps
  Regular      \* the workpieces that are delivered again once they are fetched

\* OneOrder: orders only while the dashboard shows WAITING_FOR_ORDER.
\* InStock: orders only colours the rack records show.
\* ClearShelf: orders only when the last part has been taken away.
Rules == {"OneOrder", "InStock", "ClearShelf"}

ASSUME PeopleAssumption == Modes \subseteq SetupBit /\ Discipline \subseteq Rules
                            /\ Regular \subseteq Piece

VARIABLE prg     \* the program that OB1 calls next; "IO" between two scans

allVars == <<vars, prg>>

Program == {"IO", "VGR", "NFC", "HBW", "MPO", "SLD", "DSO", "Order", "Ack"}

\* The order of the calls in OB1, and one with PRG_Order too early.
OrderBeforeHBW == [IO |-> "VGR", VGR |-> "NFC", NFC |-> "Order", Order |-> "HBW",
                   HBW |-> "MPO", MPO |-> "SLD", SLD |-> "DSO", DSO |-> "Ack",
                   Ack |-> "IO"]
Successor == [IO |-> "VGR", VGR |-> "NFC", NFC |-> "HBW", HBW |-> "MPO",
              MPO |-> "SLD", SLD |-> "DSO", DSO |-> "Order", Order |-> "Ack",
              Ack |-> "IO"]

-----------------------------------------------------------------------------
\* The people: a customer who delivers, orders and fetches workpieces, and an
\* operator at the setup screens.

Deliver(p) ==
  /\ at[p] = "outside" /\ Held("DSI") = {}
  /\ at' = [at EXCEPT ![p] = "DSI"]
  /\ UNCHANGED <<bits, button>>

MayOrder(c) ==
  /\ "OneOrder" \in Discipline => state = "WAITING_FOR_ORDER"
  /\ "InStock" \in Discipline => OfType(c) # {}
  /\ "ClearShelf" \in Discipline => Held("DSO") = {}
  /\ OfType(c) # {} \/ act # "none"

PressOrder(c) ==
  /\ MayOrder(c)
  /\ button' = c
  /\ UNCHANGED <<bits, at>>

Take(p) ==
  /\ at[p] = "DSO"
  /\ at' = [at EXCEPT ![p] = IF p \in Regular THEN "outside" ELSE "gone"]
  /\ UNCHANGED <<bits, button>>

Toggle(m) ==
  /\ bits' = IF m \in bits \ {"Start_Park_Position"} THEN bits \ {m}
              ELSE bits \cup {m}
  /\ UNCHANGED <<button, at>>

People ==
  /\ \/ \E p \in Piece : Deliver(p) \/ Take(p)
     \/ \E c \in Colour : PressOrder(c)
     \/ \E m \in Modes : Toggle(m)
     \/ UNCHANGED <<bits, button, at>>
  /\ UNCHANGED <<vgr, nfc, hbw, mpo, sld, ord, wp, rack, act, bay, typ,
                 state, cont>>

-----------------------------------------------------------------------------
Call(program, body) == prg = program /\ body /\ prg' = Successor[program]

\* The start of the PLC: the first scan of each program has set its data
\* blocks; the rack is retained.
Init ==
  /\ bits = {} /\ prg = "IO"
  /\ vgr = 0 /\ nfc = 0 /\ hbw = 0 /\ mpo = 0 /\ sld = 0 /\ ord = 0
  /\ wp = [r \in Register |-> BlankWorkpiece]
  /\ rack = [s \in Slot |-> IF Stock[s] = NoPiece THEN FreeEntry
               ELSE [id |-> Stock[s], type |-> ColourOf[Stock[s]], ts |-> 1]]
  /\ act = "none" /\ bay = "none"
  /\ typ = Blank /\ state = "WAITING_FOR_ORDER" /\ button = Blank
  /\ at = [p \in Piece |-> IF \E s \in Slot : Stock[s] = p
                             THEN CHOOSE s \in Slot : Stock[s] = p ELSE "outside"]
  /\ cont = "rack"

\* The power may fail between any two calls.  gtyp_Setup, the dashboard block
\* and the instance blocks of the programs are NON_RETAIN and start afresh;
\* the station blocks keep their values but for those the first scans write:
\* x_Error and the answers of the oven outlive the fall, the warehouse frees
\* the slot it had in work, and the vacuum is off.
Retained == {"Discard_Ready", "MPO_Discards_Accepted", "MPO_Error"}

Restart ==
  /\ MayRestart
  /\ bits' = bits \cap Retained /\ prg' = "IO"
  /\ vgr' = 0 /\ nfc' = 0 /\ hbw' = 0 /\ mpo' = 0 /\ sld' = 0 /\ ord' = 0
  /\ wp' = [wp EXCEPT !["VGR"] = BlankWorkpiece]
  /\ rack' = [s \in Slot |-> IF rack[s].id = Blank THEN FreeEntry ELSE rack[s]]
  /\ act' = "none" /\ bay' = "none"
  /\ typ' = Blank /\ state' = "WAITING_FOR_ORDER" /\ button' = Blank
  /\ Carry("gripper", "lost")
  /\ UNCHANGED cont

Next ==
  \/ Restart
  \/ Call("IO", People)      \/ Call("VGR", VGRProgram) \/ Call("NFC", NFCProgram)
  \/ Call("HBW", HBWProgram) \/ Call("MPO", MPOProgram) \/ Call("SLD", SLDProgram)
  \/ Call("DSO", DSOProgram) \/ Call("Order", OrderProgram) \/ Call("Ack", AckProgram)

Spec == Init /\ [][Next]_allVars

\* The PLC scans for ever, and a motion, timer or answer that a station waits
\* for comes in the end.  Nothing is assumed of the people.
Fairness ==
  /\ WF_allVars(Next)
  /\ SF_allVars(Call("VGR", VGRProgram /\ vgr' # vgr))
  /\ SF_allVars(Call("NFC", NFCProgram /\ nfc' # nfc))
  /\ SF_allVars(Call("HBW", HBWProgram /\ hbw' # hbw))
  /\ SF_allVars(Call("MPO", MPOProgram /\ mpo' # mpo))
  /\ SF_allVars(Call("SLD", SLDProgram /\ sld' # sld))

FairSpec == Spec /\ Fairness

-----------------------------------------------------------------------------
\* Every variable keeps its type: step numbers stay within the step chains of
\* the CASE statements, records keep their shape.
TypeOK ==
  /\ bits \subseteq Bit
  /\ vgr \in VgrStep /\ nfc \in NfcStep /\ hbw \in HbwStep
  /\ mpo \in MpoStep /\ sld \in SldStep /\ ord \in OrdStep
  /\ wp \in [Register -> Workpiece]
  /\ rack \in [Slot -> RackEntry]
  /\ act \in Slot \cup {"none"} /\ bay \in Colour \cup {"none"}
  /\ typ \in Colour \cup {Blank} /\ button \in Colour \cup {Blank}
  /\ state \in {"WAITING_FOR_ORDER", "ORDERED", "IN_PROCESS", "SHIPPED"}
  /\ at \in [Piece -> Place]
  /\ cont \in {"rack", "inside", "outside"}
  /\ prg \in Program

\* The warehouse serves one request at a time: PRG_VGR_Ablauf and PRG_Order
\* raise x_HBW_Storage and x_HBW_Outsource from different places and only
\* x_Ready_For_Outsource keeps them apart.
ExclusiveRequests == ~ {"HBW_Storage", "HBW_Outsource"} \subseteq bits

\* From the moment the container has left the rack the warehouse knows where it
\* belongs.
SlotKnown == hbw \in {110, 170, 180, 190, 200, 210, 250} => act \in Slot

\* While a storage is requested no order is in force, none will be taken, and
\* the robot is in the storage or the reject procedure, or about to clear the
\* request in step 0.
StoreStep == {0} \cup {600, 640, 650, 700, 710, 750, 760, 810, 820, 880, 890, 900, 910}
               \cup {1200, 1201, 1210, 1270, 1280}

StorageAlone ==
  "HBW_Storage" \in bits =>
    /\ "HBW_Outsource" \notin bits /\ "Ready_For_Outsource" \notin bits
    /\ vgr \in StoreStep

\* "Container Available start pick up" (step 440) and "container available
\* start drop down" (step 880): from the moment the gripper goes down to the
\* warehouse belt until it reports, a container stands under it.
GripperMeetsContainer ==
  vgr \in {450, 460, 470, 480, 890, 900, 910} => cont = "outside"

\* "MPO ready to discard" (step 520): the robot opens the vacuum valve above
\* the oven only while the station waits in step 100 with its feeder out.
OvenOpen == vgr = 530 => mpo = 100

\* That container holds a workpiece if the gripper comes to fetch one, and has
\* room if it brings one.
ContainerFits ==
  /\ vgr \in {450, 460, 470} => Held("belt") # {}
  /\ vgr \in {890, 900} => Held("belt") = {}

\* What the robot meets when it hands a part over is what its step number
\* says, although only the other station's bits tell it so.
HandoversMeet == GripperMeetsContainer /\ OvenOpen /\ ContainerFits

\* The slot the warehouse has in work, whose record is in flux.
InWork(s) == act = s /\ hbw \in {100, 110, 170, 180, 190, 200, 210, 250}

\* The rack records of PRG_HBW_Ablauf tell what is in the rack.
RackTellsTruth ==
  \A s \in Slot : ~InWork(s) =>
    /\ \A p \in Piece : at[p] = s <=> rack[s].id = p
    /\ rack[s].id # Blank
    /\ rack[s].id \in Piece => rack[s].type = ColourOf[rack[s].id]

\* Whichever parts are rejected, and whenever the rack is cleared or the power
\* fails, no workpiece is recorded in two slots of the rack, and none under a
\* colour that is not its own.  A reset of the robot alone (VgrInit) would break
\* it: PRG_NFC may then still wait in step 50 with the part before.
RecordsUnique ==
  \A s, t \in Slot : rack[s].id \in Piece =>
    /\ rack[s].type = ColourOf[rack[s].id]
    /\ rack[t].id = rack[s].id => s = t

\* What the programs are about to do with a workpiece: the errand of the
\* gripper is in its step number, that of the warehouse in its request bits.
Errand(p) ==
  CASE at[p] = "gripper" -> IF vgr >= 1200 THEN "reject" ELSE IF vgr >= 600 THEN "rack" ELSE "DSO"
    [] at[p] = "belt" -> IF bits \cap {"HBW_Storage", "lx_Storage"} = {} THEN "DSO" ELSE "rack"
    [] at[p] = "reject" -> "reject"
    [] at[p] \in {"outside", "DSI"} \cup Slot -> "rack"
    [] OTHER -> "DSO"

\* The programs together move the workpieces in single file along the flow.
Flow == INSTANCE WorkpieceFlow WITH
          Part <- Piece, Shelf <- Slot, Tray <- Colour, where <- at,
          goal <- [p \in Piece |-> Errand(p)]
SingleFile == Flow!FlowSpec

\* The workpiece records travel with the workpieces: the station that holds a
\* part also holds the part's record.
RecordTravels ==
  \A p \in Piece :
    /\ at[p] = "oven" /\ mpo \in {105, 110, 280} => wp["MPO"] = [id |-> p, type |-> ColourOf[p]]
    /\ at[p] \in Colour => wp["SLD"].id = p
    /\ at[p] = "DSO" => wp["SSC"].id = p
    /\ at[p] = "gripper" /\ vgr \in {500, 510, 520, 160, 230, 240, 270} => wp["VGR"].id = p

\* A part lifted off the warehouse belt for an order has the ordered colour.
OrderedColour ==
  vgr = 480 => \A p \in Held("gripper") : ColourOf[p] = typ

\* All records are true, those of the rack and those that travel, and an order
\* gets a part of its colour.
RecordsTruthful == RackTellsTruth /\ RecordTravels /\ OrderedColour

\* Step 60 "Evaluate the workpiece first stored in the high-bay warehouse with
\* the appropriate color": of the ordered colour none is older.
OldestFirst ==
  [][hbw = 100 /\ hbw' = 110 /\ "HBW_Outsource" \in bits =>
       /\ rack[act].type = typ
       /\ \A s \in OfType(typ) : rack[act].ts <= rack[s].ts]_allVars

\* The robot withdraws x_HBW_PickedUp and x_HBW_Discards only after the
\* warehouse has taken notice.
ReportsNoticed ==
  [][(vgr = 500 /\ vgr' = 510) \/ (vgr = 910 /\ vgr' = 920) => (hbw = 190)]_allVars

\* An order ends only after its part has been shipped: the dashboard does not
\* invite a new order while one is in work.
OrderEndsShipped ==
  [][state # "WAITING_FOR_ORDER" /\ state' = "WAITING_FOR_ORDER" => state = "SHIPPED"]_allVars

\* An order that PRG_Order has passed on stays in force until its part has
\* been picked up.
OrderKept ==
  [][("HBW_Outsource" \in bits /\ "HBW_Outsource" \notin bits') => (vgr = 485)]_allVars

\* Between the two an order is neither lost nor ended before its time.
OrdersKept == OrderKept /\ OrderEndsShipped

\* Every order that the dashboard shows as ORDERED is shipped, unless a motion
\* of the warehouse fails.
OrderShipped == state = "ORDERED" ~> (state = "SHIPPED" \/ "HBW_Error" \in bits)
=============================================================================
