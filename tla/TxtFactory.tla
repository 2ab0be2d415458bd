----------------------------- MODULE TxtFactory -----------------------------
(***************************************************************************)
(* The four TXT controllers of the factory, the messages between them, the *)
(* dashboard and the people who bring and take workpieces.                 *)
(***************************************************************************)
EXTENDS TxtStations

CONSTANTS Stored,    \* the workpieces that start in the rack, by slot
          NewParts,  \* the workpieces that people may bring
          Requests   \* what the dashboard asks for: colours, "pickup", "store", modes

ASSUME TxtConstants ==
  /\ NSlots \in Nat /\ MaxRequests \in Nat /\ MaxFaults \in Nat
  /\ ColourOf \in [Parts -> Colours]
  /\ Stored \in [Slots -> Parts \cup {NoUid}]
  /\ \A s, t \in Slots : Stored[s] = Stored[t] /\ Stored[s] # NoUid => s = t

txtVars == <<storage, plant, hbwVars, vgrVars, stationVars>>

Raw(p) == Wp(p, ColourOf[p], "RAW")
InRack(p) == \E s \in Slots : Stored[s] = p
Occupied == {s \in Slots : Stored[s] # NoUid}
FillingOrders == {q \in [1 .. Cardinality(Occupied) -> Occupied] :
                    \A s \in Occupied : \E i \in DOMAIN q : q[i] = s}
TxtInit ==
  /\ wp = [s \in Slots |-> IF Stored[s] = NoUid THEN Null ELSE Raw(Stored[s])]
  /\ filled \in FillingOrders
  /\ nextFetchPos = NoSlot /\ file = [wp |-> wp, filled |-> filled, torn |-> FALSE]
  /\ cell = Stored /\ tray = NoSlot
  /\ at = [p \in Parts |-> IF InRack(p) THEN "rack" ELSE "outside"]
  /\ tag = [p \in Parts |-> IF InRack(p) THEN [type |-> ColourOf[p], state |-> "RAW"]
                            ELSE [type |-> "NONE", state |-> "NONE"]]
  /\ mail = [c \in Clients |-> <<>>] /\ quit = [c \in Clients |-> "none"]
  /\ hbw = "INIT" /\ hbwQ = <<>> /\ hbwReq = NoFlow /\ hbwFlag = {}
  /\ vgr = "INIT" /\ raised = {} /\ faults = 0 /\ asked = <<>>
  /\ flow = [order |-> NoOrder, pickup |-> NoPickup, store |-> NoStore,
             hbw |-> EmptyWp, seen |-> "NONE"]
  /\ wait = [orders |-> <<>>, pickups |-> <<>>, stores |-> <<>>, sorted |-> <<>>]
  /\ mode = [now |-> "NORMAL", wanted |-> "UNDEFINED"]
  /\ hist = [p \in Parts |-> IF InRack(p) THEN {"DELIVERY_RAW", "INSPECTION", "WAREHOUSING"} ELSE {}]
  /\ board = [o \in 1 .. MaxRequests |-> "WAITING_FOR_ORDER"]
  /\ mpo = "INIT" /\ mpoQ = <<>> /\ mpoReq = NoFlow
  /\ sld = "INIT" /\ sldQ = <<>> /\ sldReq = NoFlow /\ seen = "NONE"

-----------------------------------------------------------------------------
(* The people and their dashboard.                                         *)

Controllers == <<storage, hbwVars, vgrVars, stationVars>>
Asks(m) ==
  /\ Publish(m)
  /\ UNCHANGED <<Controllers, quit, cell, tray, at, tag>>
Customer ==
  /\ MoreRequests
  /\ \/ \E c \in Requests \cap Colours : Asks(OrderMsg(c))
     \/ "pickup" \in Requests /\ \E p \in Parts : Asks(PickupMsg(p))
     \/ "store" \in Requests /\ Asks(StoreMsg)
     \/ \E wm \in Requests \cap Modes : Asks(ModeMsg(wm))
Moves(from, to) ==
  /\ \E p \in Held(from) \cap (NewParts \cup {q \in Parts : from # "outside"}) :
       at' = [at EXCEPT ![p] = to]
  /\ UNCHANGED <<Controllers, mail, quit, cell, tray, tag>>
Brings == is_DIN /\ Moves("outside", "dsi")
Takes == Moves("dso", "gone")
Faulty == {c \in Clients : CASE c = "VGR" -> vgr = "FAULT" [] c = "HBW" -> hbw = "FAULT"
                             [] c = "MPO" -> mpo = "FAULT" [] OTHER -> sld = "FAULT"}
NoPress == \A c \in Clients : \A i \in DOMAIN mail[c] : mail[c][i].topic # "ack"
\* The button is pressed while a controller waits for it; the press counts
\* for the others, too, whatever they do.
Acknowledges ==
  /\ NoPress /\ \E c \in Faulty : ~Resumes(c)
  /\ Asks(QuitMsg)

-----------------------------------------------------------------------------
HbwRuns == (HbwStep \/ HbwReceive) /\ UNCHANGED <<vgrVars, stationVars>>
VgrRuns == (VgrStep \/ VgrReceive) /\ UNCHANGED stationVars
MpoRuns == MpoStep \/ MpoReceive
SldRuns == SldStep \/ SldReceive
People == Customer \/ Brings \/ Takes \/ Acknowledges
TxtNext == HbwRuns \/ VgrRuns \/ MpoRuns \/ SldRuns \/ People

\* Each controller runs on, whether in its loop or in its receiving thread;
\* people empty the pickup station and acknowledge a fault sooner or later.
TxtSpec ==
  /\ TxtInit /\ [][TxtNext]_txtVars
  /\ WF_txtVars(HbwRuns) /\ WF_txtVars(VgrRuns) /\ WF_txtVars(MpoRuns) /\ WF_txtVars(SldRuns)
  /\ WF_txtVars(Takes) /\ WF_txtVars(Acknowledges)

-----------------------------------------------------------------------------
TxtTypeOK == StorageTypeOK /\ PlantTypeOK /\ HbwTypeOK /\ VgrTypeOK /\ StationsTypeOK

\* The robot reaches for a workpiece only where the one announced stands, and
\* puts one down only into an empty container.
HandoverMeets ==
  "hbwFetched" \in raised =>
    CASE vgr \in {"VGR_WAIT_FETCHED", "VGR_WAIT_FETCHED_PICKUP"} ->
           tray \in Slots /\ flow.hbw.uid # NoUid /\ cell[tray] = flow.hbw.uid
      [] vgr = "STORE_WP" ->
           tray \in Slots /\ cell[tray] = NoUid /\ Held("gripper") = {flow.hbw.uid}
      [] OTHER -> FALSE

\* What the rack has on record is in its containers.
RackTrue == \A s \in Slots : wp[s] # Null => cell[s] = wp[s].uid

\* As long as no reading, tag or transport has failed: the workpiece about to be
\* shipped has the colour of the order it is shipped for, and its tag says
\* processed.  A fault message may put another order in place of that one.
NothingFailed == faults = 0
AboutToShip == vgr = "MOVE_PICKUP_WAIT"
ShippedAsOrdered ==
  NothingFailed /\ AboutToShip => \A p \in Held("gripper") :
    /\ flow.order.uid \in DOMAIN asked /\ ColourOf[p] = asked[flow.order.uid]
    /\ tag[p] = [type |-> ColourOf[p], state |-> "PROCESSED"]

\* ... and its history names every stage but the milling, which no controller
\* stamps.
HistoryComplete ==
  NothingFailed /\ AboutToShip => \A p \in Held("gripper") : hist[p] = HistoryIndex \ {"PROCESSING_MILLING"}

\* ... and each sorted request that waits at the robot has a workpiece of its
\* own, in the bay that it names: otherwise the robot would grip nothing.
SortedLiesInBay ==
  NothingFailed => \A i, j \in DOMAIN wait.sorted :
    /\ wait.sorted[i].wp.uid \in Held(Bay(wait.sorted[i].wp.type))
    /\ wait.sorted[i].wp.uid = wait.sorted[j].wp.uid => i = j

\* What the dashboard shows of the orders follows their life.
OrdersAdvance == INSTANCE OrderLife WITH Orders <- 1 .. MaxRequests
LifeKept == OrdersAdvance!Life

\* Every order ends: shipped, or refused by a rack without its colour.
OrdersServed == \A o \in 1 .. MaxRequests :
  (Len(asked) >= o /\ asked[o] \in Colours) ~> board[o] \in {"SHIPPED", "ORDER_FAULT"}

\* Every workpiece brought to the input is taken in.
DeliveriesEnd == \A p \in NewParts : at[p] = "dsi" ~> at[p] \notin {"dsi", "gripper"}

\* The robot leaves every fault.
FaultsEnd == vgr = "FAULT" ~> vgr = "IDLE"

\* The dashboard's text for PROCESS_FAULT: "PROCESSING FAULT, ORDER IS
\* RESCHEDULED".
FaultRescheduled == \A o \in 1 .. MaxRequests :
  board[o] = "PROCESS_FAULT" /\ vgr = "IDLE" =>
    flow.order.uid = o \/ \E i \in DOMAIN wait.orders : wait.orders[i].uid = o
=============================================================================
