----------------------------- MODULE TxtGripper -----------------------------
(***************************************************************************)
(* TxtVacuumGripperRobot: the controller that carries workpieces between   *)
(* the delivery and pickup station (DPS), the rack, the processing station *)
(* and the sorting line, and that keeps the orders.  One action per state  *)
(* of fsmStep; a state whose moves the other stations can notice halfway   *)
(* is cut in two.                                                          *)
(***************************************************************************)
EXTENDS TxtWarehouse, FiniteSets

CONSTANTS ColourOf,     \* the real colour of each workpiece
          MaxRequests,  \* bound on the requests of the dashboard and of the robot
          MaxFaults     \* bound on the readings and transports that fail

VARIABLES vgr,      \* currentState of fsmStep
          flow,     \* order_state, pickup_state, store_state, reqWP_HBW, last colour read
          wait,     \* reqWP_orders, reqWP_pickups, reqWP_stores, reqWP_sorted
          raised,   \* the boolean requests and marks of the controller
          mode,     \* workingMode and workingModeNew
          hist,     \* TxtFactoryProcessStorage: the stamps set for each tag
          board,    \* what the dashboard was last told of each order, by uid
          asked,    \* the requests made so far
          faults    \* readings and transports that failed so far
vgrVars == <<vgr, flow, wait, raised, mode, hist, board, asked, faults>>

Modes == {"NORMAL", "STORE_AFTER_PRODUCE", "ENDLESS"}
HistoryIndex ==
  {"DELIVERY_RAW", "INSPECTION", "WAREHOUSING", "OUTSOURCING", "PROCESSING_OVEN",
   "PROCESSING_MILLING", "SORTING", "SHIPPING"}
HeadMarks == {"reqOrder", "reqPickup", "reqStore", "changeMode"}
Marks == HeadMarks \cup
  {"hbwFetched", "hbwFault", "mpoStarted", "mpoFault", "sldSorted", "sldFault",
   "pickupError", "storeError", "trashItem", "storeProcessed"}
VgrStates ==
  {"INIT", "ENTER_IDLE", "IDLE", "ENTER_FAULT", "FAULT", "FETCH_WP_VGR_ORDER",
   "VGR_WAIT_FETCHED", "FETCH_WP_VGR_PICKUP", "VGR_WAIT_FETCHED_PICKUP",
   "MOVE_VGR2MPO", "RELEASE_MPO", "START_PRODUCE", "DSI_PICKUP_DELIVERY",
   "START_DELIVERY", "COLOR_DETECTION", "NFC_RAW", "NFC_REJECTED", "WRONG_COLOR",
   "RECYCLE_TRASH", "NFC_PRODUCED", "MOVE_PICKUP_WAIT", "MOVE_PICKUP",
   "STORE_WP_VGR", "STORE_WP", "ORDER_WP", "PICKUP2DELIVERY", "HBW2PICKUP",
   "STORE_FROM_DSO"}
VgrTypeOK ==
  /\ vgr \in VgrStates /\ raised \subseteq Marks
  /\ mode \in [now : Modes, wanted : Modes \cup {"UNDEFINED"}]
  /\ hist \in [Parts -> SUBSET HistoryIndex]
  /\ flow.order.state \in OrderStates /\ flow.pickup.state \in PickupStates
  /\ flow.store.state \in StoreStates /\ flow.hbw \in Workpiece
  /\ board \in [1 .. MaxRequests -> OrderStates]
  /\ faults \in 0 .. MaxFaults

Goto(s) == vgr' = s
Turn(up, down) == raised' = (raised \ down) \cup up
\* setTimestampNow; a mark of an unknown tag is of no use to anybody.
\* A slip would be to begin the history anew.
Restamp(uid, stamps) == hist' = IF uid \in Parts THEN [hist EXCEPT ![uid] = stamps] ELSE hist
Stamp(uid, stamps) ==
  hist' = IF uid \in Parts THEN [hist EXCEPT ![uid] = @ \cup stamps] ELSE hist
\* publishStateOrder; the reports on pickups and stores go to a dashboard that
\* is not modelled, so that setting the state stands for them.
Show(uid, state) == IF uid = 0 THEN board ELSE [board EXCEPT ![uid] = state]
\* A slip would be to report the order before it is set.
ReportLast(s) == flow' = [flow EXCEPT !.order = s] /\ board' = Show(flow.order.uid, s.state)
ReportOrder(s) == flow' = [flow EXCEPT !.order = s] /\ board' = Show(s.uid, s.state)
OrderIs(state) == [flow.order EXCEPT !.state = state]
SetPickup(s) == flow' = [flow EXCEPT !.pickup = s] /\ UNCHANGED board
SetStore(s) == flow' = [flow EXCEPT !.store = s] /\ UNCHANGED board
StoreIs(state) == [flow.store EXCEPT !.state = state]

\* Where the robot drops, picks and reads.
Move(from, to) == at' = [p \in Parts |-> IF at[p] = from THEN to ELSE at[p]]
Drops == Move("gripper", "gone")
TakeFromTray ==
  /\ cell' = [cell EXCEPT ![tray] = NoUid]
  /\ at' = [p \in Parts |-> IF p = cell[tray] THEN "gripper" ELSE at[p]]
PutOnTray ==
  /\ cell' = [cell EXCEPT ![tray] = CHOOSE p \in Held("gripper") : TRUE]
  /\ Move("gripper", "rack")
ReadUID == IF Held("gripper") = {} THEN NoUid ELSE CHOOSE p \in Held("gripper") : TRUE
Misread == faults < MaxFaults /\ faults' = faults + 1
Written(type, state) ==
  tag' = [p \in Parts |-> IF p \in Held("gripper") THEN [type |-> type, state |-> state]
                          ELSE tag[p]]
is_DIN == Held("dsi") = {}
is_DOUT == Held("dso") = {}

\* Requests of the dashboard that have not arrived yet.
Underway == Cardinality({i \in DOMAIN mail["VGR"] :
                          mail["VGR"][i].topic \in {"order", "pickup", "store", "wm"}})
MoreRequests == Len(asked) + Underway < MaxRequests

\* What most actions leave alone.
Elsewhere == UNCHANGED <<storage, hbwVars, tray>>
Handless == UNCHANGED <<cell, at, tag>>
Calm == UNCHANGED <<mail, quit>>
Desk == UNCHANGED <<wait, mode, asked>>

-----------------------------------------------------------------------------
(* The request methods, called by the thread that receives the messages.   *)

Asked(r) == Len(asked) < MaxRequests /\ asked' = Append(asked, r)
requestOrder(type) ==
  /\ Asked(type)
  /\ wait' = [wait EXCEPT !.orders = Append(@,
                OrderState(Len(asked) + 1, Wp(NoUid, type, "RAW"), "ORDER_ACKNOWLEDGED"))]
  /\ Turn({"reqOrder"}, {})
requestPickup(uid) ==
  /\ Asked("pickup")
  /\ wait' = [wait EXCEPT !.pickups = Append(@,
                OrderState(0, Wp(uid, "NONE", "NONE"), "PICKUP_ACKNOWLEDGED"))]
  /\ Turn({"reqPickup"}, {})
storeWorkpieceFromDSOIntoHBW ==
  /\ Asked("store")
  /\ wait' = [wait EXCEPT !.stores = Append(@, OrderState(0, EmptyWp, "STORE_ACKNOWLEDGED"))]
  /\ Turn({"reqStore"}, {})
requestWorkingModeChange(wm) ==
  Asked(wm) /\ mode' = [mode EXCEPT !.wanted = wm] /\ Turn({"changeMode"}, {})
requestHBWfetched(w) == flow' = [flow EXCEPT !.hbw = w] /\ Turn({"hbwFetched"}, {})
\* These three drop a request without a workflow uid.  A fault replaces the
\* order at hand, whichever that is.
requestSLDsorted(f) ==
  /\ wait' = [wait EXCEPT !.sorted =
                IF f.uid = 0 THEN @ ELSE Append(@, OrderState(f.uid, f.wp, "WAITING_FOR_ORDER"))]
  /\ Turn(IF f.uid = 0 THEN {} ELSE {"sldSorted"}, {})
requestFault(f, flag) ==
  /\ flow' = IF f.uid = 0 THEN flow
             ELSE [flow EXCEPT !.order = OrderState(f.uid, f.wp, "WAITING_FOR_ORDER")]
  /\ Turn(IF f.uid = 0 THEN {} ELSE {flag}, {})
requestSLDfault(f) == requestFault(f, "sldFault")
requestMPOfault(f) == requestFault(f, "mpoFault")

VgrReceive ==
  \E m \in Arrived("VGR") :
    /\ Received("VGR")
    /\ \/ m.topic = "ack" /\ requestQuit("VGR")
          /\ UNCHANGED <<flow, wait, raised, mode, asked>>
       \/ m.topic = "order" /\ requestOrder(m.code) /\ UNCHANGED <<quit, flow, mode>>
       \/ m.topic = "pickup" /\ requestPickup(m.flow.wp.uid) /\ UNCHANGED <<quit, flow, mode>>
       \/ m.topic = "store" /\ storeWorkpieceFromDSOIntoHBW /\ UNCHANGED <<quit, flow, mode>>
       \/ m.topic = "wm" /\ requestWorkingModeChange(m.code) /\ UNCHANGED <<quit, flow, wait>>
       \/ m.topic = "mpo/ack" /\ Turn({"mpoStarted"}, {}) /\ UNCHANGED <<quit, flow, wait, mode, asked>>
       \/ m.topic = "mpo/fault" /\ requestMPOfault(m.flow) /\ UNCHANGED <<quit, wait, mode, asked>>
       \/ m.topic = "hbw/ack" /\ requestHBWfetched(m.flow.wp) /\ UNCHANGED <<quit, wait, mode, asked>>
       \/ m.topic = "hbw/fault" /\ Turn({"hbwFault"}, {}) /\ UNCHANGED <<quit, flow, wait, mode, asked>>
       \/ m.topic = "sld/ack" /\ requestSLDsorted(m.flow) /\ UNCHANGED <<quit, flow, mode, asked>>
       \/ m.topic = "sld/fault" /\ requestSLDfault(m.flow) /\ UNCHANGED <<quit, wait, mode, asked>>
    /\ UNCHANGED <<vgr, hist, board, faults>> /\ Handless /\ Elsewhere

-----------------------------------------------------------------------------
(* The head of fsmStep, run before the state's own work.                   *)

\* The front of the queue stands for every request that arrived: a second one
\* is acknowledged only if it has become the front by the next request.  The
\* queue is empty when IDLE took the order between request and head; what
\* front() gives then is undefined - the order just taken, or garbage.
VgrHead ==
  /\ raised \cap {"reqOrder", "reqPickup", "reqStore"} # {}
  /\ Turn({}, {"reqOrder", "reqPickup", "reqStore"})
  /\ board' \in IF "reqOrder" \notin raised THEN {board}
                ELSE IF wait.orders # <<>> THEN {Show(Head(wait.orders).uid, "ORDER_ACKNOWLEDGED")}
                ELSE {board, Show(flow.order.uid, "ORDER_ACKNOWLEDGED")}
  /\ UNCHANGED <<vgr, flow, hist, faults>> /\ Desk /\ Calm /\ Handless /\ Elsewhere
NextMode(m) == CASE m = "NORMAL" -> "STORE_AFTER_PRODUCE"
                 [] m = "STORE_AFTER_PRODUCE" -> "ENDLESS"
                 [] OTHER -> "NORMAL"
VgrMode ==
  /\ "changeMode" \in raised /\ Turn({}, {"changeMode"})
  /\ mode' = [now |-> IF mode.wanted # "UNDEFINED" THEN mode.wanted ELSE NextMode(mode.now),
              wanted |-> "UNDEFINED"]
  /\ UNCHANGED <<vgr, flow, hist, faults, board, wait, asked>> /\ Calm /\ Handless /\ Elsewhere
In(s) == vgr = s /\ raised \cap HeadMarks = {}
=============================================================================
