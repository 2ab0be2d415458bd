---------------------------- MODULE TxtGripperRun ----------------------------
(***************************************************************************)
(* The states of TxtVacuumGripperRobot::fsmStep.  Calibration is module    *)
(* TxtCalibration's; the command tag that empties the records of the rack  *)
(* is module TxtRack's.                                                    *)
(***************************************************************************)
EXTENDS TxtGripper

\* IDLE, entry: drop whatever the gripper holds, forget the workflows.
EnterIdle ==
  /\ In("ENTER_IDLE") /\ Goto("IDLE") /\ Drops
  /\ flow' = [flow EXCEPT !.order = NoOrder, !.pickup = NoPickup, !.store = NoStore]
  /\ UNCHANGED <<raised, hist, board, faults, cell, tag>> /\ Desk /\ Calm /\ Elsewhere
VgrInit ==
  /\ In("INIT") /\ Goto("ENTER_IDLE")
  /\ UNCHANGED <<flow, raised, hist, board, faults>> /\ Handless /\ Desk /\ Calm /\ Elsewhere
EnterFault ==
  /\ In("ENTER_FAULT") /\ Goto("FAULT") /\ Drops /\ QuitAtFault("VGR")
  /\ UNCHANGED <<mail, flow, raised, hist, board, faults, cell, tag>> /\ Desk /\ Elsewhere
VgrFault ==
  /\ In("FAULT") /\ Resumes("VGR") /\ ClearQuit("VGR")
  /\ Goto("ENTER_IDLE") /\ Turn({}, {"hbwFault"})
  /\ UNCHANGED <<mail, flow, hist, board, faults>> /\ Handless /\ Desk /\ Elsewhere

-----------------------------------------------------------------------------
(* IDLE: the first of these that applies.                                  *)

FaultPending == raised \cap {"sldFault", "mpoFault"} # {}
SortedPending == wait.sorted # <<>>
\* No duty that comes before this one waits.
Above(duty) ==
  /\ ~FaultPending
  /\ duty \in {"delivery", "order", "pickup", "store", "errors"} => ~SortedPending
  /\ duty \in {"order", "pickup", "store", "errors"} => is_DIN
  /\ duty \in {"pickup", "store", "errors"} => wait.orders = <<>>
PickupDue == wait.pickups # <<>> /\ "pickupError" \notin raised
StoreDue == ~PickupDue /\ wait.stores # <<>> /\ "storeError" \notin raised
ErrorsDue == ~PickupDue /\ ~StoreDue

IdleFault ==
  /\ In("IDLE") /\ FaultPending
  /\ ReportOrder(OrderIs("PROCESS_FAULT"))
  /\ Turn({}, {"sldFault", "mpoFault"}) /\ Goto("ENTER_FAULT")
  /\ UNCHANGED <<hist, faults>> /\ Handless /\ Desk /\ Calm /\ Elsewhere
\* The robot drives to the bay of the colour that the request names.
IdleSorted ==
  /\ In("IDLE") /\ Above("sorted") /\ SortedPending
  /\ LET s == Head(wait.sorted) IN
       /\ ReportOrder([s EXCEPT !.state = "ORDER_PROCESSED"])
       /\ IF s.wp.type \in Colours THEN Goto("NFC_PRODUCED") /\ Turn({}, {"sldSorted"})
          ELSE Goto("ENTER_FAULT") /\ UNCHANGED raised
  /\ wait' = [wait EXCEPT !.sorted = Tail(@)]
  /\ UNCHANGED <<hist, faults, mode, asked>> /\ Handless /\ Calm /\ Elsewhere
IdleDelivery ==
  /\ In("IDLE") /\ Above("delivery") /\ ~is_DIN
  /\ Goto("DSI_PICKUP_DELIVERY") /\ Turn({}, {"storeProcessed"})
  /\ UNCHANGED <<flow, hist, board, faults>> /\ Handless /\ Desk /\ Calm /\ Elsewhere
\* The request that has just arrived may be taken before its acknowledgement.
IdleOrder ==
  /\ vgr = "IDLE" /\ raised \cap HeadMarks \subseteq {"reqOrder"}
  /\ Above("order") /\ wait.orders # <<>>
  /\ ReportOrder([Head(wait.orders) EXCEPT !.state = "FETCHING_FROM_STORAGE"])
  /\ wait' = [wait EXCEPT !.orders = Tail(@)]
  /\ Goto("FETCH_WP_VGR_ORDER")
  /\ UNCHANGED <<raised, hist, faults, mode, asked>> /\ Handless /\ Calm /\ Elsewhere
IdlePickup ==
  /\ In("IDLE") /\ Above("pickup") /\ PickupDue
  /\ IF is_DOUT
       THEN /\ wait' = [wait EXCEPT !.pickups = Tail(@)]
            /\ Turn({}, {"storeError"}) /\ Goto("FETCH_WP_VGR_PICKUP")
            /\ SetPickup([Head(wait.pickups) EXCEPT !.state = "PICKUP_ACKNOWLEDGED"])
       ELSE /\ Turn({"pickupError"}, {}) /\ UNCHANGED <<vgr, wait>>
            /\ SetPickup([Head(wait.pickups) EXCEPT !.state = "DSO_BLOCKED"])
  /\ UNCHANGED <<hist, faults, mode, asked>> /\ Handless /\ Calm /\ Elsewhere
IdleStore ==
  /\ In("IDLE") /\ Above("store") /\ StoreDue
  /\ IF is_DOUT
       THEN /\ Turn({"storeError"}, {}) /\ UNCHANGED <<vgr, wait>>
            /\ SetStore([Head(wait.stores) EXCEPT !.state = "DSO_EMPTY"])
       ELSE /\ wait' = [wait EXCEPT !.stores = Tail(@)]
            /\ Turn({}, {"pickupError"}) /\ Goto("STORE_FROM_DSO")
            /\ SetStore([Head(wait.stores) EXCEPT !.state = "STORE_ACKNOWLEDGED"])
  /\ UNCHANGED <<hist, faults, mode, asked>> /\ Handless /\ Calm /\ Elsewhere
\* A press of the acknowledge button, also an old one, lets both be tried
\* again; without it two errors end in FAULT.
IdleErrors ==
  /\ In("IDLE") /\ Above("errors") /\ ErrorsDue
  /\ raised \cap {"storeError", "pickupError"} # {}
  /\ \/ quit["VGR"] # "none" /\ ClearQuit("VGR") /\ UNCHANGED vgr
     \/ quit["VGR"] = "none" /\ {"storeError", "pickupError"} \subseteq raised
        /\ Goto("ENTER_FAULT") /\ UNCHANGED quit
  /\ Turn({}, {"storeError", "pickupError"})
  /\ UNCHANGED <<mail, flow, hist, board, faults>> /\ Handless /\ Desk /\ Elsewhere

-----------------------------------------------------------------------------
(* An order: rack, processing station, sorting line, pickup station.       *)

FetchWpVgrOrder ==
  /\ In("FETCH_WP_VGR_ORDER") /\ Goto("VGR_WAIT_FETCHED")
  /\ Publish(VgrDo("FETCH_WP", Flow(flow.order)))
  /\ UNCHANGED <<quit, flow, raised, hist, board, faults>> /\ Handless /\ Desk /\ Elsewhere
\* A fault and an answer at once: the answer, tested last, decides.
VgrWaitFetched ==
  /\ In("VGR_WAIT_FETCHED")
  /\ \/ /\ "hbwFetched" \in raised
        /\ ReportOrder(OrderState(flow.order.uid, flow.hbw, "FETCHED_FROM_STORAGE"))
        /\ TakeFromTray /\ Stamp(flow.hbw.uid, {"OUTSOURCING"})
        /\ Publish(VgrDo("STORECONTAINER", Workflow(flow.order.uid, flow.hbw)))
        /\ Goto("MOVE_VGR2MPO")
     \/ /\ "hbwFetched" \notin raised /\ "hbwFault" \in raised
        /\ ReportOrder(OrderIs("ORDER_FAULT")) /\ Goto("ENTER_FAULT")
        /\ UNCHANGED <<mail, hist, cell, at>>
  /\ Turn({}, {"hbwFetched", "hbwFault"})
  /\ UNCHANGED <<quit, tag, faults>> /\ Desk /\ Elsewhere
MoveVgr2Mpo ==
  /\ In("MOVE_VGR2MPO") /\ Goto("RELEASE_MPO")
  /\ ReportOrder(OrderIs("TRANSPORT_TO_PROCESS_STATION"))
  /\ Publish(VgrDo("PRODUCE", Flow(flow.order)))
  /\ Stamp(flow.order.wp.uid, {"PROCESSING_OVEN"})
  /\ UNCHANGED <<quit, raised, faults>> /\ Handless /\ Desk /\ Elsewhere
\* The oven feeder is free again long before the next workpiece arrives.
ReleaseMpo ==
  /\ In("RELEASE_MPO") /\ Held("oven") = {} /\ Move("gripper", "oven")
  /\ Goto("START_PRODUCE")
  /\ UNCHANGED <<flow, raised, hist, board, faults, cell, tag>> /\ Desk /\ Calm /\ Elsewhere
\* The fault is not withdrawn here: IDLE will report it a second time.
StartProduce ==
  /\ In("START_PRODUCE")
  /\ \/ "mpoFault" \in raised /\ ReportOrder(OrderIs("PROCESS_FAULT"))
        /\ Goto("ENTER_FAULT") /\ UNCHANGED raised
     \/ "mpoFault" \notin raised /\ "mpoStarted" \in raised
        /\ ReportOrder(OrderIs("IN_PROCESS"))
        /\ Goto("ENTER_IDLE") /\ Turn({}, {"mpoStarted"})
  /\ UNCHANGED <<hist, faults>> /\ Handless /\ Desk /\ Calm /\ Elsewhere
\* NFC_PRODUCED: take the workpiece from the bay, write its history.  The bay
\* gives the workpieces in the order in which they came, as the requests do.
Bay(type) == IF type = "WHITE" THEN "bay_WHITE" ELSE IF type = "RED" THEN "bay_RED" ELSE "bay_BLUE"
NfcProduced ==
  LET ordered == flow.order.wp.uid
      bay == Held(Bay(flow.order.wp.type))
      p == IF ordered \in bay THEN ordered ELSE CHOOSE q \in bay : TRUE
      sorted == IF ordered \in Parts THEN [hist EXCEPT ![ordered] = @ \cup {"SORTING"}] ELSE hist
  IN /\ In("NFC_PRODUCED")
     /\ IF bay = {} THEN UNCHANGED at ELSE at' = [at EXCEPT ![p] = "gripper"]
     /\ \/ /\ IF bay = {} THEN UNCHANGED faults ELSE Misread   \* no tag read
           /\ ReportOrder(OrderIs("WAITING_FOR_QA")) /\ hist' = sorted
           /\ Goto("ENTER_FAULT") /\ UNCHANGED tag
        \/ /\ bay # {} /\ Misread       \* the tag cannot be written
           /\ ReportOrder([flow.order EXCEPT !.state = "QA_FAULT", !.wp.uid = p])
           /\ hist' = [sorted EXCEPT ![p] = @ \cup {"SHIPPING"}]
           /\ Goto("ENTER_FAULT") /\ UNCHANGED tag
        \/ /\ bay # {} /\ UNCHANGED faults
           /\ ReportOrder([flow.order EXCEPT !.state = "WAITING_FOR_QA", !.wp.uid = p])
           /\ hist' = [sorted EXCEPT ![p] = @ \cup {"SHIPPING"}]
           /\ tag' = [tag EXCEPT ![p] = [type |-> flow.order.wp.type, state |-> "PROCESSED"]]
           /\ Goto("MOVE_PICKUP_WAIT")
     /\ UNCHANGED <<raised, cell>> /\ Desk /\ Calm /\ Elsewhere
MovePickupWait ==
  /\ In("MOVE_PICKUP_WAIT") /\ is_DOUT
  /\ ReportOrder(OrderIs("TRANSPORT_WP_TO_DSO"))
  /\ Move("gripper", "dso") /\ Goto("MOVE_PICKUP")
  /\ UNCHANGED <<raised, hist, faults, cell, tag>> /\ Desk /\ Calm /\ Elsewhere
MovePickup ==
  /\ In("MOVE_PICKUP") /\ ReportOrder(OrderIs("SHIPPED"))
  /\ Goto(IF mode.now = "NORMAL" THEN "ENTER_IDLE" ELSE "PICKUP2DELIVERY")
  /\ UNCHANGED <<raised, hist, faults>> /\ Handless /\ Desk /\ Calm /\ Elsewhere

-----------------------------------------------------------------------------
(* A delivery: from the input, or from the pickup station, to the rack.    *)

DsiPickupDelivery ==
  /\ In("DSI_PICKUP_DELIVERY") /\ Move("dsi", "gripper")
  /\ Goto("START_DELIVERY") /\ Turn({}, {"storeProcessed"})
  /\ UNCHANGED <<flow, hist, board, faults, cell, tag>> /\ Desk /\ Calm /\ Elsewhere
\* Waits for ever when nothing lies at the pickup station.
Pickup2Delivery ==
  /\ In("PICKUP2DELIVERY") /\ ~is_DOUT /\ Move("dso", "gripper")
  /\ Goto("START_DELIVERY")
  /\ IF mode.now = "STORE_AFTER_PRODUCE" THEN Turn({"storeProcessed"}, {})
     ELSE Turn({}, {"storeProcessed"})
  /\ UNCHANGED <<flow, hist, board, faults, cell, tag>> /\ Desk /\ Calm /\ Elsewhere
StoreFromDso ==
  /\ In("STORE_FROM_DSO")
  /\ IF is_DOUT
       THEN SetStore(StoreIs("DSO_EMPTY")) /\ Goto("ENTER_IDLE") /\ UNCHANGED <<raised, at>>
       ELSE /\ Move("dso", "gripper") /\ Goto("START_DELIVERY")
            /\ Turn({"storeProcessed"}, {}) /\ UNCHANGED <<flow, board>>
  /\ UNCHANGED <<hist, faults, cell, tag>> /\ Desk /\ Calm /\ Elsewhere
\* Reads the tag; a processed workpiece keeps what the tag says, any other one
\* begins a new history.
StartDelivery ==
  LET p == ReadUID
      read == Wp(p, tag[p].type, tag[p].state)
  IN /\ In("START_DELIVERY")
     /\ \/ /\ IF p = NoUid THEN UNCHANGED faults ELSE Misread
           /\ SetStore([NoStore EXCEPT !.state = "BAD_WORKPIECE"])
           /\ Goto("WRONG_COLOR") /\ Turn({"trashItem"}, {}) /\ UNCHANGED hist
        \/ /\ p # NoUid /\ UNCHANGED faults
           /\ SetStore(With([NoStore EXCEPT !.state = "STORE_ACKNOWLEDGED"], read))
           /\ UNCHANGED raised
           /\ IF "storeProcessed" \in raised /\ read.state # "NONE" /\ read.type # "NONE"
                THEN Goto("STORE_WP_VGR") /\ UNCHANGED hist
                ELSE Goto("COLOR_DETECTION") /\ hist' = [hist EXCEPT ![p] = {"DELIVERY_RAW"}]
     /\ Handless /\ Desk /\ Calm /\ Elsewhere
\* The colour sensor: the colour of the workpiece, or no valid one.
ColorDetection ==
  /\ In("COLOR_DETECTION")
  /\ Stamp(flow.store.wp.uid, {"INSPECTION"})
  /\ \/ /\ UNCHANGED <<faults, board>> /\ Goto("NFC_RAW")
        /\ LET c == ColourOf[flow.store.wp.uid] IN
             flow' = [flow EXCEPT !.store.wp.type = c, !.store.state = "IDENTIFICATION", !.seen = c]
     \/ /\ Misread /\ Goto("NFC_REJECTED") /\ UNCHANGED board
        /\ flow' = [flow EXCEPT !.store.state = "IDENTIFICATION", !.seen = "NONE"]
  /\ UNCHANGED raised /\ Handless /\ Desk /\ Calm /\ Elsewhere
NfcRaw ==
  /\ In("NFC_RAW")
  /\ \/ Misread /\ Goto("WRONG_COLOR") /\ UNCHANGED <<tag, flow, board>>
     \/ Misread /\ Goto("ENTER_FAULT") /\ UNCHANGED tag
        /\ SetStore([flow.store EXCEPT !.wp.state = "RAW"])
     \/ UNCHANGED faults /\ Goto("STORE_WP_VGR") /\ Written(flow.store.wp.type, "RAW")
        /\ SetStore([flow.store EXCEPT !.wp.state = "RAW"])
  /\ UNCHANGED <<raised, hist, cell, at>> /\ Desk /\ Calm /\ Elsewhere
NfcRejected ==
  /\ In("NFC_REJECTED")
  /\ \/ /\ Misread /\ Goto("ENTER_FAULT")                  \* not written
        /\ hist' = [hist EXCEPT ![ReadUID] = {}]
        /\ UNCHANGED <<tag, raised, flow, board>>
     \/ /\ \/ Misread /\ UNCHANGED <<tag, hist>>             \* not read
           \/ UNCHANGED faults /\ Written("NONE", "REJECTED")
              /\ hist' = [hist EXCEPT ![ReadUID] = {}]
        /\ SetStore(StoreIs("BAD_WORKPIECE"))
        /\ Goto("WRONG_COLOR") /\ Turn({"trashItem"}, {})
  /\ UNCHANGED <<cell, at>> /\ Desk /\ Calm /\ Elsewhere
WrongColor ==
  /\ In("WRONG_COLOR")
  /\ IF "trashItem" \notin raised /\ mode.now = "ENDLESS"
       THEN Goto("RECYCLE_TRASH") /\ UNCHANGED <<raised, at>>
       ELSE Move("gripper", "scrap") /\ Turn({}, {"trashItem"}) /\ Goto("ENTER_IDLE")
  /\ UNCHANGED <<flow, hist, board, faults, cell, tag>> /\ Desk /\ Calm /\ Elsewhere
RecycleTrash ==
  /\ In("RECYCLE_TRASH") /\ Goto("START_DELIVERY")
  /\ UNCHANGED <<flow, raised, hist, board, faults>> /\ Handless /\ Desk /\ Calm /\ Elsewhere
\* The container is requested for the workpiece as it is, then the type is
\* set to the colour read last - of this workpiece only if it was inspected.
StoreWpVgr ==
  /\ In("STORE_WP_VGR") /\ Publish(VgrDo("FETCHCONTAINER", Flow(flow.store)))
  /\ IF flow.store.wp.type = "NONE"
       THEN Move("gripper", "scrap") /\ Goto("ENTER_FAULT") /\ SetStore(StoreIs("STORING"))
       ELSE Goto("STORE_WP") /\ UNCHANGED at
            /\ SetStore([StoreIs("STORING") EXCEPT !.wp.type = flow.seen])
  /\ UNCHANGED <<quit, raised, hist, faults, cell, tag>> /\ Desk /\ Elsewhere
StoreWp ==
  /\ In("STORE_WP")
  /\ \/ /\ "hbwFault" \in raised
        /\ SetStore(StoreIs("STORE_FAULT"))
        /\ Goto("ENTER_FAULT") /\ Turn({}, {"hbwFault"})
        /\ UNCHANGED <<mail, hist, cell, at>>
     \/ /\ "hbwFault" \notin raised /\ "hbwFetched" \in raised
        /\ PutOnTray /\ Stamp(flow.hbw.uid, {"WAREHOUSING"})
        /\ SetStore(With([flow.store EXCEPT !.state = "STORE_DONE"], flow.hbw))
        /\ Publish(VgrDo("STORE_WP", Workflow(0, flow.hbw)))
        /\ Turn({}, {"hbwFetched"})
        /\ Goto(IF mode.now = "ENDLESS" /\ flow.hbw.state = "RAW" THEN "ORDER_WP" ELSE "ENTER_IDLE")
  /\ UNCHANGED <<quit, tag, faults>> /\ Desk /\ Elsewhere
OrderWp ==
  /\ In("ORDER_WP") /\ MoreRequests /\ Goto("ENTER_IDLE") /\ Publish(OrderMsg(flow.store.wp.type))
  /\ UNCHANGED <<quit, flow, raised, hist, board, faults>> /\ Handless /\ Desk /\ Elsewhere

-----------------------------------------------------------------------------
(* A pickup: from the rack to the pickup station, as it is.                *)

FetchWpVgrPickup ==
  /\ In("FETCH_WP_VGR_PICKUP") /\ Goto("VGR_WAIT_FETCHED_PICKUP")
  /\ Publish(VgrDo("FETCH_WP", Flow(flow.pickup)))
  /\ SetPickup([flow.pickup EXCEPT !.state = "FETCHING_WP"])
  /\ UNCHANGED <<quit, raised, hist, faults>> /\ Handless /\ Desk /\ Elsewhere
VgrWaitFetchedPickup ==
  /\ In("VGR_WAIT_FETCHED_PICKUP")
  /\ \/ /\ "hbwFetched" \in raised
        /\ SetPickup(With(flow.pickup, flow.hbw)) /\ TakeFromTray
        /\ Publish(VgrDo("STORECONTAINER", Workflow(0, flow.hbw)))
        /\ Goto("HBW2PICKUP")
     \/ /\ "hbwFetched" \notin raised /\ "hbwFault" \in raised
        /\ SetPickup([flow.pickup EXCEPT !.state = "PICKUP_FAULT"])
        /\ Goto("ENTER_FAULT") /\ UNCHANGED <<mail, cell, at>>
  /\ Turn({}, {"hbwFetched", "hbwFault"})
  /\ UNCHANGED <<quit, tag, hist, faults>> /\ Desk /\ Elsewhere
Hbw2Pickup ==
  /\ In("HBW2PICKUP") /\ is_DOUT /\ Move("gripper", "dso")
  /\ SetPickup([flow.pickup EXCEPT !.state = "WORKPIECE_READY"]) /\ Goto("ENTER_IDLE")
  /\ UNCHANGED <<raised, hist, faults, cell, tag>> /\ Desk /\ Calm /\ Elsewhere

VgrStep ==
  \/ VgrHead \/ VgrMode \/ VgrInit \/ EnterIdle \/ EnterFault \/ VgrFault
  \/ IdleFault \/ IdleSorted \/ IdleDelivery \/ IdleOrder \/ IdlePickup \/ IdleStore \/ IdleErrors
  \/ FetchWpVgrOrder \/ VgrWaitFetched \/ MoveVgr2Mpo \/ ReleaseMpo \/ StartProduce
  \/ NfcProduced \/ MovePickupWait \/ MovePickup
  \/ DsiPickupDelivery \/ Pickup2Delivery \/ StoreFromDso \/ StartDelivery
  \/ ColorDetection \/ NfcRaw \/ NfcRejected \/ WrongColor \/ RecycleTrash
  \/ StoreWpVgr \/ StoreWp \/ OrderWp
  \/ FetchWpVgrPickup \/ VgrWaitFetchedPickup \/ Hbw2Pickup
=============================================================================
