------------------------------ MODULE TxtTypes ------------------------------
(***************************************************************************)
(* What the TXT controllers of the factory tell each other: workpieces,    *)
(* workflow states and the messages of TxtMqttFactoryClient.  A message    *)
(* keeps its topic, its code and the workflow it carries; time stamps and  *)
(* the JSON text are left out.  Nothing but a fault message of the rack    *)
(* drops a field: it has no workflow id.                                   *)
(***************************************************************************)
EXTENDS Naturals, Sequences

CONSTANTS Parts,    \* the tagged workpieces
          NoUid     \* the empty tag uid

ASSUME NoUidAssumption == NoUid \notin Parts

Colours == {"WHITE", "RED", "BLUE"}

\* TxtWorkpiece.  Its default constructor says RAW and no colour.
Workpiece == [uid : Parts \cup {NoUid}, type : Colours \cup {"NONE"},
              state : {"NONE", "RAW", "PROCESSED", "REJECTED"}]
Wp(uid, type, state) == [uid |-> uid, type |-> type, state |-> state]
EmptyWp == Wp(NoUid, "NONE", "RAW")

\* TxtWorkflowState, and its three children with a state of their own.  The
\* uid 0 stands for the empty string; a new request gets a fresh number for
\* the time stamp in its uid.
Workflow(uid, wp) == [uid |-> uid, wp |-> wp]
Flow(s) == Workflow(s.uid, s.wp)
With(s, wp) == [uid |-> s.uid, wp |-> wp, state |-> s.state]
OrderState(uid, wp, state) == [uid |-> uid, wp |-> wp, state |-> state]
NoOrder == OrderState(0, EmptyWp, "WAITING_FOR_ORDER")
NoPickup == OrderState(0, EmptyWp, "WAITING_FOR_PICKUP")
NoStore == OrderState(0, EmptyWp, "WAITING_FOR_STORE")
OrderStates ==
  {"WAITING_FOR_ORDER", "ORDER_ACKNOWLEDGED", "FETCHING_FROM_STORAGE",
   "FETCHED_FROM_STORAGE", "TRANSPORT_TO_PROCESS_STATION", "IN_PROCESS",
   "ORDER_PROCESSED", "PROCESS_FAULT", "WAITING_FOR_QA",
   "TRANSPORT_WP_TO_DSO", "SHIPPED", "QA_FAULT", "ORDER_FAULT"}
PickupStates ==
  {"WAITING_FOR_PICKUP", "DSO_BLOCKED", "PICKUP_ACKNOWLEDGED", "FETCHING_WP",
   "MOVE_WP_TO_DSO", "WORKPIECE_READY", "PICKUP_FAULT"}
StoreStates ==
  {"WAITING_FOR_STORE", "BAD_WORKPIECE", "STORE_ACKNOWLEDGED", "DSO_EMPTY",
   "IDENTIFICATION", "STORING", "STORE_DONE", "STORE_FAULT"}

\* The messages: one constructor for each publisher that a controller listens
\* to.  An acknowledgement without a request carries the empty workflow.
Msg(topic, code, flow) == [topic |-> topic, code |-> code, flow |-> flow]
NoFlow == Workflow(0, EmptyWp)
VgrDo(code, flow) == Msg("vgr/do", code, flow)
MpoAck(code, flow) == Msg("mpo/ack", code, flow)
SldAck(code, flow) == Msg("sld/ack", code, flow)
MpoFaultMsg(code, flow) == Msg("mpo/fault", code, flow)
SldFaultMsg(code, flow) == Msg("sld/fault", code, flow)
\* publishHBW_Ack and publishHBW_Fault pass no workflow but the workpiece, a
\* fault only when it is complete.
HbwAck(code, wp) == Msg("hbw/ack", code, Workflow(0, wp))
Complete(wp) == wp.uid # NoUid /\ wp.state # "NONE" /\ wp.type # "NONE"
HbwFaultMsg(code, wp) ==
  Msg("hbw/fault", code, Workflow(0, IF Complete(wp) THEN wp ELSE EmptyWp))
\* publishVGR_Order: the robot orders a part itself, as the dashboard does.
OrderMsg(type) == Msg("order", type, NoFlow)
\* The requests of the dashboard, which no code of the repository sends.
PickupMsg(uid) == Msg("pickup", "none", Workflow(0, Wp(uid, "NONE", "NONE")))
StoreMsg == Msg("store", "none", NoFlow)
ModeMsg(mode) == Msg("wm", mode, NoFlow)
QuitMsg == Msg("ack", "none", NoFlow)

\* start_consume: the topics each client subscribes to.
Clients == {"VGR", "HBW", "MPO", "SLD"}
Topics(client) ==
  CASE client = "VGR" -> {"ack", "order", "pickup", "store", "wm", "mpo/ack",
                          "mpo/fault", "hbw/ack", "hbw/fault", "sld/ack", "sld/fault"}
    [] client = "HBW" -> {"ack", "vgr/do"}
    [] client = "MPO" -> {"ack", "vgr/do"}
    [] client = "SLD" -> {"ack", "mpo/ack", "vgr/do"}
\* The codes a subscriber's program acts on; it drops the others.
Heeds(client, m) ==
  /\ m.topic \in Topics(client)
  /\ m.topic = "vgr/do" =>
       m.code \in CASE client = "HBW" -> {"FETCHCONTAINER", "STORE_WP", "FETCH_WP",
                                          "STORECONTAINER", "RESETSTORAGE"}
                    [] client = "MPO" -> {"PRODUCE"}
                    [] OTHER -> {}
  /\ m.topic = "mpo/ack" =>
       m.code = CASE client = "VGR" -> "STARTED" [] OTHER -> "PRODUCED"
  /\ m.topic = "sld/ack" => m.code = "SORTED"
=============================================================================
