------------------------------- MODULE TxtRack -------------------------------
(***************************************************************************)
(* The rack controller with its storage file, a robot that brings and      *)
(* takes workpieces, and controllers that end and are started again at any *)
(* moment.  It asks what a restart finds in the file.                      *)
(***************************************************************************)
EXTENDS TxtWarehouse, FiniteSets

CONSTANTS Stored,      \* the workpieces that start in the rack, by slot
          ColourOf,    \* colour of each workpiece
          MaxCrashes,  \* bound on the restarts
          MaxQuits     \* bound on the presses of the acknowledge button

ASSUME RackConstants ==
  /\ NSlots \in Nat /\ ColourOf \in [Parts -> Colours]
  /\ Stored \in [Slots -> Parts \cup {NoUid}]
  /\ \A s, t \in Slots : Stored[s] = Stored[t] /\ Stored[s] # NoUid => s = t

VARIABLES robot,     \* what the robot waits for
          crashes,   \* restarts so far
          quits,     \* presses so far
          wiped      \* whether a torn file or a reset ever lost the records
rackVars == <<storage, plant, hbwVars, robot, crashes, quits, wiped>>

Raw(p) == Wp(p, ColourOf[p], "RAW")
RackInit ==
  /\ wp = [s \in Slots |-> IF Stored[s] = NoUid THEN Null ELSE Raw(Stored[s])]
  /\ filled = SelectSeq([s \in Slots |-> s], LAMBDA s : Stored[s] # NoUid)
  /\ nextFetchPos = NoSlot
  /\ file = [wp |-> wp, filled |-> filled, torn |-> FALSE]
  /\ cell = Stored /\ tray = NoSlot
  /\ at = [p \in Parts |-> IF \E s \in Slots : Stored[s] = p THEN "rack" ELSE "outside"]
  /\ tag = [p \in Parts |-> [type |-> ColourOf[p], state |-> "RAW"]]
  /\ mail = [c \in Clients |-> <<>>] /\ quit = [c \in Clients |-> "none"]
  /\ hbw = "INIT" /\ hbwQ = <<>> /\ hbwReq = NoFlow /\ hbwFlag = {}
  /\ robot = "idle" /\ crashes = 0 /\ quits = 0 /\ wiped = FALSE

\* The robot: asks, waits for the answer, moves the workpiece, tells the rack.
Asks(m, wait) ==
  /\ robot = "idle" /\ Publish(m) /\ robot' = wait
  /\ UNCHANGED <<quit, cell, at>>
\* The button of the dashboard counts for the robot, too.
Noticed ==
  /\ \E m \in Arrived("VGR") : m.topic = "ack"
  /\ Received("VGR") /\ requestQuit("VGR")
  /\ UNCHANGED <<robot, cell, at>>
Answered(code) == \E m \in Arrived("VGR") : m.code = code
PutsWorkpiece ==
  /\ robot = "storing" /\ Answered("FETCHED") /\ tray \in Slots
  /\ \E p \in Held("gripper") :
       /\ cell[tray] = NoUid
       /\ cell' = [cell EXCEPT ![tray] = p] /\ at' = [at EXCEPT ![p] = "rack"]
  /\ mail' = Post([mail EXCEPT !["VGR"] = Tail(@)], VgrDo("STORE_WP", NoFlow))
  /\ robot' = "idle" /\ UNCHANGED quit
TakesWorkpiece ==
  /\ robot = "fetching" /\ Answered("FETCHED") /\ tray \in Slots
  /\ cell[tray] # NoUid
  /\ cell' = [cell EXCEPT ![tray] = NoUid] /\ at' = [at EXCEPT ![cell[tray]] = "outside"]
  /\ mail' = Post([mail EXCEPT !["VGR"] = Tail(@)], VgrDo("STORECONTAINER", NoFlow))
  /\ robot' = "idle" /\ UNCHANGED quit
Refused ==
  /\ \E m \in Arrived("VGR") : m.topic = "hbw/fault"
  /\ Received("VGR") /\ robot' = "idle"
  /\ at' = [p \in Parts |-> IF at[p] = "gripper" THEN "outside" ELSE at[p]]
  /\ UNCHANGED <<cell, quit>>
Brings ==
  \E p \in Held("outside") :
    /\ robot = "idle" /\ robot' = "storing"
    /\ at' = [at EXCEPT ![p] = "gripper"]
    /\ Publish(VgrDo("FETCHCONTAINER", Workflow(0, Raw(p))))
    /\ UNCHANGED <<quit, cell>>
Presses ==
  /\ quits < MaxQuits /\ Publish(QuitMsg)
  /\ UNCHANGED <<robot, quit, cell, at>>
RobotStep ==
  /\ \/ Brings
     \/ \E c \in Colours : Asks(VgrDo("FETCH_WP", Workflow(0, Wp(NoUid, c, "RAW"))), "fetching")
     \/ \E p \in Parts : Asks(VgrDo("FETCH_WP", Workflow(0, Wp(p, "NONE", "NONE"))), "fetching")
     \/ cell = [s \in Slots |-> NoUid] /\ Asks(VgrDo("RESETSTORAGE", NoFlow), "idle")
     \/ PutsWorkpiece \/ TakesWorkpiece \/ Refused \/ Noticed
  /\ Len(mail["HBW"]) < 2
  /\ UNCHANGED <<tray, tag, storage, hbwVars, crashes, quits, wiped>>
Acknowledge ==
  /\ Presses /\ quits' = quits + 1
  /\ UNCHANGED <<tray, tag, storage, hbwVars, crashes, wiped>>

\* One controller that ends ends the others (requestExit).  The operator
\* starts them again, puts the container on the belt back into its slot with
\* what is in it, and takes the workpiece out of the gripper.
Crash ==
  /\ crashes < MaxCrashes /\ crashes' = crashes + 1
  /\ loadStorageState /\ wiped' = (wiped \/ file.torn)
  /\ hbw' = "INIT" /\ hbwQ' = <<>> /\ hbwReq' = NoFlow /\ hbwFlag' = {}
  /\ mail' = [c \in Clients |-> <<>>] /\ quit' = [c \in Clients |-> "none"]
  /\ robot' = "idle" /\ tray' = NoSlot
  /\ at' = [p \in Parts |-> IF at[p] = "gripper" THEN "outside" ELSE at[p]]
  /\ UNCHANGED <<cell, tag, quits>>

Rack ==
  /\ HbwStep \/ HbwReceive
  /\ wiped' = (wiped \/ ("reset" \in hbwFlag /\ "reset" \notin hbwFlag' /\ wp # EmptyShelf))
  /\ UNCHANGED <<robot, crashes, quits>>
RackNext == Rack \/ RobotStep \/ Acknowledge \/ Crash
RackSpec == RackInit /\ [][RackNext]_rackVars
            /\ WF_rackVars(Rack /\ HbwStep) /\ WF_rackVars(Rack /\ HbwReceive)

RackTypeOK == StorageTypeOK /\ PlantTypeOK /\ HbwTypeOK

\* A record never outlives its workpiece: what memory and file say of a slot
\* is true of its container, at every moment and across restarts.  fetch
\* saves before it tells the robot; store records before the crane moves.
RecordsTrue == \A s \in Slots :
  /\ wp[s] # Null => cell[s] = wp[s].uid
  /\ file.wp[s] # Null => cell[s] = file.wp[s].uid

\* The other way round: a restart forgets at most the one workpiece the rack
\* was busy with, unless it cut the writing of the file short.  (A reset that
\* waits behind a delivery forgets that one too: the queue is served first.)
Unrecorded == {s \in Slots : cell[s] # NoUid /\ wp[s] = Null}
InHand == IF hbw \in {"STORE_WP", "BRING_WP", "SAVE_FETCHED", "FETCH_WP_WAIT"} THEN 1 ELSE 0
ForgetsOne == ~wiped => Cardinality(Unrecorded) <= crashes + InHand

\* The storage is used as StorageNext demands.
StorageUsedWell == [][StorageNext]_storage

\* Every request is answered, by a workpiece, a container or a fault, unless
\* the controllers are restarted or the rack waits to be acknowledged.
Told == \E i \in DOMAIN mail["VGR"] : mail["VGR"][i].topic # "ack"
Answers == (robot \in {"storing", "fetching"}) ~>
             (Told \/ robot = "idle" \/ hbw = "FAULT" \/ crashes > 0)
=============================================================================
