-------------------------- MODULE HighBayWarehouse --------------------------
(***************************************************************************)
(* PRG_HBW_Ablauf: the step chain of the high-bay warehouse.  It takes a   *)
(* container out of the rack, offers it on the belt, waits until the       *)
(* gripper robot has put a workpiece in or taken one out, and returns it.  *)
(***************************************************************************)
EXTENDS DataBlocks

CONSTANT HbwMayFail      \* whether a monitored motion may exceed 30 s

\* Every scan ends with the clearing of the rack when the setup asks for it.
CleanRequest == {"Clean_Rack_HBW"}
SetRack(r) ==
  rack' = IF CleanRequest \subseteq bits THEN [s \in Slot |-> FreeEntry] ELSE r
HbwSwitch(on, off) == Switch(on, off \cup CleanRequest)

Stopped == bits \cap {"Set_Pos_Activ", "Start_Park_Position"} # {}
Hbw(step) == ~Stopped /\ hbw = step

HbwInit ==
  /\ Stopped \/ hbw = 0
  /\ hbw' = IF Stopped \/ "HBW_Error" \in bits THEN 0 ELSE 10
  /\ HbwSwitch({}, {}) /\ SetRack(rack)
  /\ UNCHANGED <<wp, act, at, cont>>

\* Cantilever and axes: 10-30 reference runs, 70-90 under the container,
\* 110-160 onto the belt, 210-240 back to the slot.
HbwMotion == {<<10, 40>>, <<70, 100>>, <<110, 170>>, <<200, 210>>, <<210, 250>>}

HbwMove ==
  /\ \E m \in HbwMotion : Hbw(m[1]) /\ hbw' \in {m[1], m[2]}
  /\ HbwSwitch({}, {}) /\ SetRack(rack)
  /\ UNCHANGED <<wp, act, at, cont>>

\* Steps 140, 160, 170 and 200 are monitored: after 30 s the chain stops in
\* step 0 until the error is acknowledged.
HbwTimeout ==
  /\ HbwMayFail
  /\ \E s \in {110, 170, 200} : Hbw(s)
  /\ hbw' = 0
  /\ \E reached \in IF hbw = 170 THEN {{}, {"Container_Available"}} ELSE {{}} :
       /\ HbwSwitch({"HBW_Error"} \cup reached, {})
       /\ cont' = IF reached = {} THEN cont ELSE "outside"
  /\ SetRack(rack)
  /\ UNCHANGED <<wp, act, at>>

HbwDecide ==
  /\ Hbw(40)
  /\ hbw' = IF "HBW_Storage" \in bits THEN 50
            ELSE IF "HBW_Outsource" \in bits THEN 60 ELSE 40
  /\ HbwSwitch({}, {"lx_Storage"}) /\ SetRack(rack)
  /\ UNCHANGED <<wp, act, at, cont>>

-----------------------------------------------------------------------------
\* The two searches.

Index(s) == CHOOSE i \in DOMAIN SlotOrder : SlotOrder[i] = s
FreeSlots == {s \in Slot : rack[s].id = "0"}
FirstOf(S) == CHOOSE s \in S : \A t \in S : Index(s) <= Index(t)

\* Step 50: the first slot whose record is free; none: the step is repeated.
HbwFindFree ==
  /\ Hbw(50)
  /\ IF FreeSlots = {} THEN hbw' = 50 /\ act' = act
     ELSE hbw' = 70 /\ act' = FirstOf(FreeSlots)
  /\ HbwSwitch({}, {}) /\ SetRack(rack)
  /\ UNCHANGED <<wp, at, cont>>

\* Step 60: of the slots with the ordered colour the one stored first; the
\* test for a failed search compares with 4, which act never is, so without a
\* match the slot of the previous job is used again.
OfType(c) == {s \in Slot : rack[s].type = c}
\* A slip in the comparison would find the newest one.
Newest(S) == FirstOf({s \in S : \A t \in S : rack[s].ts >= rack[t].ts})
Oldest(S) == FirstOf({s \in S : \A t \in S : rack[s].ts <= rack[t].ts})

HbwFindOrdered ==
  /\ Hbw(60)
  /\ hbw' = 70
  /\ act' = IF OfType(typ) = {} THEN act ELSE Oldest(OfType(typ))
  /\ HbwSwitch({}, {}) /\ SetRack(rack)
  /\ UNCHANGED <<wp, at, cont>>

-----------------------------------------------------------------------------
\* The record of a slot whose workpiece is outsourced is cleared at once.
Cleared == BlankEntry

\* Step 100: the container leaves the rack and with it the slot's record.  The
\* counters are still 0 only before the first job; the access to Rack_Workpiece
\* then stops the CPU, and the model goes no further.
HbwFetch ==
  /\ Hbw(100)
  /\ \/ hbw' = 100 /\ UNCHANGED <<wp, at, cont>> /\ SetRack(rack)
     \/ /\ hbw' = 110 /\ act \in Slot
        /\ Carry(act, "belt") /\ cont' = "inside"
        /\ \/ /\ "HBW_Storage" \in bits
              /\ SetRack([rack EXCEPT ![act].id = Blank])
              /\ UNCHANGED wp
           \/ /\ "HBW_Storage" \notin bits /\ "HBW_Outsource" \in bits
              /\ wp' = [wp EXCEPT !["HBW"] = [id |-> rack[act].id, type |-> rack[act].type]]
              /\ SetRack([rack EXCEPT ![act] = Cleared])
           \/ /\ bits \cap {"HBW_Storage", "HBW_Outsource"} = {}
              /\ SetRack(rack)
              /\ UNCHANGED wp
  /\ HbwSwitch({}, {})
  /\ UNCHANGED <<act>>

HbwOffer ==
  /\ Hbw(170)
  /\ \/ hbw' = 180 /\ HbwSwitch({"Container_Available"}, {}) /\ cont' = "outside"
     \/ hbw' = 170 /\ HbwSwitch({}, {}) /\ UNCHANGED cont
  /\ SetRack(rack)
  /\ UNCHANGED <<wp, act, at>>

\* Step 180: the gripper robot reports; the workpiece record changes hands.
PickedUp == {"HBW_PickedUp", "HBW_Outsource"} \subseteq bits
Discarded == ~PickedUp /\ {"HBW_Discards", "HBW_Storage"} \subseteq bits

HbwHandOver ==
  /\ Hbw(180)
  /\ \/ /\ PickedUp
        /\ wp' = [wp EXCEPT !["VGR"] = wp["HBW"], !["HBW"] = NoWorkpiece]
        /\ HbwSwitch({"PickedUp_Accepted"}, {"Container_Available"})
        /\ hbw' = 190
     \/ /\ Discarded
        /\ wp' = [wp EXCEPT !["HBW"] = wp["VGR"]]
        /\ HbwSwitch({"Discards_Accepted", "lx_Storage"}, {"Container_Available"})
        /\ hbw' = 190
     \/ /\ ~PickedUp /\ ~Discarded
        /\ HbwSwitch({}, {}) /\ hbw' = 180 /\ UNCHANGED wp
  /\ SetRack(rack)
  /\ UNCHANGED <<act, at, cont>>

\* Step 190: the belt runs back when the robot has withdrawn its report.
\* A slip would be not to wait for that.
NotAwaited == TRUE
Withdrawn == bits \cap {"HBW_Discards", "HBW_PickedUp"} = {}

HbwTakeBack ==
  /\ Hbw(190)
  /\ IF Withdrawn
       THEN hbw' = 200 /\ cont' = "inside"
       ELSE hbw' = 190 /\ UNCHANGED cont
  /\ HbwSwitch({}, {}) /\ SetRack(rack)
  /\ UNCHANGED <<wp, act, at>>

\* Step 250: the container is back in its slot and the slot gets its record,
\* with a time stamp later than those of all the other slots, whose ranks
\* close up.
Others == {s \in Slot \ {act} : rack[s].ts > 0}
Rank(s) == Cardinality({t \in Others : rack[t].ts <= rack[s].ts})
Stamped(record) ==
  [s \in Slot |-> IF s = act THEN [record EXCEPT !.ts = 1 + Cardinality(Others)]
                 ELSE IF s \in Others THEN [rack[s] EXCEPT !.ts = Rank(s)]
                 ELSE rack[s]]

\* The kind of the job is remembered in lx_Storage: the robot has by then
\* withdrawn x_HBW_Storage, and a slip would be to ask for that.
RequestIsStorage == "HBW_Storage" \in bits
JobWasStorage == "lx_Storage" \in bits

HbwReturn ==
  /\ Hbw(250)
  /\ \/ /\ hbw' = 260
        /\ Carry("belt", act) /\ cont' = "rack"
        /\ \/ /\ JobWasStorage
              /\ SetRack(Stamped([id |-> wp["HBW"].id, type |-> wp["HBW"].type,
                                  ts |-> 0]))
           \/ /\ ~JobWasStorage
              /\ SetRack([rack EXCEPT ![act].id = "0"])
     \/ hbw' = 250 /\ SetRack(rack) /\ UNCHANGED <<at, cont>>
  /\ HbwSwitch({}, {})
  /\ UNCHANGED <<wp, act>>

HbwDone ==
  /\ Hbw(260)
  /\ \/ hbw' = 0 /\ HbwSwitch({}, {"lx_Storage"})
     \/ hbw' = 260 /\ HbwSwitch({}, {})
  /\ SetRack(rack)
  /\ UNCHANGED <<wp, act, at, cont>>

\* One call of the program.  The filling of the rack by hand (a button within 60 s
\* of the start writes nine fixed records) is left out: the rack of Init is filled.
HBWProgram ==
  /\ \/ HbwInit \/ HbwMove \/ HbwTimeout \/ HbwDecide \/ HbwFindFree
     \/ HbwFindOrdered \/ HbwFetch \/ HbwOffer \/ HbwHandOver \/ HbwTakeBack
     \/ HbwReturn \/ HbwDone
  /\ UNCHANGED <<vgr, nfc, mpo, sld, ord, bay, typ, state, button>>

HbwStep == {0, 10, 40, 50, 60, 70, 100, 110, 170, 180, 190, 200, 210, 250, 260}
=============================================================================
