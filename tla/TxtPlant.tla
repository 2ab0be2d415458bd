------------------------------ MODULE TxtPlant ------------------------------
(***************************************************************************)
(* What the TXT controllers share: the broker with one queue of deliveries *)
(* per controller, the acknowledge button of the dashboard, and the plant  *)
(* itself - where the workpieces and the containers really are.            *)
(***************************************************************************)
EXTENDS RackStorage

VARIABLES mail,   \* messages on their way to each controller
          quit,   \* reqQuit of each controller
          cell,   \* the workpiece in the container of each slot, or NoUid
          tray,   \* the slot whose container stands on the conveyor, or NoSlot
          at,     \* the place of each workpiece
          tag     \* colour and state written on each NFC tag
plant == <<mail, quit, cell, tray, at, tag>>

Bays == {"bay_WHITE", "bay_RED", "bay_BLUE"}
Places == {"outside", "dsi", "gripper", "rack", "oven", "mpo", "sensor",
           "sorter", "dso", "scrap", "gone"} \cup Bays
\* Tags of untouched parts carry no colour.
Tags == [type : Colours \cup {"NONE"}, state : {"NONE", "RAW", "PROCESSED", "REJECTED"}]
Held(place) == {p \in Parts : at[p] = place}

\* A publisher returns when the broker has the message; the broker appends it
\* to the queue of every subscriber that heeds it.
Post(box, m) == [c \in Clients |-> IF Heeds(c, m) THEN Append(box[c], m) ELSE box[c]]
Publish(m) == mail' = Post(mail, m)
Arrived(client) == IF mail[client] = <<>> THEN {} ELSE {Head(mail[client])}
Received(client) == mail' = [mail EXCEPT ![client] = Tail(@)]

\* reqQuit: a press of the button counts for a fault that is entered up to
\* ten seconds later; an older one no longer ends a fault, but its resume
\* flag stays up.
QuitStates == {"none", "fresh", "old"}
requestQuit(c) == quit' = [quit EXCEPT ![c] = "fresh"]
QuitAtFault(c) ==
  \E q \in (IF quit[c] = "fresh" THEN {"fresh", "old"} ELSE {quit[c]}) :
    quit' = [quit EXCEPT ![c] = q]
\* A slip would be to take a press for old at once.
ResumesLate(c) == quit[c] = "old"
Resumes(c) == quit[c] = "fresh"
ClearQuit(c) == quit' = [quit EXCEPT ![c] = "none"]

PlantTypeOK ==
  /\ cell \in [Slots -> Parts \cup {NoUid}]
  /\ tray \in Slots \cup {NoSlot}
  /\ at \in [Parts -> Places]
  /\ tag \in [Parts -> Tags]
  /\ quit \in [Clients -> QuitStates]
  /\ DOMAIN mail = Clients
=============================================================================
