---------------------------- MODULE FactoryProofs ----------------------------
(***************************************************************************)
(* Proofs about the training factory for every rack, every set of          *)
(* workpieces, every choice of faults, switches and habits of the people,  *)
(* and, in the second half, for a factory in normal operation.             *)
(***************************************************************************)
EXTENDS Factory, TLAPS, FiniteSetTheorems, FunctionTheorems, WellFoundedInduction

-----------------------------------------------------------------------------
\* The rack is finite.
LEMMA SlotFinite == IsFiniteSet(Slot)
<1>1. SlotOrder \in Seq(STRING)
  BY PlantAssumption
<1>2. SlotOrder \in [1..Len(SlotOrder) -> Slot] /\ Len(SlotOrder) \in Nat
  BY <1>1 DEF Slot
<1>3. SlotOrder \in Surjection(1..Len(SlotOrder), Slot)
  BY <1>1, <1>2 DEF Surjection, Slot
<1>4. IsFiniteSet(1..Len(SlotOrder))
  BY <1>2, FS_Interval
<1> QED
  BY <1>3, <1>4, FS_Surjection

\* A slot has a number among the slots.
LEMMA IndexType == ASSUME NEW s \in Slot PROVE Index(s) \in Nat
<1>1. \E i \in DOMAIN SlotOrder : SlotOrder[i] = s
  BY DEF Slot
<1>2. Index(s) \in DOMAIN SlotOrder
  BY <1>1 DEF Index
<1>3. SlotOrder \in Seq(STRING)
  BY PlantAssumption
<1>4. DOMAIN SlotOrder = 1..Len(SlotOrder) /\ Len(SlotOrder) \in Nat
  BY <1>3
<1> QED
  BY <1>2, <1>4

\* Of any slots one has the least of the values that f gives them.
LEMMA Least ==
  ASSUME NEW S, S # {}, NEW f \in [S -> Nat]
  PROVE  \E s \in S : \A t \in S : f[s] <= f[t]
<1> DEFINE V == {f[s] : s \in S}
<1>1. V \subseteq Nat /\ V # {}
  OBVIOUS
<1>2. PICK v \in V : \A w \in V : <<w, v>> \notin OpToRel(<, Nat)
  <2> HIDE DEF V
  <2> QED  BY <1>1, WFMin, NatLessThanWellFounded, Zenon
<1>3. \A w \in V : ~ (w < v)
  BY <1>1, <1>2, Zenon DEF OpToRel
<1>4. PICK s \in S : v = f[s]
  OBVIOUS
<1>5. \A t \in S : f[s] <= f[t]
  BY <1>1, <1>3, <1>4
<1> QED
  BY <1>5

\* The search loops end at one of the slots they search.
LEMMA FirstOfIn == ASSUME NEW S \in SUBSET Slot, S # {} PROVE FirstOf(S) \in S
<1> DEFINE f == [s \in S |-> Index(s)]
<1>1. f \in [S -> Nat]
  BY IndexType
<1>2. \E s \in S : \A t \in S : Index(s) <= Index(t)
  <2>1. \E s \in S : \A t \in S : f[s] <= f[t]
    <3> HIDE DEF f
    <3> QED  BY <1>1, Least
  <2> QED  BY <2>1
<1> QED
  BY <1>2 DEF FirstOf

\* The search for an order ends at one of the slots that hold the colour, and
\* none of them was stored before it.
LEMMA OldestIn ==
  ASSUME rack \in [Slot -> RackEntry], NEW S \in SUBSET Slot, S # {}
  PROVE  Oldest(S) \in S /\ \A t \in S : rack[Oldest(S)].ts <= rack[t].ts
<1> DEFINE f == [s \in S |-> rack[s].ts]
<1> DEFINE T == {s \in S : \A t \in S : rack[s].ts <= rack[t].ts}
<1>1. f \in [S -> Nat]
  BY DEF RackEntry
<1>2. T # {}
  <2>1. \E s \in S : \A t \in S : f[s] <= f[t]
    <3> HIDE DEF f
    <3> QED  BY <1>1, Least
  <2> QED  BY <2>1
<1>3. FirstOf(T) \in T
  <2>1. T \in SUBSET Slot
    OBVIOUS
  <2> HIDE DEF T
  <2> QED  BY <1>2, <2>1, FirstOfIn
<1> QED
  BY <1>3 DEF Oldest
-----------------------------------------------------------------------------
\* What the helpers of the programs do to the types.
LEMMA SwitchType ==
  ASSUME bits \subseteq Bit, NEW on \in SUBSET Bit, NEW off, Switch(on, off)
  PROVE  bits' \subseteq Bit
BY DEF Switch

\* Workpieces carried from place to place stay on places.
LEMMA CarryType ==
  ASSUME at \in [Piece -> Place], NEW from, NEW to \in Place, Carry(from, to)
  PROVE  at' \in [Piece -> Place]
BY DEF Carry

\* The two records of no workpiece are workpiece records.
LEMMA WorkpieceType == NoWorkpiece \in Workpiece /\ BlankWorkpiece \in Workpiece
BY DEF NoWorkpiece, BlankWorkpiece, Workpiece, Id

\* The two entries without a workpiece are rack entries.
LEMMA EntryType == FreeEntry \in RackEntry /\ BlankEntry \in RackEntry
BY DEF FreeEntry, BlankEntry, RackEntry, Id

\* The clearing of the rack leaves a table of records.
LEMMA SetRackType ==
  ASSUME NEW r \in [Slot -> RackEntry], SetRack(r)
  PROVE  rack' \in [Slot -> RackEntry]
BY EntryType DEF SetRack

\* A new record in the slot at work keeps the rack a table of records.
LEMMA StampedType ==
  ASSUME rack \in [Slot -> RackEntry], NEW record \in RackEntry
  PROVE  Stamped(record) \in [Slot -> RackEntry]
<1>1. Others \in SUBSET Slot
  BY DEF Others
<1>2. IsFiniteSet(Others)
  BY <1>1, SlotFinite, FS_Subset
<1>3. 1 + Cardinality(Others) \in Nat
  BY <1>2, FS_CardinalityType
<1>4. ASSUME NEW s \in Slot PROVE Rank(s) \in Nat
  <2> DEFINE T == {t \in Others : rack[t].ts <= rack[s].ts}
  <2>1. T \in SUBSET Others
    OBVIOUS
  <2>2. Cardinality(T) \in Nat
    <3> HIDE DEF T
    <3> QED  BY <1>2, <2>1, FS_Subset, FS_CardinalityType
  <2> QED
    BY <2>2 DEF Rank
<1> QED
  BY <1>3, <1>4 DEF Stamped, RackEntry
-----------------------------------------------------------------------------
\* Each program raises only bits of its own.
LEMMA VgrRaises ==
  ASSUME VGRProgram PROVE bits' \subseteq bits \cup VgrBit \cup {"NiO_Seen"}
<1>a. CASE VgrBadPart
  BY <1>a DEF VgrBadPart, Switch
<1>b. CASE VgrInit
  BY <1>b DEF VgrInit, Switch
<1>c. CASE VgrMove \/ VgrMeetContainer
  BY <1>c DEF VgrMove, VgrMeetContainer, vgrShared
<1>d. CASE VgrHome
  BY <1>d DEF VgrHome, Switch, VgrBit
<1>e. CASE VgrDispatch
  BY <1>e DEF VgrDispatch, VgrDispatchBad, VgrDispatchFinished, VgrDispatchOutsource,
              VgrDispatchStore, VgrIdle, Switch, VgrBit
<1>f. CASE VgrNfc
  BY <1>f DEF VgrNfc, NfcRequest, Switch, VgrBit
<1>h. CASE VgrFinished
  BY <1>h DEF VgrFinished, VgrTakeFinished, VgrToShelf, VgrShip, vgrShared
<1>i. CASE VgrOutsource
  BY <1>i DEF VgrOutsource, VgrRequestOven, VgrSuck, VgrPickedUp, VgrLeaveBelt,
              VgrLowerToOven, VgrReleaseOven, VgrDiscardOven, VgrLeaveOven,
              VgrOutsourced, Switch, VgrBit
<1>j. CASE VgrStore
  BY <1>j DEF VgrStore, VgrTakeDelivered, VgrMeasureColour, VgrRelease,
              VgrDiscardBelt, VgrStored, Switch, VgrBit
<1>k. CASE VgrBad
  BY <1>k DEF VgrBad, VgrReject, VgrDropBad, VgrRejected, Switch, VgrBit
<1> QED
  BY <1>a, <1>b, <1>c, <1>d, <1>e, <1>f, <1>h, <1>i, <1>j, <1>k DEF VGRProgram

\* The step chain of the gripper robot stays within its steps.
LEMMA VgrStepType == ASSUME vgr \in VgrStep, VGRProgram PROVE vgr' \in VgrStep
<1>a. CASE VgrBadPart \/ VgrInit \/ VgrHome
  BY <1>a DEF VgrBadPart, BadPartStep, VgrInit, VgrHome, VgrStep
<1>c. CASE VgrMove
  BY <1>c DEF VgrMove, VgrStep, FinishedMotion, OutsourceMotion, StoreMotion, RejectMotion
<1>e. CASE VgrDispatch
  BY <1>e DEF VgrDispatch, VgrDispatchBad, VgrDispatchFinished, VgrDispatchOutsource,
              VgrDispatchStore, VgrIdle, Dispatch, VgrStep
<1>f. CASE VgrNfc \/ VgrMeetContainer
  BY <1>f DEF VgrNfc, NfcRequest, VgrMeetContainer, VgrStep
<1>h. CASE VgrFinished
  BY <1>h DEF VgrFinished, VgrTakeFinished, VgrToShelf, VgrShip, VgrStep
<1>i. CASE VgrOutsource
  BY <1>i DEF VgrOutsource, VgrRequestOven, VgrSuck, VgrPickedUp, VgrLeaveBelt,
              VgrLowerToOven, VgrReleaseOven, VgrDiscardOven, VgrLeaveOven,
              VgrOutsourced, VgrStep
<1>j. CASE VgrStore
  BY <1>j DEF VgrStore, VgrTakeDelivered, VgrMeasureColour, VgrRelease,
              VgrDiscardBelt, VgrStored, VgrStep
<1>k. CASE VgrBad
  BY <1>k DEF VgrBad, VgrReject, VgrDropBad, VgrRejected, VgrStep
<1> QED
  BY <1>a, <1>c, <1>e, <1>f, <1>h, <1>i, <1>j, <1>k DEF VGRProgram

\* The records and the places it leaves are records and places.
LEMMA VgrWorkpieceType ==
  ASSUME wp \in [Register -> Workpiece], VGRProgram
  PROVE  wp' \in [Register -> Workpiece]
<1> USE WorkpieceType
<1>a. CASE wp' = wp
  BY <1>a
<1>b. CASE VgrFinished
  BY <1>b DEF VgrFinished, VgrTakeFinished, VgrToShelf, VgrShip, vgrShared, Register
<1>c. CASE VgrOutsource
  BY <1>c DEF VgrOutsource, VgrRequestOven, VgrSuck, VgrPickedUp, VgrLeaveBelt,
              VgrLowerToOven, VgrReleaseOven, VgrDiscardOven, VgrLeaveOven, VgrOutsourced
<1>d. CASE VgrMeasureColour
  <2>1. PICK c \in IF Held("gripper") = {} THEN Colour
                   ELSE {ColourOf[p] : p \in Held("gripper")} :
          wp' = [wp EXCEPT !["VGR"].type = c]
    BY <1>d DEF VgrMeasureColour, Readable
  <2>2. c \in Colour
    <3>1. ColourOf \in [Piece -> Colour]
      BY PlantAssumption
    <3>2. CASE Held("gripper") = {}
      BY <3>2
    <3>3. CASE Held("gripper") # {}
      BY <3>1, <3>3 DEF Held
    <3> QED  BY <3>2, <3>3
  <2>3. wp["VGR"] \in [id : Id, type : Colour \cup {Blank}]
    BY DEF Workpiece, Register
  <2>4. [wp["VGR"] EXCEPT !.type = c] \in [id : Id, type : Colour \cup {Blank}]
    BY <2>2, <2>3
  <2> QED
    BY <2>1, <2>4 DEF Workpiece
<1>e. CASE VgrStored
  BY <1>e DEF VgrStored
<1>f. CASE VgrBad
  BY <1>f DEF VgrBad, VgrReject, VgrDropBad, VgrRejected, BadRecord
<1>g. CASE VgrBadPart \/ VgrInit \/ VgrMove \/ VgrHome \/ VgrNfc \/ VgrMeetContainer
  <2>1. wp' = wp
    BY <1>g DEF VgrBadPart, VgrInit, VgrMove, VgrHome, VgrNfc, NfcRequest,
                VgrMeetContainer, vgrShared
  <2> QED  BY <2>1
<1>h. CASE VgrDispatch
  <2>1. wp' = wp
    BY <1>h DEF VgrDispatch, VgrDispatchBad, VgrDispatchFinished,
                VgrDispatchOutsource, VgrDispatchStore, VgrIdle, Dispatch
  <2> QED  BY <2>1
<1>i. CASE VgrTakeDelivered \/ VgrRelease \/ VgrDiscardBelt
  <2>1. wp' = wp
    BY <1>i DEF VgrTakeDelivered, VgrRelease, VgrDiscardBelt
  <2> QED  BY <2>1
<1> QED
  BY <1>b, <1>c, <1>d, <1>e, <1>f, <1>g, <1>h, <1>i DEF VGRProgram, VgrStore

\* The gripper robot leaves every workpiece on a place.
LEMMA VgrPlaceType ==
  ASSUME at \in [Piece -> Place], VGRProgram
  PROVE  at' \in [Piece -> Place]
<1>1. \/ at' = at
      \/ \E from : Carry(from, "lost") \/ Carry(from, "gripper") \/ Carry(from, "belt")
                    \/ Carry(from, "DSO") \/ Carry(from, "oven") \/ Carry(from, "reject")
  <2>a. CASE VgrBadPart \/ VgrInit \/ VgrMove \/ VgrHome \/ VgrNfc \/ VgrMeetContainer
    BY <2>a DEF VgrBadPart, VgrInit, VgrMove, VgrHome, VgrNfc, NfcRequest,
                VgrMeetContainer, vgrShared
  <2>b. CASE VgrDispatch
    BY <2>b DEF VgrDispatch, VgrDispatchBad, VgrDispatchFinished,
                VgrDispatchOutsource, VgrDispatchStore, VgrIdle, Dispatch
  <2>c. CASE VgrFinished
    BY <2>c DEF VgrFinished, VgrTakeFinished, VgrToShelf, VgrShip, vgrShared
  <2>d. CASE VgrOutsource
    BY <2>d DEF VgrOutsource, VgrRequestOven, VgrSuck, VgrPickedUp, VgrLeaveBelt,
                VgrLowerToOven, VgrReleaseOven, VgrDiscardOven, VgrLeaveOven, VgrOutsourced
  <2>e. CASE VgrStore
    BY <2>e DEF VgrStore, VgrTakeDelivered, VgrMeasureColour, VgrRelease,
                VgrDiscardBelt, VgrStored
  <2>f. CASE VgrBad
    BY <2>f DEF VgrBad, VgrReject, VgrDropBad, VgrRejected
  <2> QED
    BY <2>a, <2>b, <2>c, <2>d, <2>e, <2>f DEF VGRProgram
<1> QED
  BY <1>1, CarryType DEF Place, Station

\* The bay and the order state keep their values' types.
LEMMA VgrRestType ==
  ASSUME bay \in Colour \cup {"none"}, VGRProgram
  PROVE  bay' \in Colour \cup {"none"} /\ state' \in {state, "ORDERED", "IN_PROCESS", "SHIPPED"}
<1>a. CASE VgrBadPart \/ VgrInit \/ VgrMove \/ VgrHome \/ VgrNfc \/ VgrMeetContainer
  BY <1>a DEF VgrBadPart, VgrInit, VgrMove, VgrHome, VgrNfc, NfcRequest,
              VgrMeetContainer, vgrShared
<1>b. CASE VgrDispatch
  BY <1>b DEF VgrDispatch, VgrDispatchBad, VgrDispatchFinished,
              VgrDispatchOutsource, VgrDispatchStore, VgrIdle, FirstBay, Colour
<1>c. CASE VgrFinished
  BY <1>c DEF VgrFinished, VgrTakeFinished, VgrToShelf, VgrShip, vgrShared
<1>d. CASE VgrOutsource
  BY <1>d DEF VgrOutsource, VgrRequestOven, VgrSuck, VgrPickedUp, VgrLeaveBelt,
              VgrLowerToOven, VgrReleaseOven, VgrDiscardOven, VgrLeaveOven, VgrOutsourced
<1>e. CASE VgrStore \/ VgrBad
  BY <1>e DEF VgrStore, VgrTakeDelivered, VgrMeasureColour, VgrRelease,
              VgrDiscardBelt, VgrStored, VgrBad, VgrReject, VgrDropBad, VgrRejected
<1> QED
  BY <1>a, <1>b, <1>c, <1>d, <1>e DEF VGRProgram

-----------------------------------------------------------------------------
\* PRG_NFC keeps the types.
LEMMA NfcKeepsTypes ==
  ASSUME TypeOK, NFCProgram, prg' \in Program
  PROVE  TypeOK'
<1>1. nfc' \in NfcStep
  BY DEF TypeOK, NFCProgram, NfcStart, NfcDeleted, NfcWritten, NfcTimeout,
         NfcCompleted, NfcStep
<1>2. bits' \subseteq bits \cup {"Workpiece_NiO", "NFC_Completed"}
  BY DEF NFCProgram, NfcStart, NfcDeleted, NfcWritten, NfcTimeout, NfcCompleted, Switch
<1>3. wp' = wp \/ \E p \in Piece : wp' = [wp EXCEPT !["VGR"].id = p]
  BY DEF NFCProgram, NfcStart, NfcDeleted, NfcWritten, NfcTimeout, NfcCompleted, Held
<1>4. wp' \in [Register -> Workpiece]
  <2>1. ASSUME NEW p \in Piece PROVE [wp EXCEPT !["VGR"].id = p] \in [Register -> Workpiece]
    <3>1. wp \in [Register -> Workpiece] /\ "VGR" \in Register
      BY DEF TypeOK, Register
    <3>2. [wp["VGR"] EXCEPT !.id = p] \in Workpiece
      BY <3>1 DEF Workpiece, Id
    <3> QED  BY <3>1, <3>2
  <2> QED  BY <1>3, <2>1 DEF TypeOK
<1>5. UNCHANGED <<vgr, hbw, mpo, sld, ord, rack, act, bay, typ, state, button, at, cont>>
  BY DEF NFCProgram
<1> QED
  BY <1>1, <1>2, <1>4, <1>5 DEF TypeOK, Bit, VgrBit

\* PRG_VGR_Ablauf keeps the types, from the four lemmas above.
LEMMA VgrKeepsTypes ==
  ASSUME TypeOK, VGRProgram, prg' \in Program
  PROVE  TypeOK'
<1>1. bits' \subseteq Bit
  BY VgrRaises DEF TypeOK, Bit, EdgeBit
<1>2. UNCHANGED <<nfc, hbw, mpo, sld, ord, rack, act, typ, button, cont>>
  BY DEF VGRProgram
<1>3. wp' \in [Register -> Workpiece] /\ vgr' \in VgrStep /\ at' \in [Piece -> Place]
  BY VgrWorkpieceType, VgrStepType, VgrPlaceType DEF TypeOK
<1>4. /\ bay' \in Colour \cup {"none"}
      /\ state' \in {"WAITING_FOR_ORDER", "ORDERED", "IN_PROCESS", "SHIPPED"}
  BY VgrRestType DEF TypeOK
<1> QED
  BY <1>1, <1>2, <1>3, <1>4 DEF TypeOK

\* The search for an order keeps the slot when no record matches.
LEMMA SearchType ==
  ASSUME rack \in [Slot -> RackEntry], act \in Slot \cup {"none"},
         HbwFindFree \/ HbwFindOrdered
  PROVE  act' \in Slot \cup {"none"}
<1>1. CASE HbwFindFree
  BY <1>1, FirstOfIn DEF HbwFindFree, FreeSlots
<1>2. CASE HbwFindOrdered
  BY <1>2, OldestIn DEF HbwFindOrdered, OfType
<1> QED
  BY <1>1, <1>2

\* The warehouse leaves workpiece records in the registers.
LEMMA HbwWorkpieceType ==
  ASSUME wp \in [Register -> Workpiece], rack \in [Slot -> RackEntry],
         HbwFetch \/ HbwHandOver
  PROVE  wp' \in [Register -> Workpiece]
<1>1. CASE HbwFetch
  <2>1. CASE wp' = wp
    BY <2>1
  <2>2. CASE act \in Slot /\ wp' = [wp EXCEPT !["HBW"] = [id |-> rack[act].id, type |-> rack[act].type]]
    <3>1. [id |-> rack[act].id, type |-> rack[act].type] \in Workpiece
      BY <2>2 DEF RackEntry, Workpiece
    <3> QED  BY <2>2, <3>1
  <2> QED
    BY <1>1, <2>1, <2>2 DEF HbwFetch
<1>2. CASE HbwHandOver
  BY <1>2, WorkpieceType DEF HbwHandOver, Register
<1> QED
  BY <1>1, <1>2

\* The warehouse leaves a table of records in the rack.
LEMMA HbwRackType ==
  ASSUME TypeOK, SlotKnown, HBWProgram
  PROVE  rack' \in [Slot -> RackEntry] /\ at' \in [Piece -> Place]
<1> USE SetRackType, EntryType DEF TypeOK
<1>a. CASE SetRack(rack) /\ at' = at
  BY <1>a
<1>b. CASE HbwFetch
  <2>1. at' \in [Piece -> Place]
    BY <1>b, CarryType DEF HbwFetch, Place, Station
  <2>2. [rack EXCEPT ![act].id = Blank] \in [Slot -> RackEntry]
    BY DEF RackEntry, Id
  <2>3. [rack EXCEPT ![act] = BlankEntry] \in [Slot -> RackEntry]
    OBVIOUS
  <2> QED
    BY <1>b, <2>1, <2>2, <2>3 DEF HbwFetch, Cleared
<1>c. CASE HbwReturn
  <2>1. hbw = 250 /\ act \in Slot
    BY <1>c DEF HbwReturn, Hbw, SlotKnown
  <2>2. at' \in [Piece -> Place]
    BY <1>c, <2>1, CarryType DEF HbwReturn, Place
  <2> DEFINE new == [id |-> wp["HBW"].id, type |-> wp["HBW"].type, ts |-> 0]
  <2>3. new \in RackEntry
    BY DEF RackEntry, Workpiece, Register
  <2>4. Stamped(new) \in [Slot -> RackEntry]
    <3> HIDE DEF new
    <3> QED  BY <2>3, StampedType
  <2>5. [rack EXCEPT ![act].id = "0"] \in [Slot -> RackEntry]
    BY DEF RackEntry, Id
  <2> QED
    BY <1>c, <2>2, <2>4, <2>5 DEF HbwReturn
<1>d. CASE HbwInit \/ HbwMove \/ HbwTimeout \/ HbwDecide \/ HbwFindFree \/ HbwFindOrdered
           \/ HbwOffer \/ HbwHandOver \/ HbwTakeBack \/ HbwDone
  BY <1>a, <1>d DEF HbwInit, HbwMove, HbwTimeout, HbwDecide, HbwFindFree, HbwFindOrdered,
     HbwOffer, HbwHandOver, HbwTakeBack, HbwDone
<1> QED
  BY <1>b, <1>c, <1>d DEF HBWProgram

\* The warehouse raises only bits of its own.
LEMMA HbwRaises ==
  ASSUME HBWProgram PROVE bits' \subseteq bits \cup HbwBit
<1> USE DEF HbwSwitch, Switch
<1>a. CASE HbwTimeout
  BY <1>a DEF HbwTimeout, HbwBit
<1>b. CASE HbwOffer \/ HbwHandOver
  BY <1>b DEF HbwOffer, HbwHandOver, HbwBit
<1>c. CASE HbwFetch \/ HbwReturn \/ HbwDone
  BY <1>c DEF HbwFetch, HbwReturn, HbwDone
<1>d. CASE HbwInit \/ HbwMove \/ HbwDecide \/ HbwFindFree \/ HbwFindOrdered \/ HbwTakeBack
  BY <1>d DEF HbwInit, HbwMove, HbwDecide, HbwFindFree, HbwFindOrdered, HbwTakeBack
<1> QED
  BY <1>a, <1>b, <1>c, <1>d DEF HBWProgram

\* The step chain of the warehouse, its container and its slot.
LEMMA HbwStepType ==
  ASSUME hbw \in HbwStep, cont \in {"rack", "inside", "outside"}, HBWProgram
  PROVE  hbw' \in HbwStep /\ cont' \in {"rack", "inside", "outside"}
<1>a. CASE HbwInit \/ HbwDecide
  BY <1>a DEF HbwInit, HbwDecide, HbwStep
<1>t. CASE HbwTimeout
  <2>1. cont' = cont \/ cont' = "outside"
    BY <1>t DEF HbwTimeout
  <2> QED  BY <1>t, <2>1 DEF HbwTimeout, HbwStep
<1>b. CASE HbwMove
  BY <1>b DEF HbwMove, HbwMotion, HbwStep
<1>c. CASE HbwFindFree \/ HbwFindOrdered
  BY <1>c DEF HbwFindFree, HbwFindOrdered, HbwStep
<1>d. CASE HbwFetch
  BY <1>d DEF HbwFetch, HbwStep
<1>o. CASE HbwOffer
  BY <1>o DEF HbwOffer, HbwStep
<1>e. CASE HbwHandOver \/ HbwTakeBack
  BY <1>e DEF HbwHandOver, HbwTakeBack, HbwStep
<1>f. CASE HbwReturn \/ HbwDone
  BY <1>f DEF HbwReturn, HbwDone, HbwStep
<1> QED
  BY <1>a, <1>t, <1>b, <1>c, <1>d, <1>o, <1>e, <1>f DEF HBWProgram

\* The slot in work is known from step 110 on, for step 100 asks for it.
LEMMA HbwSlotType ==
  ASSUME rack \in [Slot -> RackEntry], act \in Slot \cup {"none"}, SlotKnown, HBWProgram
  PROVE  act' \in Slot \cup {"none"} /\ SlotKnown'
<1>a. CASE HbwFindFree \/ HbwFindOrdered
  <2>1. hbw' \in {50, 70}
    BY <1>a DEF HbwFindFree, HbwFindOrdered
  <2>2. act' \in Slot \cup {"none"}
    BY <1>a, SearchType
  <2> QED  BY <2>1, <2>2 DEF SlotKnown
<1>b. CASE HbwInit \/ HbwTimeout \/ HbwDecide \/ HbwDone
  <2>1. act' = act /\ hbw' \in {0, 10, 40, 50, 60, 260}
    BY <1>b DEF HbwInit, HbwTimeout, HbwDecide, HbwDone
  <2> QED  BY <2>1 DEF SlotKnown
<1>c. CASE HbwMove
  <2>1. act' = act /\ (hbw' \in {10, 40, 70, 100} \/ hbw \in {110, 200, 210})
    BY <1>c DEF HbwMove, HbwMotion, Hbw
  <2> QED  BY <2>1 DEF SlotKnown
<1>d. CASE HbwFetch
  <2>1. act' = act /\ (hbw' = 100 \/ act \in Slot)
    BY <1>d DEF HbwFetch
  <2> QED  BY <2>1 DEF SlotKnown
<1>e. CASE HbwOffer \/ HbwHandOver \/ HbwTakeBack \/ HbwReturn
  <2>1. act' = act /\ hbw \in {170, 180, 190, 250}
    BY <1>e DEF HbwOffer, HbwHandOver, HbwTakeBack, HbwReturn, Hbw
  <2> QED  BY <2>1 DEF SlotKnown
<1> QED
  BY <1>a, <1>b, <1>c, <1>d, <1>e DEF HBWProgram

\* PRG_HBW_Ablauf keeps the types and knows its slot.
LEMMA HbwKeepsTypes ==
  ASSUME TypeOK, SlotKnown, HBWProgram, prg' \in Program
  PROVE  TypeOK' /\ SlotKnown'
<1>1. rack' \in [Slot -> RackEntry] /\ at' \in [Piece -> Place]
  BY HbwRackType
<1>2. bits' \subseteq Bit
  BY HbwRaises DEF TypeOK, Bit
<1>3. /\ hbw' \in HbwStep /\ cont' \in {"rack", "inside", "outside"}
      /\ act' \in Slot \cup {"none"} /\ SlotKnown'
  BY HbwStepType, HbwSlotType DEF TypeOK
<1>4. wp' \in [Register -> Workpiece]
  <2>1. CASE wp' = wp
    BY <2>1 DEF TypeOK
  <2> QED
    BY <2>1, HbwWorkpieceType DEF TypeOK, HBWProgram, HbwInit, HbwMove, HbwTimeout, HbwDecide,
       HbwFindFree, HbwFindOrdered, HbwOffer, HbwTakeBack, HbwReturn, HbwDone
<1>5. UNCHANGED <<vgr, nfc, mpo, sld, ord, bay, typ, state, button>>
  BY DEF HBWProgram
<1> QED
  BY <1>1, <1>2, <1>3, <1>4, <1>5 DEF TypeOK

\* The processing station raises only bits of its own.
LEMMA MpoRaises ==
  ASSUME MPOProgram PROVE bits' \subseteq bits \cup MpoBit
<1> USE DEF Switch, MpoBit
<1>a. CASE MpoInit \/ MpoMove \/ MpoAwaitRequest \/ MpoPassOn
  BY <1>a DEF MpoInit, MpoMove, MpoAwaitRequest, MpoPassOn
<1>b. CASE MpoOpen \/ MpoAccept \/ MpoRetract
  BY <1>b DEF MpoOpen, MpoAccept, MpoRetract
<1>c. CASE MpoNoPart \/ MpoLostPart
  BY <1>c DEF MpoNoPart, MpoLostPart
<1> QED
  BY <1>a, <1>b, <1>c DEF MPOProgram

\* PRG_MPO_Ablauf keeps the types.
LEMMA MpoKeepsTypes ==
  ASSUME TypeOK, MPOProgram, prg' \in Program
  PROVE  TypeOK'
<1>1. bits' \subseteq Bit
  BY MpoRaises DEF TypeOK, Bit
<1>2. mpo' \in MpoStep
  <2>1. mpo \in MpoStep
    BY DEF TypeOK
  <2> QED
    BY <2>1 DEF MPOProgram, MpoInit, MpoMove, MpoMotion, MpoAwaitRequest, MpoOpen,
                MpoAccept, MpoNoPart, MpoRetract, MpoPassOn, MpoLostPart, MpoStep
<1>3. wp' \in [Register -> Workpiece]
  <2>1. wp \in [Register -> Workpiece]
    BY DEF TypeOK
  <2>2. \/ wp' = wp \/ wp' = [wp EXCEPT !["MPO"] = wp["VGR"]]
        \/ wp' = [wp EXCEPT !["SLD"] = wp["MPO"], !["MPO"] = NoWorkpiece]
    BY DEF MPOProgram, MpoInit, MpoMove, MpoAwaitRequest, MpoOpen, MpoAccept, TakeOver,
           MpoNoPart, MpoRetract, MpoPassOn, MpoLostPart
  <2> QED
    BY <2>1, <2>2, WorkpieceType DEF Register
<1>4. at' \in [Piece -> Place]
  <2>1. at' = at \/ Carry("oven", "SLD")
    BY DEF MPOProgram, MpoInit, MpoMove, MpoAwaitRequest, MpoOpen, MpoAccept,
           MpoNoPart, MpoRetract, MpoPassOn, MpoLostPart
  <2> QED
    BY <2>1, CarryType DEF TypeOK, Place, Station
<1>5. state' \in {state, "WAITING_FOR_ORDER"}
  BY DEF MPOProgram, MpoInit, MpoMove, MpoAwaitRequest, MpoOpen, MpoAccept,
         MpoNoPart, MpoRetract, MpoPassOn, MpoLostPart
<1>6. UNCHANGED <<vgr, nfc, hbw, sld, ord, rack, act, bay, typ, button, cont>>
  BY DEF MPOProgram
<1> QED
  BY <1>1, <1>2, <1>3, <1>4, <1>5, <1>6 DEF TypeOK

\* PRG_SLD_Ablauf keeps the types.
LEMMA SldKeepsTypes ==
  ASSUME TypeOK, SLDProgram, prg' \in Program
  PROVE  TypeOK'
<1>1. bits' \subseteq bits \cup {"SLD_Error"}
  BY DEF SLDProgram, SldInit, SldMove, SldInlet, SldMeasure, SldTimeout, SldEject, Switch
<1>2. sld' \in SldStep
  BY DEF SLDProgram, SldInit, SldMove, SldInlet, SldMeasure, SldTimeout, SldEject, SldStep
<1>3. at' \in [Piece -> Place]
  <2>1. at' = at \/ Carry("SLD", "lost")
          \/ at' = [p \in Piece |-> IF at[p] = "SLD" THEN ColourOf[p] ELSE at[p]]
    BY DEF SLDProgram, SldInit, SldMove, SldInlet, SldMeasure, SldTimeout, SldEject
  <2>2. ColourOf \in [Piece -> Colour] /\ Colour \subseteq Place
    BY PlantAssumption DEF Place
  <2> QED
    BY <2>1, <2>2, CarryType DEF TypeOK, Place, Station
<1>4. UNCHANGED <<vgr, nfc, hbw, mpo, ord, wp, rack, act, bay, typ, state, button, cont>>
  BY DEF SLDProgram
<1> QED
  BY <1>1, <1>2, <1>3, <1>4 DEF TypeOK, Bit, SldBit

\* PRG_DSO_Status, PRG_Order and PRG_Acknowledge keep the types.
LEMMA DeskKeepsTypes ==
  ASSUME TypeOK, DSOProgram \/ OrderProgram \/ AckProgram, prg' \in Program
  PROVE  TypeOK'
<1>1. CASE DSOProgram
  <2>1. bits' \subseteq bits \cup {"DSO_Occupied", "StartEndOrder"}
    BY <1>1 DEF DSOProgram, Switch, Shelf, TimerStart
  <2>2. state' \in {state, "WAITING_FOR_ORDER"}
    BY <1>1 DEF DSOProgram
  <2>3. UNCHANGED <<vgr, nfc, hbw, mpo, sld, ord, wp, rack, act, bay, typ, button, at, cont>>
    BY <1>1 DEF DSOProgram
  <2> QED
    BY <2>1, <2>2, <2>3 DEF TypeOK, Bit, EdgeBit
<1>2. CASE OrderProgram
  <2>1. bits' \subseteq bits \cup {"HBW_Outsource"}
    BY <1>2 DEF OrderProgram, OrderInit, OrderTake, OrderClear, Switch
  <2>2. /\ ord' \in OrdStep /\ typ' \in {typ, button, Blank} /\ button' \in {button, Blank}
        /\ state' \in {state, "ORDERED"}
    BY <1>2 DEF TypeOK, OrderProgram, OrderInit, OrderTake, OrderClear, OrdStep
  <2>3. UNCHANGED <<vgr, nfc, hbw, mpo, sld, wp, rack, act, bay, at, cont>>
    BY <1>2 DEF OrderProgram
  <2> QED
    BY <2>1, <2>2, <2>3 DEF TypeOK, Bit, VgrBit
<1>3. CASE AckProgram
  BY <1>3 DEF AckProgram, Switch, TypeOK
<1> QED
  BY <1>1, <1>2, <1>3

\* Customer and operator keep the types.
LEMMA PeopleKeepTypes ==
  ASSUME TypeOK, People, prg' \in Program
  PROVE  TypeOK'
<1>1. bits' \subseteq Bit
  <2>1. bits' = bits \/ \E m \in Modes : Toggle(m)
    BY DEF People, Deliver, Take, PressOrder
  <2>2. Modes \subseteq Bit
    BY PeopleAssumption DEF Bit
  <2>3. ASSUME NEW m \in Modes, Toggle(m) PROVE bits' \subseteq bits \cup {m}
    BY <2>3 DEF Toggle
  <2> QED
    BY <2>1, <2>2, <2>3 DEF TypeOK
<1>2. button' \in Colour \cup {Blank} /\ at' \in [Piece -> Place]
  BY DEF TypeOK, People, Deliver, Take, PressOrder, Toggle, Place, Station
<1>3. UNCHANGED <<vgr, nfc, hbw, mpo, sld, ord, wp, rack, act, bay, typ, state, cont>>
  BY DEF People
<1> QED
  BY <1>1, <1>2, <1>3 DEF TypeOK

\* A restart of the PLC keeps the types.
LEMMA RestartKeepsTypes == ASSUME TypeOK, Restart PROVE TypeOK'
<1>1. rack' \in [Slot -> RackEntry]
  BY EntryType DEF TypeOK, Restart
<1>2. wp' \in [Register -> Workpiece] /\ at' \in [Piece -> Place]
  BY WorkpieceType, CarryType DEF TypeOK, Restart, Place, Station
<1>3. /\ bits' \subseteq Bit /\ prg' \in Program /\ cont' = cont
      /\ act' = "none" /\ bay' = "none"
      /\ typ' = Blank /\ state' = "WAITING_FOR_ORDER" /\ button' = Blank
  BY DEF TypeOK, Restart, Program
<1>4. vgr' = 0 /\ nfc' = 0 /\ hbw' = 0 /\ mpo' = 0 /\ sld' = 0 /\ ord' = 0
  BY DEF Restart
<1>5. 0 \in VgrStep \cap NfcStep \cap HbwStep \cap MpoStep \cap SldStep \cap OrdStep
  BY DEF VgrStep, NfcStep, HbwStep, MpoStep, SldStep, OrdStep
<1> QED
  BY <1>1, <1>2, <1>3, <1>4, <1>5 DEF TypeOK

\* The PLC starts with values of the right types.
LEMMA InitTypes == Init => TypeOK /\ SlotKnown
<1> SUFFICES ASSUME Init PROVE TypeOK /\ SlotKnown
  OBVIOUS
<1>1. rack \in [Slot -> RackEntry]
  <2>1. /\ Stock \in [Slot -> Piece \cup {NoPiece}]
        /\ ColourOf \in [Piece -> Colour]
    BY PlantAssumption
  <2>2. ASSUME NEW s \in Slot, Stock[s] # NoPiece
        PROVE  [id |-> Stock[s], type |-> ColourOf[Stock[s]], ts |-> 1] \in RackEntry
    BY <2>1, <2>2 DEF RackEntry, Id
  <2> QED
    BY <2>2, EntryType DEF Init
<1>2. at \in [Piece -> Place]
  <2>1. ASSUME NEW p \in Piece, \E s \in Slot : Stock[s] = p
        PROVE  (CHOOSE s \in Slot : Stock[s] = p) \in Place
    BY <2>1 DEF Place
  <2> QED
    BY <2>1 DEF Init, Place, Station
<1>3. wp \in [Register -> Workpiece]
  BY WorkpieceType DEF Init
<1>4. 0 \in VgrStep \cap NfcStep \cap HbwStep \cap MpoStep \cap SldStep \cap OrdStep
  BY DEF VgrStep, NfcStep, HbwStep, MpoStep, SldStep, OrdStep
<1>5. SlotKnown
  <2>1. hbw = 0
    BY DEF Init
  <2> QED  BY <2>1 DEF SlotKnown
<1>6. /\ bits = {} /\ prg \in Program /\ cont \in {"rack", "inside", "outside"}
      /\ act = "none" /\ bay = "none"
      /\ typ = Blank /\ state = "WAITING_FOR_ORDER" /\ button = Blank
  BY DEF Init, Program
<1>7. /\ vgr \in VgrStep /\ nfc \in NfcStep /\ hbw \in HbwStep
      /\ mpo \in MpoStep /\ sld \in SldStep /\ ord \in OrdStep
  BY <1>4 DEF Init
<1> QED
  BY <1>1, <1>2, <1>3, <1>5, <1>6, <1>7 DEF TypeOK

\* OB1 calls only its programs.
LEMMA SuccessorType == ASSUME NEW p \in Program PROVE Successor[p] \in Program
BY DEF Successor, Program

-----------------------------------------------------------------------------
\* Every step of the factory keeps the types.
LEMMA TypesKept == ASSUME TypeOK, SlotKnown, [Next]_allVars PROVE TypeOK' /\ SlotKnown'
<1>1. CASE UNCHANGED allVars
  <2>1. TypeOK'
    BY <1>1 DEF allVars, vars, TypeOK
  <2>2. SlotKnown'
    BY <1>1 DEF allVars, vars, SlotKnown
  <2> QED  BY <2>1, <2>2
<1>2. CASE Restart
  <2>1. hbw' = 0
    BY <1>2 DEF Restart
  <2> QED  BY <1>2, <2>1, RestartKeepsTypes DEF SlotKnown
<1>3. ASSUME NEW p, prg = p, prg' = Successor[p] PROVE prg' \in Program
  BY <1>3, SuccessorType DEF TypeOK
<1>4. CASE Call("HBW", HBWProgram)
  BY <1>3, <1>4, HbwKeepsTypes DEF Call
<1>5. CASE Call("VGR", VGRProgram)
  <2>1. UNCHANGED <<hbw, act>>
    BY <1>5 DEF Call, VGRProgram
  <2> QED  BY <1>3, <1>5, <2>1, VgrKeepsTypes DEF Call, SlotKnown
<1>6. CASE Call("NFC", NFCProgram)
  <2>1. UNCHANGED <<hbw, act>>
    BY <1>6 DEF Call, NFCProgram
  <2> QED  BY <1>3, <1>6, <2>1, NfcKeepsTypes DEF Call, SlotKnown
<1>7. CASE Call("MPO", MPOProgram)
  <2>1. UNCHANGED <<hbw, act>>
    BY <1>7 DEF Call, MPOProgram
  <2> QED  BY <1>3, <1>7, <2>1, MpoKeepsTypes DEF Call, SlotKnown
<1>8. CASE Call("SLD", SLDProgram)
  <2>1. UNCHANGED <<hbw, act>>
    BY <1>8 DEF Call, SLDProgram
  <2> QED  BY <1>3, <1>8, <2>1, SldKeepsTypes DEF Call, SlotKnown
<1>9. CASE Call("DSO", DSOProgram) \/ Call("Order", OrderProgram) \/ Call("Ack", AckProgram)
  <2>1. UNCHANGED <<hbw, act>>
    BY <1>9 DEF Call, DSOProgram, OrderProgram, AckProgram
  <2> QED  BY <1>3, <1>9, <2>1, DeskKeepsTypes DEF Call, SlotKnown
<1>10. CASE Call("IO", People)
  <2>1. UNCHANGED <<hbw, act>>
    BY <1>10 DEF Call, People
  <2> QED  BY <1>3, <1>10, <2>1, PeopleKeepTypes DEF Call, SlotKnown
<1> QED
  BY <1>1, <1>2, <1>4, <1>5, <1>6, <1>7, <1>8, <1>9, <1>10 DEF Next

\* Type correctness, whatever the rack, the faults, the switches and the people.
THEOREM TypeCorrect == Spec => []TypeOK
BY InitTypes, TypesKept, PTL DEF Spec

-----------------------------------------------------------------------------
\* The requests of the robot and its readiness for an order.
Reserved == {"HBW_Storage", "HBW_Outsource", "Ready_For_Outsource"}

\* The other programs do not raise the requests and do not move the robot.
LEMMA OthersKeepAlone ==
  ASSUME StorageAlone, vgr' = vgr, bits' \cap Reserved \subseteq bits
  PROVE  StorageAlone'
BY DEF StorageAlone, Reserved

\* The robot raises a storage request only when it is ready for no order, and
\* readiness only when it has no storage request.
LEMMA VgrKeepsAlone ==
  ASSUME StorageAlone, VGRProgram
  PROVE  StorageAlone'
<1> USE DEF StorageAlone, StoreStep, Switch
<1>a. CASE VgrBadPart
  BY <1>a DEF VgrBadPart, BadPartStep
<1>b. CASE VgrInit
  BY <1>b DEF VgrInit, InitBit
<1>c. CASE VgrMove
  BY <1>c DEF VgrMove, vgrShared, FinishedMotion, OutsourceMotion, StoreMotion,
              RejectMotion, In
<1>d. CASE VgrHome
  BY <1>d DEF VgrHome, In
<1>e. CASE VgrDispatch
  BY <1>e DEF VgrDispatch, VgrDispatchBad, VgrDispatchFinished, VgrDispatchOutsource,
              VgrDispatchStore, VgrIdle, Dispatch, In, Unready, Ordered
<1>f. CASE VgrNfc
  BY <1>f DEF VgrNfc, NfcRequest, In
<1>g. CASE VgrMeetContainer
  BY <1>g DEF VgrMeetContainer, In, vgrShared
<1>h. CASE VgrFinished
  BY <1>h DEF VgrFinished, VgrTakeFinished, VgrToShelf, VgrShip, vgrShared, In
<1>i. CASE VgrOutsource
  BY <1>i DEF VgrOutsource, VgrRequestOven, VgrSuck, VgrPickedUp, VgrLeaveBelt,
              VgrLowerToOven, VgrReleaseOven, VgrDiscardOven, VgrLeaveOven,
              VgrOutsourced, In
<1>j. CASE VgrStore
  BY <1>j DEF VgrStore, VgrTakeDelivered, VgrMeasureColour, VgrRelease,
              VgrDiscardBelt, VgrStored, In
<1>k. CASE VgrBad
  BY <1>k DEF VgrBad, VgrReject, VgrDropBad, VgrRejected, In, HbwAccepted
<1> QED
  BY <1>a, <1>b, <1>c, <1>d, <1>e, <1>f, <1>g, <1>h, <1>i, <1>j, <1>k DEF VGRProgram

\* PRG_Order raises its request only while the robot is ready for it.
LEMMA OrderKeepsAlone ==
  ASSUME StorageAlone, OrderProgram
  PROVE  StorageAlone'
<1>1. vgr' = vgr
  BY DEF OrderProgram
<1>2. CASE OrderInit \/ OrderClear
  <2>1. bits' \subseteq bits
    BY <1>2 DEF OrderInit, OrderClear, Switch
  <2> QED  BY <1>1, <2>1, OthersKeepAlone
<1>3. CASE OrderTake
  <2>1. \/ bits' = bits
        \/ "Ready_For_Outsource" \in bits /\ bits' = bits \cup {"HBW_Outsource"}
    BY <1>3 DEF OrderTake, Switch
  <2> QED  BY <1>1, <2>1 DEF StorageAlone
<1> QED
  BY <1>2, <1>3 DEF OrderProgram

\* Every step of the factory keeps the storage on its own.
LEMMA AloneKept == ASSUME StorageAlone, [Next]_allVars PROVE StorageAlone'
<1>1. CASE UNCHANGED allVars
  BY <1>1, OthersKeepAlone DEF allVars, vars
<1>2. CASE Restart
  <2>1. "HBW_Storage" \notin bits'
    BY <1>2 DEF Restart, Retained
  <2> QED  BY <2>1 DEF StorageAlone
<1>3. CASE Call("VGR", VGRProgram)
  BY <1>3, VgrKeepsAlone DEF Call
<1>4. CASE Call("Order", OrderProgram)
  BY <1>4, OrderKeepsAlone DEF Call
<1>5. CASE Call("NFC", NFCProgram)
  <2>1. vgr' = vgr
    BY <1>5 DEF Call, NFCProgram
  <2>2. bits' \subseteq bits \cup {"Workpiece_NiO", "NFC_Completed"}
    BY <1>5 DEF Call, NFCProgram, NfcStart, NfcDeleted, NfcWritten, NfcTimeout,
                NfcCompleted, Switch
  <2> QED  BY <2>1, <2>2, OthersKeepAlone DEF Reserved
<1>6. CASE Call("HBW", HBWProgram)
  <2>1. vgr' = vgr /\ bits' \subseteq bits \cup HbwBit
    BY <1>6, HbwRaises DEF Call, HBWProgram
  <2> QED  BY <2>1, OthersKeepAlone DEF Reserved, HbwBit
<1>7. CASE Call("MPO", MPOProgram)
  <2>1. vgr' = vgr /\ bits' \subseteq bits \cup MpoBit
    BY <1>7, MpoRaises DEF Call, MPOProgram
  <2> QED  BY <2>1, OthersKeepAlone DEF Reserved, MpoBit
<1>8. CASE Call("SLD", SLDProgram)
  <2>1. vgr' = vgr
    BY <1>8 DEF Call, SLDProgram
  <2>2. bits' \subseteq bits \cup {"SLD_Error"}
    BY <1>8 DEF Call, SLDProgram, SldInit, SldMove, SldInlet, SldMeasure, SldTimeout,
                SldEject, Switch
  <2> QED  BY <2>1, <2>2, OthersKeepAlone DEF Reserved
<1>9. CASE Call("DSO", DSOProgram) \/ Call("Ack", AckProgram)
  <2>1. vgr' = vgr
    BY <1>9 DEF Call, DSOProgram, AckProgram
  <2>2. bits' \subseteq bits \cup {"DSO_Occupied", "StartEndOrder"}
    BY <1>9 DEF Call, DSOProgram, AckProgram, Shelf, TimerStart, Switch
  <2> QED  BY <2>1, <2>2, OthersKeepAlone DEF Reserved
<1>10. CASE Call("IO", People)
  <2>1. vgr' = vgr
    BY <1>10 DEF Call, People
  <2>2. bits' \subseteq bits \cup SetupBit
    BY <1>10, PeopleAssumption DEF Call, People, Deliver, Take, PressOrder, Toggle
  <2> QED  BY <2>1, <2>2, OthersKeepAlone DEF Reserved, SetupBit, ModeBit
<1> QED
  BY <1>1, <1>2, <1>3, <1>4, <1>5, <1>6, <1>7, <1>8, <1>9, <1>10 DEF Next

\* Nothing is requested at the start.
LEMMA AloneAtStart == Init => StorageAlone
BY DEF Init, StorageAlone

\* A storage is never requested while an order is in force or may be taken,
\* whatever fails and whatever the people do.
THEOREM StorageOnItsOwn == Spec => []StorageAlone
BY AloneAtStart, AloneKept, PTL DEF Spec

\* So the warehouse is never asked to store and to fetch at once.
THEOREM RequestsExclude == Spec => []ExclusiveRequests
<1>1. StorageAlone => ExclusiveRequests
  BY DEF StorageAlone, ExclusiveRequests
<1> QED
  BY <1>1, StorageOnItsOwn, PTL
-----------------------------------------------------------------------------
(* The handover between the gripper robot and the high-bay warehouse.  The *)
(* two programs agree by four bits only: x_Container_Available and the     *)
(* acceptances of the warehouse, and x_HBW_PickedUp and x_HBW_Discards of  *)
(* the robot.                                                              *)

\* From "container available" until the robot's report.
Reaching == {450, 460, 470, 480, 890, 900, 910}
StorageReach == {890, 900, 910}
ForOrder == {400, 440, 450, 460, 470, 480}
ForStorage == {600, 640, 650, 700, 710, 750, 760, 810, 820, 880, 890, 900, 910}

\* A stop by x_Start_Park_Position freezes the container where it is, and the
\* robot never leaves step 0 again before a restart.
Parked == hbw = 0 /\ "Start_Park_Position" \in bits

\* What the robot has written in a scan the warehouse reads in the same scan.
BeforeHBW == prg \in {"NFC", "HBW"}

NoPositioning == "Set_Pos_Activ" \notin bits

OfferStands ==
  "Container_Available" \in bits => cont = "outside" /\ (hbw = 180 \/ Parked)

BeltWaits ==
  vgr \in Reaching =>
    /\ cont = "outside"
    /\ \/ hbw = 180 \/ Parked
       \/ hbw = 190 /\ bits \cap {"HBW_Discards", "HBW_PickedUp"} # {}

PickUpSeen ==
  "HBW_PickedUp" \in bits =>
    \/ hbw = 190 \/ Parked
    \/ hbw = 180 /\ BeforeHBW /\ "HBW_Outsource" \in bits

DiscardSeen ==
  "HBW_Discards" \in bits /\ hbw = 180 /\ vgr \in StorageReach => BeforeHBW

PickUpStands == vgr \in {485, 500} => "HBW_PickedUp" \in bits
OrderStands == vgr \in ForOrder => bits \cap {"HBW_Outsource", "HBW_PickedUp"} # {}
StorageStands == vgr \in ForStorage => "HBW_Storage" \in bits

HandInv == /\ NoPositioning /\ OfferStands /\ BeltWaits /\ PickUpSeen
           /\ DiscardSeen /\ PickUpStands /\ OrderStands /\ StorageStands

\* The bits the invariant looks at.
HandBit == {"Container_Available", "HBW_PickedUp", "HBW_Discards", "HBW_Outsource",
            "HBW_Storage", "Start_Park_Position", "Set_Pos_Activ"}

-----------------------------------------------------------------------------
\* A program that comes after the warehouse, moves neither robot nor warehouse
\* and leaves these bits alone.
LEMMA OthersKeepHand ==
  ASSUME HandInv, UNCHANGED <<vgr, hbw, cont>>, bits' \cap HandBit = bits \cap HandBit,
         BeforeHBW => BeforeHBW'
  PROVE  HandInv'
<1> DEFINE Keeps(b) == b \in bits' <=> b \in bits
<1>1. /\ Keeps("Container_Available") /\ Keeps("HBW_PickedUp") /\ Keeps("HBW_Discards")
      /\ Keeps("HBW_Outsource") /\ Keeps("HBW_Storage")
      /\ Keeps("Start_Park_Position") /\ Keeps("Set_Pos_Activ")
  BY DEF HandBit
<1>2. NoPositioning' /\ OfferStands'
  BY <1>1 DEF HandInv, NoPositioning, OfferStands, Parked
<1>3. BeltWaits'
  BY <1>1 DEF HandInv, BeltWaits, Parked
<1>4. PickUpSeen' /\ DiscardSeen'
  BY <1>1 DEF HandInv, PickUpSeen, DiscardSeen, Parked
<1>5. PickUpStands' /\ OrderStands' /\ StorageStands'
  BY <1>1 DEF HandInv, PickUpStands, OrderStands, StorageStands
<1> QED
  BY <1>2, <1>3, <1>4, <1>5 DEF HandInv

\* A reset or a bad part takes the robot out of every handover; the report of
\* a pick-up is withdrawn later, if at all.
LEMMA VgrResetKeepsHand ==
  ASSUME HandInv, prg = "VGR", prg' = "NFC", VgrBadPart \/ VgrInit,
         UNCHANGED <<hbw, cont>>
  PROVE  HandInv'
<1>1. vgr' \in {0, 10, 1200}
  BY DEF VgrBadPart, BadPartStep, VgrInit
<1>2. /\ bits' \subseteq bits \cup {"NiO_Seen"}
      /\ "Start_Park_Position" \in bits => "Start_Park_Position" \in bits'
  BY DEF VgrBadPart, VgrInit, Switch, InitBit, MpoRequestOff, MpoRequest
<1>3. ~BeforeHBW
  BY DEF BeforeHBW
<1>4. NoPositioning' /\ OfferStands' /\ PickUpSeen'
  BY <1>2, <1>3 DEF HandInv, NoPositioning, OfferStands, PickUpSeen, Parked
<1>5. BeltWaits' /\ DiscardSeen' /\ PickUpStands' /\ OrderStands' /\ StorageStands'
  BY <1>1 DEF BeltWaits, DiscardSeen, PickUpStands, OrderStands, StorageStands, Reaching,
              StorageReach, ForOrder, ForStorage
<1> QED
  BY <1>4, <1>5 DEF HandInv

\* The robot's own steps towards and through a handover.
LEMMA VgrOutsourceKeepsHand ==
  ASSUME HandInv, prg = "VGR", prg' = "NFC", VgrOutsource, UNCHANGED <<hbw, cont>>
  PROVE  HandInv'
<1>1. ~Parked /\ NoPositioning /\ bits \cap HandBit \subseteq bits' \cup {"HBW_PickedUp"}
      /\ bits' \cap HandBit \subseteq bits \cup {"HBW_PickedUp"}
  BY DEF HandInv, NoPositioning, Parked, VgrOutsource, VgrRequestOven, VgrSuck, VgrPickedUp, VgrLeaveBelt,
         VgrLowerToOven, VgrReleaseOven, VgrDiscardOven, VgrLeaveOven, VgrOutsourced,
         In, Resets, ResetBit, ModeBit, Switch, HandBit
<1>2. NoPositioning' /\ OfferStands'
  BY <1>1 DEF HandInv, NoPositioning, OfferStands, Parked, HandBit
<1>3. BeltWaits' /\ OrderStands'
  <2>1. \/ vgr' \in Reaching /\ vgr \in Reaching \ {910} /\ {"HBW_PickedUp"} \cap bits \subseteq bits'
        \/ vgr' \notin ForOrder \cup Reaching
    BY DEF VgrOutsource, VgrRequestOven, VgrSuck, VgrPickedUp, VgrLeaveBelt,
         VgrLowerToOven, VgrReleaseOven, VgrDiscardOven, VgrLeaveOven, VgrOutsourced,
         In, Reaching, ForOrder, Switch
  <2>2. vgr' \in ForOrder => vgr \in ForOrder
    BY DEF VgrOutsource, VgrRequestOven, VgrSuck, VgrPickedUp, VgrLeaveBelt,
         VgrLowerToOven, VgrReleaseOven, VgrDiscardOven, VgrLeaveOven, VgrOutsourced,
         In, ForOrder
  <2> QED
    BY <1>1, <2>1, <2>2 DEF HandInv, BeltWaits, OrderStands, Parked, HandBit
<1>4. DiscardSeen' /\ StorageStands'
  BY DEF VgrOutsource, VgrRequestOven, VgrSuck, VgrPickedUp, VgrLeaveBelt,
         VgrLowerToOven, VgrReleaseOven, VgrDiscardOven, VgrLeaveOven, VgrOutsourced,
         In, DiscardSeen, BeforeHBW, StorageStands, ForStorage, StorageReach
<1>5. PickUpSeen' /\ PickUpStands'
  <2>1. CASE VgrPickedUp /\ vgr' = 485
    <3>1. vgr = 480 /\ "HBW_PickedUp" \in bits'
      BY <2>1 DEF VgrPickedUp, In, Switch
    <3>2. \/ hbw = 190
          \/ hbw = 180 /\ "HBW_Outsource" \in bits
      <4>1. hbw \in {180, 190} /\ bits \cap {"HBW_Outsource", "HBW_PickedUp"} # {}
        BY <1>1, <3>1 DEF HandInv, BeltWaits, OrderStands, Reaching, ForOrder
      <4> QED
        BY <1>1, <4>1 DEF HandInv, PickUpSeen, BeforeHBW
    <3> QED
      BY <1>1, <3>1, <3>2 DEF PickUpSeen, PickUpStands, BeforeHBW, HandBit
  <2>2. CASE ~ (VgrPickedUp /\ vgr' = 485)
    <3>1. /\ {"HBW_PickedUp"} \cap bits' \subseteq bits
          /\ vgr' \in {485, 500} => vgr' = vgr /\ bits' = bits
      BY <2>2 DEF VgrOutsource, VgrRequestOven, VgrSuck, VgrPickedUp, VgrLeaveBelt,
         VgrLowerToOven, VgrReleaseOven, VgrDiscardOven, VgrLeaveOven, VgrOutsourced,
         In, Switch
    <3> QED
      BY <1>1, <3>1 DEF HandInv, PickUpSeen, PickUpStands, BeforeHBW, Parked, HandBit
  <2> QED  BY <2>1, <2>2
<1> QED
  BY <1>2, <1>3, <1>4, <1>5 DEF HandInv

\* The same for the steps of a storage.
LEMMA VgrStoreKeepsHand ==
  ASSUME HandInv, prg = "VGR", prg' = "NFC", VgrStore, UNCHANGED <<hbw, cont>>
  PROVE  HandInv'
<1>1. /\ ~Parked /\ NoPositioning
      /\ bits \cap HandBit \subseteq bits' \cup {"HBW_Discards", "HBW_Storage"}
      /\ bits' \cap HandBit \subseteq bits \cup {"HBW_Discards"}
  BY DEF HandInv, NoPositioning, Parked, VgrStore, VgrTakeDelivered, VgrMeasureColour,
         VgrRelease, VgrDiscardBelt, VgrStored, In, Resets, ResetBit, ModeBit, Switch, HandBit
<1>2. NoPositioning' /\ OfferStands' /\ PickUpSeen'
  BY <1>1 DEF HandInv, NoPositioning, OfferStands, PickUpSeen, BeforeHBW, Parked, HandBit
<1>3. \/ /\ vgr \in Reaching => vgr' \in Reaching
         /\ vgr' \in Reaching => vgr \in Reaching
         /\ vgr' \in ForStorage => vgr \in ForStorage
         /\ bits \cap HandBit \subseteq bits'
      \/ vgr' \in {0, 920}
  BY DEF VgrStore, VgrTakeDelivered, VgrMeasureColour, VgrRelease, VgrDiscardBelt, VgrStored,
         In, Switch, Reaching, ForStorage, HandBit
<1>4. BeltWaits' /\ StorageStands'
  BY <1>1, <1>3 DEF HandInv, BeltWaits, StorageStands, Reaching, ForStorage, Parked, HandBit
<1>5. DiscardSeen' /\ OrderStands' /\ PickUpStands'
  BY DEF VgrStore, VgrTakeDelivered, VgrMeasureColour, VgrRelease, VgrDiscardBelt, VgrStored,
         DiscardSeen, BeforeHBW, OrderStands, PickUpStands, ForOrder
<1> QED
  BY <1>2, <1>4, <1>5 DEF HandInv

\* Motions, homing, the choice of the next job, the reader, finished and bad
\* parts, and the two looks at x_HBW_Container_Available.
LEMMA VgrRestKeepsHand ==
  ASSUME HandInv, prg = "VGR", prg' = "NFC", UNCHANGED <<hbw, cont>>,
         VgrMove \/ VgrHome \/ VgrDispatch \/ VgrNfc \/ VgrMeetContainer \/ VgrFinished \/ VgrBad
  PROVE  HandInv'
<1> DEFINE Lowered == {"HBW_Discards", "HBW_PickedUp"}
<1>1. ~Parked
  BY DEF Parked, VgrMove, VgrHome, VgrDispatch, VgrDispatchBad, VgrDispatchFinished,
         VgrDispatchOutsource, VgrDispatchStore, VgrIdle, Dispatch, VgrNfc, NfcRequest,
         VgrMeetContainer, VgrFinished, VgrTakeFinished, VgrToShelf, VgrShip,
         VgrBad, VgrReject, VgrDropBad, VgrRejected, In, Resets, ResetBit, ModeBit
<1>2. /\ bits' \cap HandBit \subseteq bits \cup {"HBW_Storage", "HBW_Discards"}
      /\ bits \cap HandBit \subseteq bits' \cup Lowered
  <2>1. CASE VgrMove \/ VgrHome \/ VgrNfc \/ VgrMeetContainer \/ VgrFinished
    BY <2>1 DEF VgrMove, vgrShared, VgrHome, VgrNfc, NfcRequest, VgrMeetContainer, VgrFinished,
                VgrTakeFinished, VgrToShelf, VgrShip, Switch, HandBit
  <2>2. CASE VgrDispatch
    BY <2>2 DEF VgrDispatch, VgrDispatchBad, VgrDispatchFinished, VgrDispatchOutsource,
                VgrDispatchStore, VgrIdle, Switch, Unready, HandBit
  <2>3. CASE VgrBad
    BY <2>3 DEF VgrBad, VgrReject, VgrDropBad, VgrRejected, Switch, HbwAccepted, HandBit
  <2> QED  BY <2>1, <2>2, <2>3
<1>3. NoPositioning' /\ OfferStands' /\ PickUpSeen'
  BY <1>1, <1>2 DEF HandInv, NoPositioning, OfferStands, PickUpSeen, BeforeHBW, Parked, HandBit
<1>4. DiscardSeen'
  BY DEF DiscardSeen, BeforeHBW
<1>5. CASE VgrMove
  <2>1. /\ bits' = bits
        /\ vgr' \in Reaching => vgr \in Reaching
        /\ vgr' \in ForOrder => vgr \in ForOrder
        /\ vgr' \in ForStorage => vgr \in ForStorage
        /\ vgr' \in {485, 500} => vgr \in {485, 500}
    BY <1>5 DEF VgrMove, vgrShared, FinishedMotion, OutsourceMotion, StoreMotion, RejectMotion,
                In, Reaching, ForOrder, ForStorage
  <2> QED
    BY <1>1, <1>3, <1>4, <2>1 DEF HandInv, BeltWaits, PickUpStands, OrderStands, StorageStands, Parked
<1>6. CASE VgrDispatch
  <2>1. \/ vgr' \in {70, 100, 1200}
        \/ vgr' = 400 /\ "HBW_Outsource" \in bits'
        \/ vgr' = 600 /\ "HBW_Storage" \in bits'
    BY <1>6 DEF VgrDispatch, VgrDispatchBad, VgrDispatchFinished, VgrDispatchOutsource,
                VgrDispatchStore, VgrIdle, Dispatch, Switch, Ordered
  <2> QED
    BY <1>3, <1>4, <2>1 DEF HandInv, BeltWaits, PickUpStands, OrderStands, StorageStands,
                            Reaching, ForOrder, ForStorage
<1>7. CASE VgrNfc \/ VgrMeetContainer
  <2>1. \/ vgr' \in {230, 240}
        \/ {vgr, vgr'} \subseteq {700, 710, 810, 820, 880}
        \/ vgr = 440 /\ vgr' = 440
        \/ <<vgr, vgr'>> \in {<<440, 450>>, <<880, 890>>} /\ "Container_Available" \in bits
    BY <1>7 DEF VgrNfc, NfcRequest, VgrMeetContainer, ContainerThere, In
  <2>2. /\ "HBW_Storage" \in bits => "HBW_Storage" \in bits'
        /\ {"HBW_Outsource", "HBW_PickedUp"} \cap bits \subseteq bits'
    BY <1>7 DEF VgrNfc, NfcRequest, VgrMeetContainer, vgrShared, Switch
  <2>3. "Container_Available" \in bits => cont' = "outside" /\ hbw' = 180
    BY <1>1 DEF HandInv, OfferStands
  <2>4. BeltWaits' /\ PickUpStands'
    BY <2>1, <2>3 DEF BeltWaits, PickUpStands, Reaching
  <2>5. OrderStands' /\ StorageStands'
    BY <2>1, <2>2 DEF HandInv, OrderStands, StorageStands, ForOrder, ForStorage
  <2> QED
    BY <1>3, <1>4, <2>4, <2>5 DEF HandInv
<1>8. CASE VgrHome \/ VgrFinished \/ VgrBad
  <2>1. vgr' \in {0, 10, 70, 150, 160, 270, 280, 290, 310, 1201, 1210, 1280}
    BY <1>8 DEF VgrHome, VgrFinished, VgrTakeFinished, VgrToShelf, VgrShip, VgrBad, VgrReject,
                VgrDropBad, VgrRejected, In
  <2> QED
    BY <1>3, <1>4, <2>1 DEF HandInv, BeltWaits, PickUpStands, OrderStands, StorageStands,
                            Reaching, ForOrder, ForStorage
<1> QED
  BY <1>5, <1>6, <1>7, <1>8

\* One call of PRG_VGR_Ablauf.
LEMMA VgrKeepsHand ==
  ASSUME HandInv, Call("VGR", VGRProgram)
  PROVE  HandInv'
<1>1. prg = "VGR" /\ prg' = "NFC" /\ UNCHANGED <<hbw, cont>>
  BY DEF Call, Successor, VGRProgram
<1> QED
  BY <1>1, VgrResetKeepsHand, VgrOutsourceKeepsHand, VgrStoreKeepsHand, VgrRestKeepsHand
     DEF Call, VGRProgram

-----------------------------------------------------------------------------
\* The warehouse when the setup stops it, or before it offers the container.
LEMMA HbwMovesKeepHand ==
  ASSUME HandInv, prg' = "MPO", vgr' = vgr,
         HbwInit \/ HbwMove \/ HbwDecide \/ HbwFindFree \/ HbwFindOrdered \/ HbwFetch
         \/ HbwReturn \/ HbwDone
  PROVE  HandInv'
<1>1. bits' \cap HandBit = bits \cap HandBit
  BY DEF HbwInit, HbwMove, HbwDecide, HbwFindFree, HbwFindOrdered, HbwFetch, HbwReturn, HbwDone,
         HbwSwitch, Switch, CleanRequest, HandBit
<1>2. CASE "Start_Park_Position" \in bits
  <2>1. HbwInit
    BY <1>2 DEF HbwInit, HbwMove, HbwDecide, HbwFindFree, HbwFindOrdered, HbwFetch, HbwReturn,
                HbwDone, Hbw, Stopped
  <2>2. Parked' /\ cont' = cont
    BY <1>1, <1>2, <2>1 DEF HbwInit, Stopped, Parked, HandBit
  <2> QED
    BY <1>1, <2>2 DEF HandInv, NoPositioning, OfferStands, BeltWaits, PickUpSeen, DiscardSeen,
            PickUpStands, OrderStands, StorageStands, Parked, HandBit
<1>3. CASE "Start_Park_Position" \notin bits
  <2>1. hbw \notin {180, 190} /\ hbw' \notin {180, 190} /\ ~Parked
    <3>1. ~Stopped /\ ~Parked
      BY <1>3 DEF HandInv, NoPositioning, Stopped, Parked
    <3>2. CASE HbwMove
      BY <3>1, <3>2 DEF HbwMove, HbwMotion, Hbw
    <3>3. CASE HbwInit \/ HbwDecide
      BY <3>1, <3>3 DEF HbwInit, HbwDecide, Hbw
    <3>7. CASE HbwFindFree \/ HbwFindOrdered
      BY <3>1, <3>7 DEF HbwFindFree, HbwFindOrdered, Hbw
    <3>4. CASE HbwFetch
      <4>1. hbw = 100 /\ (hbw' = 100 \/ hbw' = 110)
        BY <3>4 DEF HbwFetch, Hbw
      <4> QED  BY <3>1, <4>1
    <3>5. CASE HbwReturn
      BY <3>1, <3>5 DEF HbwReturn, Hbw
    <3>6. CASE HbwDone
      BY <3>1, <3>6 DEF HbwDone, Hbw
    <3> QED
      BY <3>2, <3>3, <3>4, <3>5, <3>6, <3>7
  <2>2. /\ {"Container_Available", "HBW_PickedUp"} \cap bits' = {}
        /\ vgr' \notin Reaching
    BY <1>1, <2>1 DEF HandInv, OfferStands, BeltWaits, PickUpSeen, HandBit
  <2> QED
    BY <1>1, <2>1, <2>2 DEF HandInv, NoPositioning, OfferStands, BeltWaits, PickUpSeen,
            DiscardSeen, PickUpStands, OrderStands, StorageStands, HandBit
<1> QED
  BY <1>2, <1>3

\* The warehouse offers the container, takes the report and takes it back.
LEMMA HbwMeetsKeepHand ==
  ASSUME HandInv, prg = "HBW", prg' = "MPO", vgr' = vgr, HbwOffer \/ HbwHandOver \/ HbwTakeBack
  PROVE  HandInv'
<1>1. /\ bits' \cap HandBit \subseteq bits \cup {"Container_Available"}
      /\ bits \cap HandBit \subseteq bits' \cup {"Container_Available"}
  BY DEF HbwOffer, HbwHandOver, HbwTakeBack, HbwSwitch, Switch, CleanRequest, HandBit
<1>2. ~Parked /\ NoPositioning'
  BY <1>1 DEF HandInv, NoPositioning, HbwOffer, HbwHandOver, HbwTakeBack, Hbw, Parked, HandBit
<1>3. PickUpStands' /\ OrderStands' /\ StorageStands'
  BY <1>1 DEF HandInv, PickUpStands, OrderStands, StorageStands, HandBit
<1>4. CASE HbwOffer
  <2>1. hbw = 170 /\ vgr' \notin Reaching /\ "HBW_PickedUp" \notin bits'
    BY <1>1, <1>2, <1>4 DEF HandInv, HbwOffer, Hbw, BeltWaits, PickUpSeen, HandBit
  <2>2. "Container_Available" \in bits' => hbw' = 180 /\ cont' = "outside"
    BY <1>2, <1>4, <2>1 DEF HandInv, OfferStands, HbwOffer, HbwSwitch, Switch
  <2>3. OfferStands' /\ BeltWaits' /\ PickUpSeen' /\ DiscardSeen'
    BY <2>1, <2>2 DEF OfferStands, BeltWaits, PickUpSeen, DiscardSeen, Reaching, StorageReach
  <2> QED  BY <1>2, <1>3, <2>3 DEF HandInv
<1>5. CASE HbwHandOver /\ hbw' = 190
  <2>1. /\ bits' \cap {"HBW_Discards", "HBW_PickedUp"} # {} /\ "Container_Available" \notin bits'
    BY <1>1, <1>5 DEF HbwHandOver, Hbw, PickedUp, Discarded, HbwSwitch, Switch, HandBit
  <2>2. cont' = cont /\ hbw = 180
    BY <1>5 DEF HbwHandOver, Hbw
  <2>3. OfferStands' /\ BeltWaits' /\ PickUpSeen' /\ DiscardSeen'
    BY <1>5, <1>2, <2>1, <2>2 DEF HandInv, OfferStands, BeltWaits, PickUpSeen, DiscardSeen
  <2> QED  BY <1>2, <1>3, <2>3 DEF HandInv
<1>6. CASE HbwHandOver /\ hbw' # 190
  <2>1. /\ hbw = 180 /\ hbw' = 180 /\ cont' = cont /\ ~PickedUp /\ ~Discarded
        /\ "Container_Available" \in bits' => "Container_Available" \in bits
    BY <1>6 DEF HbwHandOver, Hbw, HbwSwitch, Switch
  <2>2. "HBW_PickedUp" \notin bits
    BY <1>2, <2>1 DEF HandInv, PickUpSeen, PickedUp
  <2>3. "HBW_Discards" \in bits => vgr \notin StorageReach
    BY <2>1 DEF HandInv, StorageStands, StorageReach, ForStorage, Discarded
  <2>4. OfferStands' /\ BeltWaits' /\ PickUpSeen' /\ DiscardSeen'
    BY <1>1, <1>2, <2>1, <2>2, <2>3 DEF HandInv, OfferStands, BeltWaits, PickUpSeen, DiscardSeen,
                           HandBit
  <2> QED  BY <1>2, <1>3, <2>4 DEF HandInv
<1>7. CASE HbwTakeBack
  <2>1. hbw = 190 /\ "Container_Available" \notin bits'
    BY <1>2, <1>7 DEF HandInv, OfferStands, HbwTakeBack, Hbw, HbwSwitch, Switch
  <2>2. \/ hbw' = 190 /\ cont' = cont
        \/ hbw' = 200 /\ bits \cap {"HBW_Discards", "HBW_PickedUp"} = {}
    BY <1>7 DEF HbwTakeBack, Withdrawn
  <2>3. OfferStands' /\ BeltWaits' /\ PickUpSeen' /\ DiscardSeen'
    BY <1>1, <1>2, <2>1, <2>2 DEF HandInv, OfferStands, BeltWaits, PickUpSeen, DiscardSeen, HandBit
  <2> QED  BY <1>2, <1>3, <2>3 DEF HandInv
<1> QED
  BY <1>4, <1>5, <1>6, <1>7

\* One call of PRG_HBW_Ablauf.
LEMMA HbwKeepsHand ==
  ASSUME HandInv, HbwMayFail = FALSE, Call("HBW", HBWProgram)
  PROVE  HandInv'
<1>1. prg = "HBW" /\ prg' = "MPO" /\ vgr' = vgr /\ ~HbwTimeout
  BY DEF Call, Successor, HBWProgram, HbwTimeout
<1> QED
  BY <1>1, HbwMovesKeepHand, HbwMeetsKeepHand DEF Call, HBWProgram

-----------------------------------------------------------------------------
\* PRG_Order withdraws an order only after the pick-up has been reported.
LEMMA OrderKeepsHand ==
  ASSUME HandInv, prg = "Order", prg' = "Ack", OrderProgram
  PROVE  HandInv'
<1>1. UNCHANGED <<vgr, hbw, cont>> /\ ~BeforeHBW
  BY DEF OrderProgram, BeforeHBW
<1>2. /\ bits' \cap HandBit \subseteq bits \cup {"HBW_Outsource"}
      /\ bits \cap HandBit \subseteq bits' \cup {"HBW_Outsource"}
      /\ {"HBW_Outsource"} \cap bits \subseteq bits' \/ "HBW_PickedUp" \in bits
  BY DEF OrderProgram, OrderInit, OrderTake, OrderClear, PickedUpOrDropped, Switch, HandBit
<1>3. NoPositioning' /\ OfferStands' /\ BeltWaits'
  BY <1>1, <1>2 DEF HandInv, NoPositioning, OfferStands, BeltWaits, Parked, HandBit
<1>4. PickUpSeen' /\ DiscardSeen'
  BY <1>1, <1>2 DEF HandInv, PickUpSeen, DiscardSeen, Parked, HandBit
<1>5. PickUpStands' /\ OrderStands' /\ StorageStands'
  BY <1>1, <1>2 DEF HandInv, PickUpStands, OrderStands, StorageStands, HandBit
<1> QED
  BY <1>3, <1>4, <1>5 DEF HandInv

\* The programs that have no part in the handover.
LEMMA RestKeepsHand ==
  ASSUME HandInv, "Set_Pos_Activ" \notin Modes,
         \/ Call("NFC", NFCProgram) \/ Call("MPO", MPOProgram) \/ Call("SLD", SLDProgram)
         \/ Call("DSO", DSOProgram) \/ Call("Ack", AckProgram)
  PROVE  HandInv'
<1>1. UNCHANGED <<vgr, hbw, cont>>
  BY DEF Call, NFCProgram, MPOProgram, SLDProgram, DSOProgram, AckProgram
<1>2. BeforeHBW => BeforeHBW'
  BY DEF Call, BeforeHBW, Successor
<1>3. bits' \cap HandBit = bits \cap HandBit
  <2>1. CASE NFCProgram
    BY <2>1 DEF NFCProgram, NfcStart, NfcDeleted, NfcWritten, NfcTimeout, NfcCompleted, Switch,
                HandBit
  <2>2. CASE MPOProgram
    BY <2>2 DEF MPOProgram, MpoInit, MpoMove, MpoAwaitRequest, MpoOpen, MpoAccept, MpoNoPart,
                MpoRetract, MpoPassOn, MpoLostPart, Switch, HandBit
  <2>3. CASE SLDProgram
    BY <2>3 DEF SLDProgram, SldInit, SldMove, SldInlet, SldMeasure, SldTimeout, SldEject, Switch,
                HandBit
  <2>4. CASE DSOProgram \/ AckProgram
    BY <2>4 DEF DSOProgram, AckProgram, Shelf, TimerStart, Switch, HandBit
  <2> QED
    BY <2>1, <2>2, <2>3, <2>4 DEF Call
<1> QED
  BY <1>1, <1>2, <1>3, OthersKeepHand

\* The operator may park the factory, and that is for good.
LEMMA PeopleKeepHand ==
  ASSUME HandInv, "Set_Pos_Activ" \notin Modes, Call("IO", People)
  PROVE  HandInv'
<1>1. UNCHANGED <<vgr, hbw, cont>> /\ ~BeforeHBW
  BY DEF Call, People, BeforeHBW
<1>2. /\ bits' \cap HandBit \subseteq (bits \cap HandBit) \cup {"Start_Park_Position"}
      /\ bits \cap HandBit \subseteq bits'
  <2>1. bits' = bits \/ \E m \in Modes : Toggle(m)
    BY DEF Call, People, Deliver, Take, PressOrder
  <2>2. ASSUME NEW m \in Modes, Toggle(m)
        PROVE  <1>2
    <3>1. m \in SetupBit \ {"Set_Pos_Activ"}
      BY PeopleAssumption
    <3> QED
      BY <2>2, <3>1 DEF Toggle, SetupBit, ModeBit, HandBit
  <2> QED
    BY <2>1, <2>2
<1>3. NoPositioning' /\ OfferStands' /\ BeltWaits'
  BY <1>1, <1>2 DEF HandInv, NoPositioning, OfferStands, BeltWaits, Parked, HandBit
<1>4. PickUpSeen' /\ DiscardSeen'
  BY <1>1, <1>2 DEF HandInv, PickUpSeen, DiscardSeen, Parked, HandBit
<1>5. PickUpStands' /\ OrderStands' /\ StorageStands'
  BY <1>1, <1>2 DEF HandInv, PickUpStands, OrderStands, StorageStands, HandBit
<1> QED
  BY <1>3, <1>4, <1>5 DEF HandInv

\* A scan-by-scan agreement of robot and warehouse, kept by every step of the
\* factory, restarts included.
LEMMA HandKept ==
  ASSUME HbwMayFail = FALSE, "Set_Pos_Activ" \notin Modes, HandInv, [Next]_allVars
  PROVE  HandInv'
<1>1. CASE UNCHANGED allVars
  BY <1>1, OthersKeepHand DEF allVars, vars, BeforeHBW
<1>2. CASE Restart
  <2>1. bits' \cap HandBit = {} /\ vgr' = 0
    BY <1>2 DEF Restart, Retained, HandBit
  <2> QED
    BY <2>1 DEF HandInv, NoPositioning, OfferStands, BeltWaits, PickUpSeen, DiscardSeen,
            PickUpStands, OrderStands, StorageStands, Reaching, StorageReach, ForOrder,
            ForStorage, HandBit
<1>3. CASE Call("Order", OrderProgram)
  BY <1>3, OrderKeepsHand DEF Call, Successor
<1> QED
  BY <1>1, <1>2, <1>3, VgrKeepsHand, HbwKeepsHand, RestKeepsHand, PeopleKeepHand DEF Next

\* At the start nothing is offered and nothing reported.
LEMMA HandAtStart == Init => HandInv
<1> SUFFICES ASSUME bits = {}, vgr = 0 PROVE HandInv
  BY DEF Init
<1> QED
  BY DEF HandInv, NoPositioning, OfferStands, BeltWaits, PickUpSeen, DiscardSeen, PickUpStands,
         OrderStands, StorageStands, Reaching, StorageReach, ForOrder, ForStorage

\* However the oven, the reader and the sorting line fail, however often the
\* robot is reset or the power lost, and whatever the customer orders: while
\* the gripper goes down to the warehouse belt a container stands under it.
\* Only a failing motion of the warehouse (4934) or positioning (4464) may
\* leave x_HBW_Container_Available TRUE over an empty belt.
THEOREM MeetsContainer ==
  ASSUME HbwMayFail = FALSE, "Set_Pos_Activ" \notin Modes
  PROVE  Spec => []GripperMeetsContainer
<1>1. HandInv => GripperMeetsContainer
  BY DEF HandInv, BeltWaits, GripperMeetsContainer, Reaching
<1> QED
  BY <1>1, HandAtStart, HandKept, PTL DEF Spec

\* Only step 500 and step 910 withdraw the reports, and only while nothing
\* resets the robot.
LEMMA WithdrawalSteps ==
  ASSUME VGRProgram, <<vgr, vgr'>> \in {<<500, 510>>, <<910, 920>>}
  PROVE  ~Resets /\ (vgr = 910 => "HBW_Discards" \in bits)
<1>1. ~VgrBadPart /\ ~VgrInit /\ ~VgrHome
  BY DEF VgrBadPart, BadPartStep, VgrInit, VgrHome
<1>2. ~VgrMove
  BY DEF VgrMove, FinishedMotion, OutsourceMotion, StoreMotion, RejectMotion, In
<1>3. ~VgrDispatch /\ ~VgrNfc /\ ~VgrMeetContainer
  BY DEF VgrDispatch, VgrDispatchBad, VgrDispatchFinished, VgrDispatchOutsource, VgrDispatchStore,
         VgrIdle, Dispatch, VgrNfc, NfcRequest, VgrMeetContainer, In
<1>4. ~VgrFinished /\ ~VgrBad
  BY DEF VgrFinished, VgrTakeFinished, VgrToShelf, VgrShip, VgrBad, VgrReject, VgrDropBad,
         VgrRejected, In
<1>5. CASE VgrOutsource
  <2>1. vgr = 500 /\ VgrLeaveBelt
    BY <1>5 DEF VgrOutsource, VgrRequestOven, VgrSuck, VgrPickedUp, VgrLeaveBelt, VgrLowerToOven,
                VgrReleaseOven, VgrDiscardOven, VgrLeaveOven, VgrOutsourced, In
  <2> QED  BY <2>1 DEF VgrLeaveBelt, In
<1>6. CASE VgrStore
  BY <1>6 DEF VgrStore, VgrTakeDelivered, VgrMeasureColour, VgrRelease, VgrDiscardBelt, VgrStored, In
<1> QED
  BY <1>1, <1>2, <1>3, <1>4, <1>5, <1>6 DEF VGRProgram

\* The robot lowers x_HBW_PickedUp and x_HBW_Discards only in front of the
\* warehouse's step 190, so no report is withdrawn before it has been read.
THEOREM NoticedBeforeWithdrawn ==
  ASSUME HbwMayFail = FALSE, "Set_Pos_Activ" \notin Modes
  PROVE  Spec => ReportsNoticed
<1> DEFINE Withdraws == (vgr = 500 /\ vgr' = 510) \/ (vgr = 910 /\ vgr' = 920)
<1>1. ASSUME HandInv, [Next]_allVars, Withdraws PROVE hbw = 190
  <2>1. prg = "VGR" /\ VGRProgram
    <3>1. vgr' # vgr /\ vgr' # 0
      BY <1>1
    <3> QED
      BY <1>1, <3>1 DEF allVars, vars, Next, Restart, Call, People, NFCProgram, HBWProgram,
         MPOProgram, SLDProgram, DSOProgram, OrderProgram, AckProgram
  <2>2. ~Parked /\ ~BeforeHBW /\ (vgr = 910 => "HBW_Discards" \in bits)
    BY <1>1, <2>1, WithdrawalSteps DEF Parked, BeforeHBW, Resets, ResetBit, ModeBit
  <2>3. CASE vgr = 500
    BY <1>1, <2>2, <2>3 DEF HandInv, PickUpStands, PickUpSeen
  <2>4. CASE vgr = 910
    BY <1>1, <2>2, <2>4 DEF HandInv, BeltWaits, DiscardSeen, Reaching, StorageReach
  <2> QED  BY <1>1, <2>3, <2>4
<1>2. HandInv /\ [Next]_allVars => [Withdraws => hbw = 190]_allVars
  BY <1>1
<1> QED
  BY <1>2, HandAtStart, HandKept, PTL DEF Spec, ReportsNoticed

-----------------------------------------------------------------------------
(* The records of the rack and the workpieces that are delivered: whatever *)
(* is rejected, cleared or interrupted, a workpiece on its way to the rack *)
(* is in none of its records.                                              *)

\* The steps in which the gripper holds a finished workpiece, one for an
\* order, and one for the rack; those in which the container goes back.
HoldFinished == {160, 230, 240, 270, 280, 290}
HoldOrder == {480, 485, 500, 510, 520, 530}
HoldStore == {650, 700, 710, 750, 760, 810, 820, 880, 890, 900}
Returning == {190, 200, 210, 250}

\* Robot and reader.
ReaderTalk ==
  /\ "NFC_Start_First" \in bits => vgr = 700
  /\ "NFC_Start" \in bits => vgr \in {230, 810}
  /\ "NFC_Completed" \in bits => nfc = 80
  /\ nfc = 20 => vgr = 700
  /\ nfc = 50 => vgr \in {230, 700, 810}
  /\ nfc = 80 => vgr \in {230, 700, 810} \/ prg = "NFC"

\* Nothing resets the robot alone.
NoReset == bits \cap ResetBit = {}

\* A workpiece that the reader refuses is refused while the robot holds it over
\* the reader, and until it is out of the way the reader rests.
Refusal ==
  /\ "Workpiece_NiO" \in bits => nfc = 0
  /\ NiOEdge => vgr \in {230, 700, 810}

\* The robot reports to the warehouse at the belt, and from the reject procedure.
Rejecting == {1201, 1210, 1270, 1280}
BeltReports ==
  /\ "HBW_PickedUp" \in bits => vgr \in {485, 500}
  /\ "HBW_Discards" \in bits => vgr = 910 \/ vgr \in Rejecting

\* One workpiece lies on the input shelf, and one is in the gripper that stores it.
Holding == HoldFinished \cup HoldOrder \cup HoldStore \cup {1200, 1201, 1210, 1270}
OneByOne ==
  /\ \A p, q \in Held("DSI") : p = q
  /\ vgr \in HoldStore => \A p, q \in Held("gripper") : p = q
  /\ vgr \notin Holding => Held("gripper") = {}

\* A workpiece on its way in is in no record of the rack, nor in the record
\* that goes to the rack with the container.
Fresh(p) == at[p] \in {"outside", "DSI"} \/ (at[p] = "gripper" /\ vgr \in HoldStore)
Unlisted(p) == \A s \in Slot : rack[s].id # p
Underway(p) == "lx_Storage" \in bits /\ hbw \in Returning /\ wp["HBW"].id = p
FreshUnlisted == \A p \in Piece : Fresh(p) => Unlisted(p) /\ ~Underway(p)

\* The robot's record from the reading of the tag until the report to the
\* warehouse, and the warehouse's from then on.
Tagged == {710, 750, 760, 810, 820, 880, 890, 900}
RecordRead == vgr \in Tagged \/ (vgr = 700 /\ nfc \in {50, 80})
HandRecord ==
  /\ RecordRead => wp["VGR"].id \in Held("gripper")
  /\ vgr \in {760, 810, 820, 880, 890, 900, 910} /\ wp["VGR"].id \in Piece =>
       wp["VGR"].type = ColourOf[wp["VGR"].id]
DropRecord ==
  vgr = 910 /\ wp["VGR"].id \in Piece =>
    /\ Unlisted(wp["VGR"].id) /\ ~Fresh(wp["VGR"].id)
    /\ Underway(wp["VGR"].id) => hbw = 190 /\ "HBW_Discards" \in bits
BadDeleted == vgr \in Rejecting => wp["VGR"].id \notin Piece
ReturnRecord ==
  wp["HBW"].id \in Piece /\ Underway(wp["HBW"].id) =>
    Unlisted(wp["HBW"].id) /\ wp["HBW"].type = ColourOf[wp["HBW"].id]
RecordInv ==
  /\ NoReset /\ ReaderTalk /\ Refusal /\ BeltReports /\ OneByOne /\ FreshUnlisted
  /\ HandRecord /\ DropRecord /\ BadDeleted /\ ReturnRecord /\ RecordsUnique

-----------------------------------------------------------------------------
\* What one call of the robot's program does to its bits, unless it is reset.
LEMMA VgrBitsKept ==
  ASSUME NoReset, ReaderTalk, Refusal, BeltReports, VGRProgram, prg = "VGR", prg' = "NFC"
  PROVE  NoReset' /\ ReaderTalk' /\ Refusal' /\ BeltReports'
<1>0. ~Resets /\ MpoRequestOff = {}
  BY DEF NoReset, Resets, ResetBit, MpoRequestOff
<1>1. NoReset'
  BY VgrRaises DEF NoReset, ResetBit, ModeBit, VgrBit
<1>2. nfc' = nfc /\ (nfc = 80 => vgr \in {230, 700, 810})
  BY DEF VGRProgram, ReaderTalk
<1> SUFFICES ReaderTalk' /\ Refusal' /\ BeltReports'
  BY <1>1
<1> USE <1>0, <1>2 DEF ReaderTalk, Refusal, BeltReports, Rejecting, Switch, In, NiOEdge
<1>a. CASE VgrBadPart
  BY <1>a DEF VgrBadPart, BadPartStep
<1>b. CASE VgrInit
  BY <1>b DEF VgrInit, InitBit
<1>c. CASE VgrMove
  BY <1>c DEF VgrMove, vgrShared, FinishedMotion, OutsourceMotion, StoreMotion, RejectMotion
<1>d. CASE VgrHome
  BY <1>d DEF VgrHome
<1>e. CASE VgrDispatch
  BY <1>e DEF VgrDispatch, VgrDispatchBad, VgrDispatchFinished, VgrDispatchOutsource,
              VgrDispatchStore, VgrIdle, Dispatch, Unready
<1>f. CASE VgrNfc
  BY <1>f DEF VgrNfc, NfcRequest
<1>g. CASE VgrMeetContainer
  BY <1>g DEF VgrMeetContainer, vgrShared
<1>h. CASE VgrFinished
  BY <1>h DEF VgrFinished, VgrTakeFinished, VgrToShelf, VgrShip, vgrShared
<1>i. CASE VgrOutsource
  BY <1>i DEF VgrOutsource, VgrRequestOven, VgrSuck, VgrPickedUp, VgrLeaveBelt,
              VgrLowerToOven, VgrReleaseOven, VgrDiscardOven, VgrLeaveOven, VgrOutsourced
<1>j. CASE VgrStore
  BY <1>j DEF VgrStore, VgrTakeDelivered, VgrMeasureColour, VgrRelease, VgrDiscardBelt, VgrStored
<1>k. CASE VgrBad
  BY <1>k DEF VgrBad, VgrReject, VgrDropBad, VgrRejected, HbwAccepted
<1> QED
  BY <1>a, <1>b, <1>c, <1>d, <1>e, <1>f, <1>g, <1>h, <1>i, <1>j, <1>k DEF VGRProgram

\* The steps that store a workpiece follow each other.
StoreRoute ==
  {<<640, 650>>, <<650, 650>>, <<650, 700>>, <<700, 700>>, <<700, 710>>, <<710, 710>>,
   <<710, 750>>, <<750, 750>>, <<750, 760>>, <<760, 760>>, <<760, 810>>, <<810, 810>>,
   <<810, 820>>, <<820, 820>>, <<820, 880>>, <<880, 880>>, <<880, 890>>, <<890, 890>>,
   <<890, 900>>, <<900, 910>>, <<910, 910>>}

\* A call that ends in one of them has taken one of these steps.
LEMMA VgrStoring ==
  ASSUME VGRProgram, vgr' \in HoldStore \cup {910}
  PROVE  /\ <<vgr, vgr'>> \in StoreRoute
         /\ vgr = 640 => Carry("DSI", "gripper")
         /\ vgr = 900 => Carry("gripper", "belt") \/ Carry("gripper", "lost")
         /\ vgr \notin {640, 900} => at' = at
         /\ vgr = 750 => \E c \in Readable : wp' = [wp EXCEPT !["VGR"].type = c]
         /\ vgr # 750 => wp' = wp
         /\ vgr = 700 /\ vgr' = 710 => "NFC_Completed" \in bits
         /\ vgr = 910 => "HBW_Discards" \in bits'
<1> USE DEF HoldStore, StoreRoute, In, Switch
<1>1. ~VgrBadPart /\ ~VgrInit /\ ~VgrHome
  BY DEF VgrBadPart, BadPartStep, VgrInit, VgrHome
<1>2. ~VgrDispatch /\ ~VgrFinished /\ ~VgrBad
  BY DEF VgrDispatch, VgrDispatchBad, VgrDispatchFinished, VgrDispatchOutsource, VgrDispatchStore,
         VgrIdle, Dispatch, VgrFinished, VgrTakeFinished, VgrToShelf, VgrShip,
         VgrBad, VgrReject, VgrDropBad, VgrRejected
<1>3. ~VgrOutsource
  BY DEF VgrOutsource, VgrRequestOven, VgrSuck, VgrPickedUp, VgrLeaveBelt, VgrLowerToOven,
         VgrReleaseOven, VgrDiscardOven, VgrLeaveOven, VgrOutsourced
<1>4. CASE VgrMove
  BY <1>4 DEF VgrMove, vgrShared, FinishedMotion, OutsourceMotion, StoreMotion, RejectMotion
<1>5. CASE VgrNfc
  BY <1>5 DEF VgrNfc, NfcRequest
<1>6. CASE VgrMeetContainer
  BY <1>6 DEF VgrMeetContainer, vgrShared
<1>7. CASE VgrStore
  BY <1>7 DEF VgrStore, VgrTakeDelivered, VgrMeasureColour, VgrRelease, VgrDiscardBelt, VgrStored
<1> QED
  BY <1>1, <1>2, <1>3, <1>4, <1>5, <1>6, <1>7 DEF VGRProgram

\* What it carries, and from which steps to which.
LEMMA VgrHolds ==
  ASSUME TypeOK, VGRProgram
  PROVE  \/ /\ at' = at /\ (vgr' \notin Holding => vgr \notin Holding)
            /\ vgr' \in HoldStore => vgr \in HoldStore
         \/ vgr = 640 /\ vgr' = 650 /\ Carry("DSI", "gripper")
         \/ /\ vgr' \in HoldFinished \cup HoldOrder
            /\ \E from \in Colour \cup {"belt", "none"} : Carry(from, "gripper")
         \/ /\ vgr' \notin HoldStore
            /\ \E to \in {"lost", "DSO", "oven", "belt", "reject"} : Carry("gripper", to)
<1> USE DEF Holding, HoldStore, HoldFinished, HoldOrder, In
<1>a. CASE VgrBadPart
  BY <1>a DEF VgrBadPart, BadPartStep
<1>b. CASE VgrInit
  BY <1>b DEF VgrInit
<1>c. CASE VgrMove
  BY <1>c DEF VgrMove, vgrShared, FinishedMotion, OutsourceMotion, StoreMotion, RejectMotion
<1>d. CASE VgrHome
  BY <1>d DEF VgrHome
<1>e. CASE VgrDispatch
  BY <1>e DEF VgrDispatch, VgrDispatchBad, VgrDispatchFinished, VgrDispatchOutsource,
              VgrDispatchStore, VgrIdle, Dispatch
<1>f. CASE VgrNfc
  BY <1>f DEF VgrNfc, NfcRequest
<1>g. CASE VgrMeetContainer
  BY <1>g DEF VgrMeetContainer, vgrShared
<1>h. CASE VgrFinished
  BY <1>h DEF TypeOK, VgrFinished, VgrTakeFinished, VgrToShelf, VgrShip, vgrShared
<1>i. CASE VgrSuck
  <2>1. CASE at' = at
    BY <1>i, <2>1 DEF VgrSuck
  <2>2. CASE Carry("belt", "belt")
    <3>1. at' = at
      BY <2>2 DEF Carry, TypeOK
    <3> QED  BY <1>i, <3>1 DEF VgrSuck
  <2>3. CASE vgr' = 480 /\ Carry("belt", "gripper")
    BY <2>3
  <2> QED  BY <1>i, <2>1, <2>2, <2>3 DEF VgrSuck
<1>o. CASE VgrOutsource /\ ~VgrSuck
  BY <1>o DEF VgrOutsource, VgrRequestOven, VgrPickedUp, VgrLeaveBelt, VgrLowerToOven,
              VgrReleaseOven, VgrDiscardOven, VgrLeaveOven, VgrOutsourced
<1>j. CASE VgrStore
  BY <1>j DEF VgrStore, VgrTakeDelivered, VgrMeasureColour, VgrRelease, VgrDiscardBelt, VgrStored
<1>k. CASE VgrBad
  BY <1>k DEF VgrBad, VgrReject, VgrDropBad, VgrRejected
<1> QED
  BY <1>a, <1>b, <1>c, <1>d, <1>e, <1>f, <1>g, <1>h, <1>i, <1>o, <1>j, <1>k DEF VGRProgram

\* The robot takes one workpiece off the input shelf, and nothing comes in otherwise.
LEMMA VgrOneByOne ==
  ASSUME TypeOK, OneByOne, VGRProgram
  PROVE  OneByOne' /\ \A p \in Piece : Fresh(p)' => Fresh(p)
<1> DEFINE Goal == OneByOne' /\ \A p \in Piece : Fresh(p)' => Fresh(p)
<1>0. "none" \notin Place /\ Slot \cap (Station \cup Colour) = {}
  BY PlantAssumption DEF Place, Station, Colour
<1>1. ASSUME at' = at, vgr' \notin Holding => vgr \notin Holding, vgr' \in HoldStore => vgr \in HoldStore
      PROVE  Goal
  BY <1>1 DEF OneByOne, Fresh, Held
<1>2. ASSUME vgr = 640, vgr' = 650, Carry("DSI", "gripper") PROVE Goal
  <2>1. Held("gripper") = {} /\ vgr' \in HoldStore /\ vgr' \in Holding
    BY <1>2 DEF OneByOne, Holding, HoldStore, HoldFinished, HoldOrder
  <2>2. \A p \in Piece : at[p] # "gripper" /\ at'[p] = IF at[p] = "DSI" THEN "gripper" ELSE at[p]
    BY <1>2, <2>1 DEF Held, Carry
  <2>3. Held("DSI")' = {} /\ Held("gripper")' = Held("DSI")
    BY <2>2 DEF Held
  <2> QED  BY <2>1, <2>2, <2>3 DEF OneByOne, Fresh
<1>3. ASSUME vgr' \in HoldFinished \cup HoldOrder, NEW from \in Colour \cup {"belt", "none"},
             Carry(from, "gripper")
      PROVE  Goal
  <2>1. vgr' \in Holding /\ vgr' \notin HoldStore
    BY <1>3 DEF Holding, HoldStore, HoldFinished, HoldOrder
  <2>2. \A p \in Piece : at'[p] = IF at[p] = from THEN "gripper" ELSE at[p]
    BY <1>3 DEF Carry
  <2>3. from \notin {"outside", "DSI"}
    BY DEF Colour
  <2>4. Held("DSI")' = Held("DSI")
    BY <2>2, <2>3 DEF Held
  <2> QED  BY <2>1, <2>2, <2>3, <2>4 DEF OneByOne, Fresh
<1>4. ASSUME vgr' \notin HoldStore, NEW to \in {"lost", "DSO", "oven", "belt", "reject"},
             Carry("gripper", to)
      PROVE  Goal
  <2>2. \A p \in Piece : at'[p] = IF at[p] = "gripper" THEN to ELSE at[p]
    BY <1>4 DEF Carry
  <2>3. Held("DSI")' = Held("DSI") /\ Held("gripper")' = {}
    BY <2>2 DEF Held
  <2> QED  BY <1>4, <2>2, <2>3 DEF OneByOne, Fresh
<1> QED
  BY <1>1, <1>2, <1>3, <1>4, VgrHolds

\* The robot writes only its own record and those of the stations behind.
LEMMA VgrSpares ==
  ASSUME TypeOK, VGRProgram
  PROVE  wp'["HBW"] = wp["HBW"] /\ ("lx_Storage" \in bits' <=> "lx_Storage" \in bits)
<1>0. wp \in [Register -> Workpiece]
  BY DEF TypeOK
<1> USE <1>0 DEF Register, Switch
<1>a. CASE VgrBadPart \/ VgrInit
  BY <1>a DEF VgrBadPart, VgrInit, InitBit, MpoRequestOff, MpoRequest
<1>c. CASE VgrMove \/ VgrMeetContainer \/ VgrHome
  BY <1>c DEF VgrMove, VgrMeetContainer, VgrHome, vgrShared
<1>e. CASE VgrDispatch
  BY <1>e DEF VgrDispatch, VgrDispatchBad, VgrDispatchFinished, VgrDispatchOutsource,
              VgrDispatchStore, VgrIdle, Dispatch, Unready
<1>f. CASE VgrNfc
  BY <1>f DEF VgrNfc, NfcRequest
<1>h. CASE VgrFinished
  BY <1>h DEF VgrFinished, VgrTakeFinished, VgrToShelf, VgrShip, vgrShared
<1>i. CASE VgrOutsource
  BY <1>i DEF VgrOutsource, VgrRequestOven, VgrSuck, VgrPickedUp, VgrLeaveBelt,
              VgrLowerToOven, VgrReleaseOven, VgrDiscardOven, VgrLeaveOven, VgrOutsourced
<1>m. CASE VgrMeasureColour
  BY <1>m DEF VgrMeasureColour
<1>j. CASE VgrStore /\ ~VgrMeasureColour
  BY <1>j DEF VgrStore, VgrTakeDelivered, VgrRelease, VgrDiscardBelt, VgrStored
<1>k. CASE VgrBad
  BY <1>k DEF VgrBad, VgrReject, VgrDropBad, VgrRejected, HbwAccepted, BadRecord
<1> QED
  BY <1>a, <1>c, <1>e, <1>f, <1>h, <1>i, <1>m, <1>j, <1>k DEF VGRProgram

\* In the reject procedure the robot's record is that of no workpiece.
LEMMA VgrDeletes ==
  ASSUME TypeOK, BadDeleted, VGRProgram
  PROVE  BadDeleted'
<1>0. wp \in [Register -> Workpiece] /\ "0" \notin Piece
  BY PlantAssumption DEF TypeOK
<1>1. CASE VgrReject
  <2>1. wp' = [wp EXCEPT !["VGR"] = NoWorkpiece]
    BY <1>1 DEF VgrReject, BadRecord
  <2>2. wp'["VGR"].id = "0"
    BY <1>0, <2>1 DEF Register, NoWorkpiece
  <2> QED  BY <1>0, <2>2 DEF BadDeleted
<1>2. ASSUME wp' = wp, vgr' \in Rejecting => vgr \in Rejecting PROVE BadDeleted'
  BY <1>2 DEF BadDeleted
<1> USE <1>2 DEF Rejecting, In
<1>3. CASE VgrBadPart \/ VgrInit
  BY <1>3 DEF VgrBadPart, BadPartStep, VgrInit
<1>4. CASE VgrMove
  BY <1>4 DEF VgrMove, vgrShared, FinishedMotion, OutsourceMotion, StoreMotion, RejectMotion
<1>5. CASE VgrHome \/ VgrMeetContainer \/ VgrNfc
  BY <1>5 DEF VgrHome, VgrMeetContainer, vgrShared, VgrNfc, NfcRequest
<1>6. CASE VgrDropBad \/ VgrRejected
  BY <1>6 DEF VgrDropBad, VgrRejected
<1>7. ASSUME vgr' \notin Rejecting PROVE BadDeleted'
  BY <1>7 DEF BadDeleted
<1>8. CASE VgrDispatch
  BY <1>7, <1>8 DEF VgrDispatch, VgrDispatchBad, VgrDispatchFinished, VgrDispatchOutsource,
              VgrDispatchStore, VgrIdle, Dispatch
<1>9. CASE VgrFinished
  BY <1>7, <1>9 DEF VgrFinished, VgrTakeFinished, VgrToShelf, VgrShip
<1>10. CASE VgrOutsource
  BY <1>7, <1>10 DEF VgrOutsource, VgrRequestOven, VgrSuck, VgrPickedUp, VgrLeaveBelt,
              VgrLowerToOven, VgrReleaseOven, VgrDiscardOven, VgrLeaveOven, VgrOutsourced
<1>11. CASE VgrStore
  BY <1>7, <1>11 DEF VgrStore, VgrTakeDelivered, VgrMeasureColour, VgrRelease, VgrDiscardBelt, VgrStored
<1> QED
  BY <1>1, <1>3, <1>4, <1>5, <1>6, <1>8, <1>9, <1>10, <1>11 DEF VGRProgram, VgrBad

\* From the reading of the tag to the belt the robot keeps the record of what it holds.
LEMMA VgrKeepsHandRecord ==
  ASSUME TypeOK, ReaderTalk, OneByOne, FreshUnlisted, HandRecord, DropRecord, VGRProgram, prg = "VGR"
  PROVE  HandRecord' /\ DropRecord'
<1>0. wp \in [Register -> Workpiece] /\ UNCHANGED <<nfc, hbw, rack>> /\ wp["VGR"] \in Workpiece
  BY DEF TypeOK, VGRProgram, Register
<1>1. SUFFICES ASSUME vgr' \in HoldStore \cup {910} PROVE HandRecord' /\ DropRecord'
  BY DEF HandRecord, DropRecord, RecordRead, Tagged, HoldStore
<1>2. <<vgr, vgr'>> \in StoreRoute
  BY <1>1, VgrStoring
<1>3. wp'["VGR"].id = wp["VGR"].id /\ (vgr # 750 => wp' = wp)
  <2>1. CASE vgr = 750
    <3>1. PICK c \in Readable : wp' = [wp EXCEPT !["VGR"].type = c]
      BY <1>1, <2>1, VgrStoring
    <3> QED  BY <1>0, <2>1, <3>1 DEF Register, Workpiece
  <2>2. CASE vgr # 750
    BY <1>1, <2>2, VgrStoring
  <2> QED  BY <2>1, <2>2
<1>4. ASSUME RecordRead' PROVE RecordRead /\ at' = at
  <2>1. vgr' \in Tagged \/ (vgr' = 700 /\ nfc \in {50, 80})
    BY <1>0, <1>4 DEF RecordRead
  <2>2. vgr \notin {640, 650, 900, 910}
    BY <1>2, <2>1 DEF StoreRoute, Tagged, ReaderTalk
  <2>3. at' = at
    BY <1>1, <2>2, VgrStoring
  <2>4. CASE vgr = 700
    <3>1. vgr' \in {700, 710}
      BY <1>2, <2>4 DEF StoreRoute
    <3>2. CASE vgr' = 710
      <4>1. nfc = 80
        BY <1>1, <2>4, <3>2, VgrStoring DEF ReaderTalk
      <4> QED  BY <2>3, <2>4, <4>1 DEF RecordRead
    <3> QED  BY <2>1, <2>3, <2>4, <3>1, <3>2 DEF RecordRead, Tagged
  <2>5. CASE vgr # 700
    BY <1>2, <2>2, <2>3, <2>5 DEF StoreRoute, RecordRead, Tagged
  <2> QED  BY <2>4, <2>5
<1>5. RecordRead' => wp'["VGR"].id \in Held("gripper")'
  BY <1>3, <1>4 DEF HandRecord, Held
<1>6. ASSUME vgr' \in {760, 810, 820, 880, 890, 900, 910}, wp'["VGR"].id \in Piece
      PROVE  wp'["VGR"].type = ColourOf[wp'["VGR"].id]
  <2>1. CASE vgr = 750
    <3>1. PICK c \in Readable : wp' = [wp EXCEPT !["VGR"].type = c]
      BY <1>1, <2>1, VgrStoring
    <3>2. wp["VGR"].id \in Held("gripper") /\ \A p, q \in Held("gripper") : p = q
      BY <2>1 DEF HandRecord, RecordRead, Tagged, OneByOne, HoldStore
    <3>3. c = ColourOf[wp["VGR"].id]
      BY <3>2 DEF Readable
    <3>4. wp'["VGR"].type = c
      BY <1>0, <3>1 DEF Register, Workpiece
    <3> QED  BY <1>3, <3>3, <3>4
  <2>2. CASE vgr # 750
    <3>1. vgr \in {760, 810, 820, 880, 890, 900, 910}
      BY <1>2, <1>6, <2>2 DEF StoreRoute
    <3> QED  BY <1>3, <1>6, <2>2, <3>1 DEF HandRecord
  <2> QED  BY <2>1, <2>2
<1>7. ASSUME vgr' = 910, wp'["VGR"].id \in Piece
      PROVE  /\ Unlisted(wp["VGR"].id) /\ ~Fresh(wp["VGR"].id)'
             /\ Underway(wp["VGR"].id)' => hbw = 190 /\ "HBW_Discards" \in bits'
  <2>0. Underway(wp["VGR"].id)' <=> Underway(wp["VGR"].id)
    BY <1>0, <1>3, VgrSpares DEF Underway
  <2>1. CASE vgr = 900
    <3>1. wp["VGR"].id \in Held("gripper")
      BY <2>1 DEF HandRecord, RecordRead, Tagged
    <3>2. Unlisted(wp["VGR"].id) /\ ~Underway(wp["VGR"].id)
      BY <2>1, <3>1 DEF FreshUnlisted, Fresh, HoldStore, Held
    <3>3. at'[wp["VGR"].id] \in {"belt", "lost"}
      BY <1>1, <2>1, <3>1, VgrStoring DEF Carry, Held
    <3> QED  BY <1>3, <2>0, <3>2, <3>3 DEF Fresh
  <2>2. CASE vgr = 910
    <3>1. wp' = wp /\ at' = at /\ "HBW_Discards" \in bits'
      BY <1>1, <2>2, VgrStoring
    <3> QED  BY <1>7, <2>0, <2>2, <3>1 DEF DropRecord, Fresh
  <2> QED  BY <1>2, <1>7, <2>1, <2>2 DEF StoreRoute
<1>8. DropRecord'
  BY <1>0, <1>3, <1>7 DEF DropRecord, Unlisted, Fresh, Underway
<1> QED
  BY <1>5, <1>6, <1>8 DEF HandRecord

\* The robot keeps the invariant.
LEMMA VgrListsNothing ==
  ASSUME TypeOK, RecordInv, VGRProgram, prg = "VGR", prg' = "NFC"
  PROVE  RecordInv'
<1> USE DEF RecordInv
<1>1. NoReset' /\ ReaderTalk' /\ Refusal' /\ BeltReports'
  BY VgrBitsKept
<1>2. OneByOne' /\ \A p \in Piece : Fresh(p)' => Fresh(p)
  BY VgrOneByOne
<1>3. UNCHANGED <<hbw, rack>> /\ wp'["HBW"] = wp["HBW"] /\ ("lx_Storage" \in bits' <=> "lx_Storage" \in bits)
  BY VgrSpares DEF VGRProgram
<1>4. FreshUnlisted'
  BY <1>2, <1>3 DEF FreshUnlisted, Unlisted, Underway
<1>5. ReturnRecord' /\ RecordsUnique'
  BY <1>3 DEF ReturnRecord, Unlisted, Underway, RecordsUnique
<1> QED
  BY <1>1, <1>2, <1>4, <1>5, VgrKeepsHandRecord, VgrDeletes

-----------------------------------------------------------------------------
\* The rack loses records, or keeps them.
RackLoses ==
  \A s \in Slot : rack'[s].id \in Piece => rack'[s].id = rack[s].id /\ rack'[s].type = rack[s].type

\* The clearing of the rack loses them all.
LEMMA Clearing ==
  ASSUME NEW r \in [Slot -> RackEntry], SetRack(r),
         \A s \in Slot : r[s].id \in Piece => r[s].id = rack[s].id /\ r[s].type = rack[s].type
  PROVE  RackLoses
<1>1. FreeEntry.id \notin Piece
  BY PlantAssumption DEF FreeEntry
<1> QED
  BY <1>1 DEF SetRack, RackLoses

\* A rack that loses records lists nothing new.
LEMMA LosesOnly ==
  ASSUME RackLoses
  PROVE  /\ RecordsUnique => RecordsUnique'
         /\ \A p \in Piece : Unlisted(p) => Unlisted(p)'
BY DEF RackLoses, RecordsUnique, Unlisted

\* The warehouse leaves the bits and places of the others alone.
LEMMA HbwSpares ==
  ASSUME TypeOK, SlotKnown, NoReset, ReaderTalk, Refusal, BeltReports, OneByOne, HBWProgram,
         prg = "HBW", prg' = "MPO"
  PROVE  /\ NoReset' /\ ReaderTalk' /\ Refusal' /\ BeltReports' /\ OneByOne'
         /\ \A p \in Piece : Fresh(p)' <=> Fresh(p)
         /\ UNCHANGED <<vgr, nfc>> /\ Held("gripper")' = Held("gripper")
         /\ "HBW_Discards" \in bits' <=> "HBW_Discards" \in bits
<1>1. UNCHANGED <<vgr, nfc>>
  BY DEF HBWProgram
<1>2. bits \ bits' \subseteq {"Container_Available", "Clean_Rack_HBW", "lx_Storage"}
  BY DEF HBWProgram, HbwInit, HbwMove, HbwTimeout, HbwDecide, HbwFindFree, HbwFindOrdered, HbwFetch,
         HbwOffer, HbwHandOver, HbwTakeBack, HbwReturn, HbwDone, HbwSwitch, Switch, CleanRequest
<1>3. bits' \subseteq bits \cup HbwBit
  BY HbwRaises
<1>4. \A b \in {"NFC_Start_First", "NFC_Start", "NFC_Completed", "Workpiece_NiO", "NiO_Seen",
                "HBW_PickedUp", "HBW_Discards"} \cup ResetBit : b \in bits' <=> b \in bits
  <2> SUFFICES ASSUME NEW b \in {"NFC_Start_First", "NFC_Start", "NFC_Completed", "Workpiece_NiO",
                                 "NiO_Seen", "HBW_PickedUp", "HBW_Discards"} \cup ResetBit
               PROVE  b \in bits' <=> b \in bits
    OBVIOUS
  <2>1. b \notin HbwBit \cup {"Clean_Rack_HBW"}
    BY DEF HbwBit, ResetBit, ModeBit
  <2>2. b \in bits' => b \in bits
    BY <1>3, <2>1
  <2>3. b \in bits => b \in bits'
    BY <1>2, <2>1 DEF HbwBit
  <2> QED  BY <2>2, <2>3
<1>5. NoReset' /\ ReaderTalk' /\ Refusal' /\ BeltReports'
  <2>1. NoReset'
    BY <1>4 DEF NoReset
  <2>2. \A b \in {"NFC_Start_First", "NFC_Start", "NFC_Completed", "Workpiece_NiO", "NiO_Seen",
                  "HBW_PickedUp", "HBW_Discards"} : b \in bits' <=> b \in bits
    BY <1>4
  <2>3. ReaderTalk'
    BY <1>1, <2>2 DEF ReaderTalk
  <2>4. Refusal' /\ BeltReports'
    BY <1>1, <2>2 DEF Refusal, NiOEdge, BeltReports
  <2> QED  BY <2>1, <2>3, <2>4
<1>6. \A p \in Piece, x \in {"outside", "DSI", "gripper"} : at'[p] = x <=> at[p] = x
  <2>0. Slot \cap Station = {}
    BY PlantAssumption
  <2>1. at' = at \/ \E s \in Slot : Carry(s, "belt") \/ Carry("belt", s)
    <3>1. CASE HbwReturn
      <4>1. act \in Slot
        BY <3>1 DEF HbwReturn, Hbw, SlotKnown
      <4> QED  BY <3>1, <4>1 DEF HbwReturn
    <3>2. CASE HbwFetch
      BY <3>2 DEF HbwFetch
    <3> QED
      BY <3>1, <3>2 DEF HBWProgram, HbwInit, HbwMove, HbwTimeout, HbwDecide, HbwFindFree, HbwFindOrdered,
         HbwOffer, HbwHandOver, HbwTakeBack, HbwDone
  <2> QED  BY <2>0, <2>1 DEF Carry, Station
<1>7. Held("DSI")' = Held("DSI") /\ Held("gripper")' = Held("gripper")
  BY <1>6 DEF Held
<1>8. OneByOne' /\ \A p \in Piece : Fresh(p)' <=> Fresh(p)
  BY <1>1, <1>6, <1>7 DEF OneByOne, Fresh
<1> QED
  BY <1>1, <1>4, <1>5, <1>7, <1>8

\* A step of the warehouse in which no record changes hands.
HbwQuietly ==
  /\ RackLoses /\ wp'["VGR"] = wp["VGR"]
  /\ hbw' \in Returning =>
       /\ hbw \in Returning /\ wp'["HBW"] = wp["HBW"] /\ ("lx_Storage" \in bits' => "lx_Storage" \in bits)
       /\ hbw = 190 /\ "HBW_Discards" \in bits => hbw' = 190

\* Such a step keeps the invariant.
LEMMA QuietKeepsRecords ==
  ASSUME TypeOK, SlotKnown, RecordInv, HBWProgram, prg = "HBW", prg' = "MPO", HbwQuietly
  PROVE  RecordInv'
<1> USE DEF RecordInv
<1>1. /\ NoReset' /\ ReaderTalk' /\ Refusal' /\ BeltReports' /\ OneByOne'
      /\ \A p \in Piece : Fresh(p)' <=> Fresh(p)
      /\ UNCHANGED <<vgr, nfc>> /\ Held("gripper")' = Held("gripper")
      /\ "HBW_Discards" \in bits' <=> "HBW_Discards" \in bits
  BY HbwSpares
<1>2. /\ RecordsUnique'
      /\ \A p \in Piece : Unlisted(p) => Unlisted(p)'
  BY LosesOnly DEF HbwQuietly
<1>3. \A p \in Piece : Underway(p)' => Underway(p) /\ wp'["HBW"] = wp["HBW"]
  BY DEF Underway, HbwQuietly
<1>4. FreshUnlisted'
  BY <1>1, <1>2, <1>3 DEF FreshUnlisted
<1>5. HandRecord' /\ BadDeleted'
  BY <1>1 DEF HandRecord, RecordRead, BadDeleted, HbwQuietly
<1>6. DropRecord'
  <2> SUFFICES ASSUME vgr = 910, wp["VGR"].id \in Piece
               PROVE  /\ Unlisted(wp["VGR"].id)' /\ ~Fresh(wp["VGR"].id)'
                      /\ Underway(wp["VGR"].id)' => hbw' = 190 /\ "HBW_Discards" \in bits'
    BY <1>1 DEF DropRecord, HbwQuietly
  <2>1. wp'["VGR"] = wp["VGR"]
    BY DEF HbwQuietly
  <2>2. Underway(wp["VGR"].id)' => Underway(wp["VGR"].id) /\ hbw' \in Returning
    BY <1>3, <2>1 DEF Underway
  <2> QED  BY <1>1, <1>2, <2>1, <2>2 DEF DropRecord, HbwQuietly
<1>7. ReturnRecord'
  <2> SUFFICES ASSUME wp'["HBW"].id \in Piece, Underway(wp["HBW"].id)'
               PROVE  Unlisted(wp["HBW"].id)' /\ wp'["HBW"].type = ColourOf[wp'["HBW"].id]
    BY DEF ReturnRecord
  <2>1. wp'["HBW"] = wp["HBW"] /\ Underway(wp["HBW"].id)
    BY <1>3 DEF Underway
  <2> QED  BY <1>2, <2>1 DEF ReturnRecord
<1> QED
  BY <1>1, <1>2, <1>4, <1>5, <1>6, <1>7

\* Step 180: the report of the robot says whose record changes hands.
LEMMA HandOverKeepsRecords ==
  ASSUME TypeOK, SlotKnown, RecordInv, HBWProgram, prg = "HBW", prg' = "MPO", HbwHandOver
  PROVE  RecordInv'
<1> USE DEF RecordInv
<1>0. /\ wp \in [Register -> Workpiece] /\ rack \in [Slot -> RackEntry] /\ "0" \notin Piece
      /\ NoWorkpiece.id = "0"
  BY PlantAssumption DEF TypeOK, NoWorkpiece
<1>1. /\ NoReset' /\ ReaderTalk' /\ Refusal' /\ BeltReports' /\ OneByOne'
      /\ \A p \in Piece : Fresh(p)' <=> Fresh(p)
      /\ UNCHANGED <<vgr, nfc>> /\ Held("gripper")' = Held("gripper")
      /\ "HBW_Discards" \in bits' <=> "HBW_Discards" \in bits
  BY HbwSpares
<1>2. RackLoses
  BY <1>0, Clearing DEF HbwHandOver
<1>3. /\ RecordsUnique'
      /\ \A p \in Piece : Unlisted(p) => Unlisted(p)'
  BY <1>2, LosesOnly
<1>a. CASE PickedUp /\ wp' = [wp EXCEPT !["VGR"] = wp["HBW"], !["HBW"] = NoWorkpiece]
  <2>1. vgr \in {485, 500}
    BY <1>a DEF PickedUp, BeltReports
  <2>2. vgr' \notin Rejecting \cup Tagged \cup {700, 760, 810, 820, 880, 890, 900, 910}
    BY <1>1, <2>1 DEF Rejecting, Tagged
  <2>3. HandRecord' /\ DropRecord' /\ BadDeleted'
    BY <2>2 DEF HandRecord, RecordRead, DropRecord, BadDeleted
  <2>4. wp'["HBW"].id = "0"
    BY <1>0, <1>a DEF Register
  <2>5. FreshUnlisted' /\ ReturnRecord'
    BY <1>0, <1>1, <1>3, <2>4 DEF FreshUnlisted, ReturnRecord, Underway
  <2> QED  BY <1>1, <1>3, <2>3, <2>5
<1>b. CASE Discarded /\ wp' = [wp EXCEPT !["HBW"] = wp["VGR"]] /\ hbw' = 190
  <2>1. "HBW_Discards" \in bits /\ (vgr = 910 \/ vgr \in Rejecting)
    BY <1>b DEF Discarded, BeltReports
  <2>2. wp'["HBW"] = wp["VGR"] /\ wp'["VGR"] = wp["VGR"]
    BY <1>0, <1>b DEF Register
  <2>3. ASSUME wp["VGR"].id \in Piece
        PROVE  /\ vgr = 910 /\ Unlisted(wp["VGR"].id) /\ ~Fresh(wp["VGR"].id)
               /\ wp["VGR"].type = ColourOf[wp["VGR"].id]
    BY <2>1, <2>3 DEF BadDeleted, DropRecord, HandRecord
  <2>4. FreshUnlisted'
    <3> SUFFICES ASSUME NEW p \in Piece, Fresh(p)' PROVE Unlisted(p)' /\ ~Underway(p)'
      BY DEF FreshUnlisted
    <3>1. Fresh(p) /\ Unlisted(p)'
      BY <1>1, <1>3 DEF FreshUnlisted
    <3>2. wp["VGR"].id # p
      BY <2>3, <3>1
    <3> QED  BY <2>2, <3>1, <3>2 DEF Underway
  <2>5. HandRecord' /\ BadDeleted'
    BY <1>1, <2>2 DEF HandRecord, RecordRead, BadDeleted
  <2>6. Unlisted(wp["VGR"].id)' <=> \A s \in Slot : rack'[s].id # wp["VGR"].id
    BY <2>2 DEF Unlisted
  <2>7. wp["VGR"].id \in Piece => \A s \in Slot : rack'[s].id # wp["VGR"].id
    BY <1>3, <2>3 DEF Unlisted
  <2>8. DropRecord'
    BY <1>1, <1>b, <2>1, <2>2, <2>3, <2>7 DEF DropRecord, Unlisted, Fresh
  <2>9. ReturnRecord'
    BY <2>2, <2>3, <2>7 DEF ReturnRecord, Unlisted
  <2> QED  BY <1>1, <1>3, <2>4, <2>5, <2>8, <2>9
<1>c. CASE hbw' = 180 /\ wp' = wp
  <2>1. HbwQuietly
    BY <1>2, <1>c DEF HbwQuietly, Returning
  <2> QED  BY <2>1, QuietKeepsRecords
<1> QED
  BY <1>a, <1>b, <1>c DEF HbwHandOver

\* Step 250: the record of the container is in no other slot.
LEMMA ReturnKeepsRecords ==
  ASSUME TypeOK, SlotKnown, RecordInv, HBWProgram, prg = "HBW", prg' = "MPO", HbwReturn
  PROVE  RecordInv'
<1> USE DEF RecordInv
<1>0. /\ wp \in [Register -> Workpiece] /\ rack \in [Slot -> RackEntry] /\ "0" \notin Piece
      /\ wp["HBW"] \in Workpiece
  BY PlantAssumption DEF TypeOK, Register
<1>1. /\ hbw = 250 /\ act \in Slot /\ UNCHANGED <<vgr, nfc, wp>>
  BY DEF HbwReturn, Hbw, SlotKnown, HBWProgram
<1>2. ("lx_Storage" \in bits' => "lx_Storage" \in bits)
  BY DEF HbwReturn, HbwSwitch, Switch
<1>a. ASSUME RackLoses PROVE RecordInv'
  <2>1. HbwQuietly
    BY <1>1, <1>2, <1>a DEF HbwQuietly, Returning
  <2> QED  BY <2>1, QuietKeepsRecords
<1>b. CASE hbw' = 250 /\ SetRack(rack)
  BY <1>0, <1>a, <1>b, Clearing
<1>c. CASE SetRack([rack EXCEPT ![act].id = "0"])
  <2>1. [rack EXCEPT ![act].id = "0"] \in [Slot -> RackEntry]
    BY <1>0 DEF RackEntry, Id
  <2>2. \A s \in Slot : [rack EXCEPT ![act].id = "0"][s].id \in Piece =>
          [rack EXCEPT ![act].id = "0"][s].id = rack[s].id /\ [rack EXCEPT ![act].id = "0"][s].type = rack[s].type
    BY <1>0, <1>1 DEF RackEntry
  <2> DEFINE r == [rack EXCEPT ![act].id = "0"]
  <2>3. RackLoses
    <3>1. r \in [Slot -> RackEntry] /\ SetRack(r)
          /\ \A s \in Slot : r[s].id \in Piece => r[s].id = rack[s].id /\ r[s].type = rack[s].type
      BY <1>c, <2>1, <2>2
    <3> HIDE DEF r
    <3> QED  BY <3>1, Clearing
  <2> QED  BY <1>a, <2>3
<1>d. CASE /\ JobWasStorage /\ hbw' = 260
           /\ SetRack(Stamped([id |-> wp["HBW"].id, type |-> wp["HBW"].type, ts |-> 0]))
  <2> DEFINE new == [id |-> wp["HBW"].id, type |-> wp["HBW"].type, ts |-> 0]
  <2> DEFINE r == Stamped(new)
  <2>1. new \in RackEntry /\ new.id = wp["HBW"].id /\ new.type = wp["HBW"].type
    BY <1>0 DEF Workpiece, RackEntry
  <2>2. /\ r \in [Slot -> RackEntry]
        /\ r[act].id = wp["HBW"].id /\ r[act].type = wp["HBW"].type
        /\ \A s \in Slot \ {act} : r[s].id = rack[s].id /\ r[s].type = rack[s].type
    <3>1. r \in [Slot -> RackEntry]
      <4> HIDE DEF new
      <4> QED  BY <1>0, <2>1, StampedType
    <3>2. r[act] = [new EXCEPT !.ts = 1 + Cardinality(Others)]
      BY <1>1 DEF Stamped
    <3>3. \A s \in Slot \ {act} : r[s] = rack[s] \/ r[s] = [rack[s] EXCEPT !.ts = Rank(s)]
      BY DEF Stamped
    <3>4. r[act].id = wp["HBW"].id /\ r[act].type = wp["HBW"].type
      <4> HIDE DEF r
      <4> QED  BY <2>1, <3>2 DEF RackEntry
    <3>5. \A s \in Slot \ {act} : r[s].id = rack[s].id /\ r[s].type = rack[s].type
      <4> HIDE DEF r
      <4> QED  BY <1>0, <3>3 DEF RackEntry
    <3> QED  BY <3>1, <3>4, <3>5
  <2>3. SetRack(r)
    BY <1>d
  <2> HIDE DEF r, new
  <2>4. rack' = [s \in Slot |-> FreeEntry] \/ rack' = r
    BY <2>3 DEF SetRack
  <2>5. CASE rack' = [s \in Slot |-> FreeEntry]
    <3>1. RackLoses
      BY <1>0, <2>5 DEF RackLoses, FreeEntry
    <3> QED  BY <1>a, <3>1
  <2>6. CASE rack' = r
    <3>1. Underway(wp["HBW"].id)
      BY <1>1, <1>d DEF Underway, JobWasStorage, Returning
    <3>2. wp["HBW"].id \in Piece => Unlisted(wp["HBW"].id) /\ wp["HBW"].type = ColourOf[wp["HBW"].id]
      BY <3>1 DEF ReturnRecord
    <3>3. RecordsUnique'
      BY <1>1, <2>2, <2>6, <3>2 DEF RecordsUnique, Unlisted
    <3>4. ASSUME NEW p \in Piece, Unlisted(p), wp["HBW"].id # p PROVE Unlisted(p)'
      BY <1>1, <2>2, <2>6, <3>4 DEF Unlisted
    <3>5. /\ NoReset' /\ ReaderTalk' /\ Refusal' /\ BeltReports' /\ OneByOne'
          /\ \A p \in Piece : Fresh(p)' <=> Fresh(p)
          /\ UNCHANGED <<vgr, nfc>> /\ Held("gripper")' = Held("gripper")
      BY HbwSpares
    <3>6. \A p : ~Underway(p)'
      BY <1>d DEF Underway, Returning
    <3>7. FreshUnlisted'
      <4> SUFFICES ASSUME NEW p \in Piece, Fresh(p) PROVE Unlisted(p)'
        BY <3>5, <3>6 DEF FreshUnlisted
      <4>1. Unlisted(p) /\ ~Underway(p)
        BY DEF FreshUnlisted
      <4>2. wp["HBW"].id # p
        BY <3>1, <4>1
      <4> QED  BY <3>4, <4>1, <4>2
    <3>8. HandRecord' /\ BadDeleted'
      BY <1>1, <3>5 DEF HandRecord, RecordRead, BadDeleted
    <3>9. DropRecord'
      <4> SUFFICES ASSUME vgr = 910, wp["VGR"].id \in Piece
                   PROVE  (\A s \in Slot : rack'[s].id # wp["VGR"].id) /\ ~Fresh(wp["VGR"].id)'
        BY <1>1, <3>6 DEF DropRecord, Unlisted
      <4>1. Unlisted(wp["VGR"].id) /\ ~Fresh(wp["VGR"].id) /\ ~Underway(wp["VGR"].id)
        BY <1>1 DEF DropRecord
      <4>2. wp["HBW"].id # wp["VGR"].id
        BY <3>1, <4>1
      <4>3. \A s \in Slot : rack'[s].id # wp["VGR"].id
        BY <1>1, <2>2, <2>6, <4>1, <4>2 DEF Unlisted
      <4>4. ~Fresh(wp["VGR"].id)'
        BY <1>1, <3>5, <4>1 DEF Fresh
      <4> QED  BY <4>3, <4>4
    <3>10. ReturnRecord'
      BY <3>6 DEF ReturnRecord
    <3> QED  BY <3>3, <3>5, <3>7, <3>8, <3>9, <3>10
  <2> QED  BY <2>4, <2>5, <2>6
<1> QED
  BY <1>b, <1>c, <1>d DEF HbwReturn

\* The other steps of the warehouse list nothing new.
LEMMA RestIsQuiet ==
  ASSUME TypeOK, NoReset, HBWProgram, ~HbwHandOver, ~HbwReturn
  PROVE  HbwQuietly
<1>0. /\ wp \in [Register -> Workpiece] /\ rack \in [Slot -> RackEntry] /\ Blank \notin Piece
  BY PlantAssumption DEF TypeOK
<1>1. SetRack(rack) => RackLoses
  BY <1>0, Clearing
<1>2. ~Stopped
  BY DEF NoReset, ResetBit, ModeBit, Stopped
<1> USE <1>1, <1>2 DEF HbwQuietly, Returning, Hbw, HbwSwitch, Switch
<1>a. CASE HbwInit \/ HbwTimeout \/ HbwDecide \/ HbwDone
  BY <1>a DEF HbwInit, HbwTimeout, HbwDecide, HbwDone
<1>b. CASE HbwMove
  BY <1>b DEF HbwMove, HbwMotion
<1>c. CASE HbwFindFree \/ HbwFindOrdered
  BY <1>c DEF HbwFindFree, HbwFindOrdered
<1>d. CASE HbwOffer
  BY <1>d DEF HbwOffer
<1>e. CASE HbwTakeBack
  BY <1>e DEF HbwTakeBack, Withdrawn
<1>f. CASE HbwFetch
  <2>1. hbw' \in {100, 110} /\ wp'["VGR"] = wp["VGR"]
    BY <1>0, <1>f DEF HbwFetch, Register
  <2> DEFINE r1 == [rack EXCEPT ![act].id = Blank]
             r2 == [rack EXCEPT ![act] = BlankEntry]
  <2>2. /\ r1 \in [Slot -> RackEntry]
        /\ \A s \in Slot : r1[s].id \in Piece => r1[s].id = rack[s].id /\ r1[s].type = rack[s].type
    BY <1>0 DEF RackEntry, Id
  <2>3. /\ r2 \in [Slot -> RackEntry]
        /\ \A s \in Slot : r2[s].id \in Piece => r2[s].id = rack[s].id /\ r2[s].type = rack[s].type
    BY <1>0, EntryType DEF BlankEntry
  <2>4. SetRack(rack) \/ SetRack(r1) \/ SetRack(r2)
    BY <1>f DEF HbwFetch, Cleared
  <2> HIDE DEF r1, r2
  <2>5. RackLoses
    BY <2>2, <2>3, <2>4, Clearing
  <2> QED  BY <2>1, <2>5
<1> QED
  BY <1>a, <1>b, <1>c, <1>d, <1>e, <1>f DEF HBWProgram

-----------------------------------------------------------------------------
\* The reader writes the tag of the workpiece over it into the robot's record.
LEMMA NfcKeepsRecords ==
  ASSUME TypeOK, RecordInv, NFCProgram, prg = "NFC", prg' = "HBW"
  PROVE  RecordInv'
<1> USE DEF RecordInv
<1>0. wp \in [Register -> Workpiece] /\ wp["VGR"] \in Workpiece
  BY DEF TypeOK, Register
<1>1. UNCHANGED <<vgr, hbw, rack, at>>
  BY DEF NFCProgram
<1>2. /\ bits \ bits' \subseteq {"NFC_Completed"} /\ bits' \subseteq bits \cup {"NFC_Completed", "Workpiece_NiO"}
      /\ "Workpiece_NiO" \in bits' /\ "Workpiece_NiO" \notin bits => nfc \in {20, 50} /\ nfc' = 0
  BY DEF NFCProgram, NfcStart, NfcDeleted, NfcWritten, NfcTimeout, NfcCompleted, Switch
<1>3. NoReset' /\ BeltReports'
  BY <1>1, <1>2 DEF NoReset, BeltReports, ResetBit, ModeBit
<1>4. ReaderTalk' /\ Refusal'
  <2>1. "NFC_Completed" \in bits' => nfc' = 80
    BY DEF NFCProgram, NfcStart, NfcDeleted, NfcWritten, NfcTimeout, NfcCompleted, Switch, ReaderTalk
  <2>2. /\ nfc' = 20 => vgr = 700
        /\ nfc' = 50 => vgr \in {230, 700, 810}
        /\ nfc' = 80 => vgr \in {230, 700, 810}
        /\ "Workpiece_NiO" \in bits' => nfc' = 0
    BY DEF NFCProgram, NfcStart, NfcDeleted, NfcWritten, NfcTimeout, NfcCompleted, Switch, ReaderTalk, Refusal
  <2> QED  BY <1>1, <1>2, <2>1, <2>2 DEF ReaderTalk, Refusal, NiOEdge
<1>5. wp' = wp \/ (nfc = 20 /\ vgr = 700 /\ \E p \in Held("gripper") : wp' = [wp EXCEPT !["VGR"].id = p])
  BY DEF NFCProgram, NfcStart, NfcDeleted, NfcWritten, NfcTimeout, NfcCompleted, ReaderTalk
<1>6. wp'["HBW"] = wp["HBW"] /\ (vgr # 700 => wp' = wp)
  BY <1>0, <1>5 DEF Register
<1>7. \A p : Underway(p)' <=> Underway(p)
  BY <1>1, <1>2, <1>6 DEF Underway
<1>8. OneByOne' /\ FreshUnlisted'
  BY <1>1, <1>7 DEF OneByOne, FreshUnlisted, Fresh, Unlisted, Held
<1>9. ReturnRecord' /\ RecordsUnique'
  BY <1>1, <1>6, <1>7 DEF ReturnRecord, RecordsUnique, Unlisted
<1>10. DropRecord' /\ BadDeleted'
  BY <1>1, <1>2, <1>6, <1>7 DEF DropRecord, BadDeleted, Rejecting, Fresh, Unlisted
<1>11. HandRecord'
  <2>1. CASE vgr # 700
    BY <1>1, <1>6, <2>1 DEF HandRecord, RecordRead, Held
  <2>2. CASE vgr = 700
    <3>1. SUFFICES ASSUME nfc' \in {50, 80} PROVE wp'["VGR"].id \in Held("gripper")
      BY <1>1, <2>2 DEF HandRecord, RecordRead, Tagged, Held
    <3>2. CASE nfc \in {50, 80}
      <4>1. wp' = wp
        BY <1>5, <3>2
      <4> QED  BY <2>2, <3>2, <4>1 DEF HandRecord, RecordRead
    <3>3. CASE nfc = 20
      <4>1. \E p \in Held("gripper") : wp' = [wp EXCEPT !["VGR"].id = p]
        BY <3>1, <3>3 DEF NFCProgram, NfcStart, NfcDeleted, NfcWritten, NfcTimeout, NfcCompleted
      <4> QED  BY <1>0, <4>1 DEF Register, Workpiece
    <3>4. CASE nfc \notin {20, 50, 80}
      BY <2>2, <3>1, <3>4 DEF NFCProgram, NfcStart, NfcDeleted, NfcWritten, NfcTimeout, NfcCompleted, ReaderTalk
    <3> QED  BY <3>2, <3>3, <3>4
  <2> QED  BY <2>1, <2>2
<1> QED
  BY <1>3, <1>4, <1>8, <1>9, <1>10, <1>11

-----------------------------------------------------------------------------
\* The bits the invariant looks at.
RecordBit == {"NFC_Start_First", "NFC_Start", "NFC_Completed", "Workpiece_NiO", "NiO_Seen",
              "HBW_PickedUp", "HBW_Discards", "lx_Storage"} \cup ResetBit

\* A step that leaves these bits, these programs and the places on the way in
\* alone keeps the invariant.
LEMMA OthersKeepRecords ==
  ASSUME RecordInv, UNCHANGED <<vgr, nfc, hbw, rack>>, wp'["VGR"] = wp["VGR"], wp'["HBW"] = wp["HBW"],
         \A b \in RecordBit : b \in bits' <=> b \in bits, prg = "NFC" => prg' = "NFC",
         \A p \in Piece, x \in {"outside", "DSI", "gripper"} : at'[p] = x <=> at[p] = x
  PROVE  RecordInv'
<1> USE DEF RecordInv
<1>1. NoReset'
  BY DEF NoReset, RecordBit
<1>2. \A b \in {"NFC_Start_First", "NFC_Start", "NFC_Completed", "Workpiece_NiO", "NiO_Seen",
                "HBW_PickedUp", "HBW_Discards", "lx_Storage"} : b \in bits' <=> b \in bits
  BY DEF RecordBit
<1>3. ReaderTalk' /\ Refusal' /\ BeltReports'
  BY <1>2 DEF ReaderTalk, Refusal, NiOEdge, BeltReports
<1>4. Held("DSI")' = Held("DSI") /\ Held("gripper")' = Held("gripper")
  BY DEF Held
<1>5. \A p \in Piece : Fresh(p)' <=> Fresh(p)
  BY DEF Fresh
<1>6. \A p : (Underway(p)' <=> Underway(p)) /\ (Unlisted(p)' <=> Unlisted(p))
  BY <1>2 DEF Underway, Unlisted
<1>7. OneByOne' /\ FreshUnlisted' /\ RecordsUnique'
  BY <1>4, <1>5, <1>6 DEF OneByOne, FreshUnlisted, RecordsUnique
<1>8. HandRecord' /\ BadDeleted'
  BY <1>4 DEF HandRecord, RecordRead, BadDeleted
<1>9. DropRecord'
  <2> SUFFICES ASSUME vgr = 910, wp["VGR"].id \in Piece
               PROVE  /\ Unlisted(wp["VGR"].id)' /\ ~Fresh(wp["VGR"].id)'
                      /\ Underway(wp["VGR"].id)' => hbw' = 190 /\ "HBW_Discards" \in bits'
    BY DEF DropRecord
  <2>1. Unlisted(wp["VGR"].id)' <=> Unlisted(wp["VGR"].id)
    BY DEF Unlisted
  <2>2. Fresh(wp["VGR"].id)' <=> Fresh(wp["VGR"].id)
    BY DEF Fresh
  <2>3. Underway(wp["VGR"].id)' <=> Underway(wp["VGR"].id)
    BY <1>2 DEF Underway
  <2> QED  BY <1>2, <2>1, <2>2, <2>3 DEF DropRecord
<1>10. ReturnRecord'
  <2>1. Underway(wp["HBW"].id)' <=> Underway(wp["HBW"].id)
    BY <1>2 DEF Underway
  <2>2. Unlisted(wp["HBW"].id)' <=> Unlisted(wp["HBW"].id)
    BY DEF Unlisted
  <2> QED  BY <2>1, <2>2 DEF ReturnRecord
<1> QED
  BY <1>1, <1>3, <1>7, <1>8, <1>9, <1>10

\* The stations behind the oven and the dashboard's programs do.
LEMMA StationsKeepRecords ==
  ASSUME MpoMayFail = FALSE, TypeOK, RecordInv,
         \/ Call("MPO", MPOProgram) \/ Call("SLD", SLDProgram) \/ Call("DSO", DSOProgram)
         \/ Call("Order", OrderProgram) \/ Call("Ack", AckProgram)
  PROVE  RecordInv'
<1>0. /\ wp \in [Register -> Workpiece] /\ ColourOf \in [Piece -> Colour]
      /\ Colour \cap {"outside", "DSI", "gripper"} = {}
  BY PlantAssumption DEF TypeOK, Colour
<1>1. prg # "NFC"
  BY DEF Call
<1>2. CASE Call("MPO", MPOProgram)
  <2>1. UNCHANGED <<vgr, nfc, hbw, rack>>
    BY <1>2 DEF Call, MPOProgram
  <2>2. \/ wp' = wp \/ wp' = [wp EXCEPT !["MPO"] = wp["VGR"]]
        \/ wp' = [wp EXCEPT !["SLD"] = wp["MPO"], !["MPO"] = NoWorkpiece]
    BY <1>2 DEF Call, MPOProgram, MpoInit, MpoMove, MpoAwaitRequest, MpoOpen, MpoAccept, TakeOver,
                MpoNoPart, MpoRetract, MpoPassOn, MpoLostPart
  <2>3. wp'["VGR"] = wp["VGR"] /\ wp'["HBW"] = wp["HBW"]
    BY <1>0, <2>2 DEF Register
  <2>4. at' = at \/ Carry("oven", "SLD")
    BY <1>2 DEF Call, MPOProgram, MpoInit, MpoMove, MpoAwaitRequest, MpoOpen, MpoAccept,
                MpoNoPart, MpoRetract, MpoPassOn, MpoLostPart
  <2>5. \A b : b \notin {"Discard_Ready", "MPO_Discards_Accepted"} => (b \in bits' <=> b \in bits)
    BY <1>2 DEF Call, MPOProgram, MpoInit, MpoMove, MpoAwaitRequest, MpoOpen, MpoAccept,
                MpoNoPart, MpoRetract, MpoPassOn, MpoLostPart, Switch
  <2>6. \A b \in RecordBit : b \in bits' <=> b \in bits
    BY <2>5 DEF RecordBit, ResetBit, ModeBit
  <2>7. \A p \in Piece, x \in {"outside", "DSI", "gripper"} : at'[p] = x <=> at[p] = x
    BY <2>4 DEF Carry
  <2> QED  BY <1>1, <2>1, <2>3, <2>6, <2>7, OthersKeepRecords
<1>3. CASE Call("SLD", SLDProgram)
  <2>1. UNCHANGED <<vgr, nfc, hbw, rack, wp>>
    BY <1>3 DEF Call, SLDProgram
  <2>2. \A b : b # "SLD_Error" => (b \in bits' <=> b \in bits)
    BY <1>3 DEF Call, SLDProgram, SldInit, SldMove, SldInlet, SldMeasure, SldTimeout, SldEject, Switch
  <2>3. \/ at' = at \/ Carry("SLD", "lost")
        \/ at' = [p \in Piece |-> IF at[p] = "SLD" THEN ColourOf[p] ELSE at[p]]
    BY <1>3 DEF Call, SLDProgram, SldInit, SldMove, SldInlet, SldMeasure, SldTimeout, SldEject
  <2>4. \A p \in Piece, x \in {"outside", "DSI", "gripper"} : at'[p] = x <=> at[p] = x
    BY <1>0, <2>3 DEF Carry
  <2>5. \A b \in RecordBit : b \in bits' <=> b \in bits
    BY <2>2 DEF RecordBit, ResetBit, ModeBit
  <2> QED  BY <1>1, <2>1, <2>4, <2>5, OthersKeepRecords
<1>4. CASE Call("DSO", DSOProgram) \/ Call("Order", OrderProgram) \/ Call("Ack", AckProgram)
  <2>1. UNCHANGED <<vgr, nfc, hbw, rack, wp, at>>
    BY <1>4 DEF Call, DSOProgram, OrderProgram, AckProgram
  <2>2. \A b : b \notin {"DSO_Occupied", "StartEndOrder", "HBW_Outsource", "AcknowledgeButton",
                         "HBW_Error", "MPO_Error", "SLD_Error"} => (b \in bits' <=> b \in bits)
    BY <1>4 DEF Call, DSOProgram, OrderProgram, OrderInit, OrderTake, OrderClear, AckProgram, Switch,
                Shelf, TimerStart
  <2>3. "MPO_Error" \notin bits /\ "MPO_Error" \notin bits'
    <3>1. "MPO_Error" \notin bits
      BY DEF RecordInv, NoReset, ResetBit
    <3>2. bits' \subseteq bits \cup {"DSO_Occupied", "StartEndOrder", "HBW_Outsource"}
      BY <1>4 DEF Call, DSOProgram, OrderProgram, OrderInit, OrderTake, OrderClear, AckProgram, Switch,
                Shelf, TimerStart
    <3> QED  BY <3>1, <3>2
  <2>4. \A b \in RecordBit : b \in bits' <=> b \in bits
    BY <2>2, <2>3 DEF RecordBit, ResetBit, ModeBit
  <2> QED  BY <1>1, <2>1, <2>4, OthersKeepRecords
<1> QED
  BY <1>2, <1>3, <1>4

\* The people bring one workpiece at a time, and none a second time.
LEMMA PeopleKeepRecords ==
  ASSUME Modes \cap ModeBit = {}, Regular = {}, TypeOK, RecordInv, Call("IO", People)
  PROVE  RecordInv'
<1>0. prg # "NFC" /\ prg' # "NFC" /\ UNCHANGED <<vgr, nfc, hbw, rack, wp>>
  BY DEF Call, People, Successor
<1>1. CASE \E m \in Modes : Toggle(m)
  <2>1. PICK m \in Modes : Toggle(m)
    BY <1>1
  <2>2. m \notin RecordBit
    BY PeopleAssumption DEF SetupBit, RecordBit, ResetBit, ModeBit
  <2>3. \A b \in RecordBit : b \in bits' <=> b \in bits
    BY <2>1, <2>2 DEF Toggle
  <2>4. at' = at
    BY <2>1 DEF Toggle
  <2> QED  BY <1>0, <2>3, <2>4, OthersKeepRecords
<1>2. CASE \/ \E p \in Piece : Take(p)
           \/ \E c \in Colour : PressOrder(c)
           \/ UNCHANGED <<bits, button, at>>
  <2>1. bits' = bits
    BY <1>2 DEF Take, PressOrder
  <2>2. \A p \in Piece, x \in {"outside", "DSI", "gripper"} : at'[p] = x <=> at[p] = x
    BY <1>2 DEF Take, PressOrder, TypeOK
  <2> QED  BY <1>0, <2>1, <2>2, OthersKeepRecords
<1>3. CASE \E p \in Piece : Deliver(p)
  <2> USE DEF RecordInv
  <2>1. PICK d \in Piece : Deliver(d)
    BY <1>3
  <2>2. /\ bits' = bits /\ at[d] = "outside" /\ Held("DSI") = {}
        /\ \A p \in Piece : at'[p] = IF p = d THEN "DSI" ELSE at[p]
    BY <2>1 DEF Deliver, TypeOK
  <2>3. Held("DSI")' = {d} /\ Held("gripper")' = Held("gripper")
    BY <2>2 DEF Held
  <2>4. \A p \in Piece : Fresh(p)' <=> Fresh(p)
    BY <1>0, <2>2 DEF Fresh
  <2>5. \A p : (Underway(p)' <=> Underway(p)) /\ (Unlisted(p)' <=> Unlisted(p))
    BY <1>0, <2>2 DEF Underway, Unlisted
  <2>6. NoReset' /\ ReaderTalk' /\ Refusal' /\ BeltReports'
    BY <1>0, <2>2 DEF NoReset, ReaderTalk, Refusal, NiOEdge, BeltReports
  <2>7. OneByOne' /\ FreshUnlisted' /\ RecordsUnique'
    BY <1>0, <2>3, <2>4, <2>5 DEF OneByOne, FreshUnlisted, RecordsUnique
  <2>8. HandRecord' /\ BadDeleted'
    BY <1>0, <2>3 DEF HandRecord, RecordRead, BadDeleted
  <2>9. DropRecord' /\ ReturnRecord'
    BY <1>0, <2>2, <2>4 DEF DropRecord, ReturnRecord, Unlisted, Underway, Fresh
  <2> QED  BY <2>6, <2>7, <2>8, <2>9
<1> QED
  BY <1>1, <1>2, <1>3 DEF Call, People

\* After a power failure no program is about to record anything.
LEMMA RestartKeepsRecords ==
  ASSUME TypeOK, RecordInv, Restart
  PROVE  RecordInv'
<1> USE DEF RecordInv
<1>0. Blank \notin Piece /\ "0" \notin Piece
  BY PlantAssumption
<1>1. /\ vgr' = 0 /\ nfc' = 0 /\ hbw' = 0 /\ bits' \subseteq {"Discard_Ready", "MPO_Discards_Accepted"}
      /\ \A p \in Piece : at'[p] = IF at[p] = "gripper" THEN "lost" ELSE at[p]
  BY DEF Restart, Retained, NoReset, ResetBit, Carry
<1>2. RackLoses
  BY <1>0 DEF Restart, RackLoses, FreeEntry
<1>3. NoReset' /\ ReaderTalk' /\ Refusal' /\ BeltReports'
  BY <1>1 DEF NoReset, ResetBit, ModeBit, ReaderTalk, Refusal, NiOEdge, BeltReports
<1>4. Held("DSI")' = Held("DSI") /\ Held("gripper")' = {}
  BY <1>1 DEF Held
<1>5. OneByOne' /\ \A p \in Piece : Fresh(p)' => Fresh(p)
  BY <1>1, <1>4 DEF OneByOne, Fresh, HoldStore
<1>6. \A p : ~Underway(p)'
  BY <1>1 DEF Underway
<1>7. /\ RecordsUnique'
      /\ \A p \in Piece : Unlisted(p) => Unlisted(p)'
  BY <1>2, LosesOnly
<1>8. FreshUnlisted' /\ ReturnRecord'
  BY <1>5, <1>6, <1>7 DEF FreshUnlisted, ReturnRecord
<1>9. HandRecord' /\ DropRecord' /\ BadDeleted'
  BY <1>1 DEF HandRecord, RecordRead, Tagged, DropRecord, BadDeleted, Rejecting
<1> QED
  BY <1>3, <1>5, <1>7, <1>8, <1>9

\* Every step of the factory keeps it.
LEMMA RecordsKept ==
  ASSUME MpoMayFail = FALSE, Modes \cap ModeBit = {}, Regular = {},
         TypeOK, SlotKnown, RecordInv, [Next]_allVars
  PROVE  RecordInv'
<1>1. CASE UNCHANGED allVars
  BY <1>1, OthersKeepRecords DEF allVars, vars
<1>2. CASE Call("VGR", VGRProgram)
  BY <1>2, VgrListsNothing DEF Call, Successor
<1>3. CASE Call("NFC", NFCProgram)
  BY <1>3, NfcKeepsRecords DEF Call, Successor
<1>4. CASE Call("HBW", HBWProgram)
  <2>1. HBWProgram /\ prg = "HBW" /\ prg' = "MPO"
    BY <1>4 DEF Call, Successor
  <2>2. HbwQuietly \/ HbwHandOver \/ HbwReturn
    BY <2>1, RestIsQuiet DEF RecordInv
  <2> QED  BY <2>1, <2>2, QuietKeepsRecords, HandOverKeepsRecords, ReturnKeepsRecords
<1> QED
  BY <1>1, <1>2, <1>3, <1>4, StationsKeepRecords, PeopleKeepRecords, RestartKeepsRecords DEF Next

\* At the start only the stock is recorded.
LEMMA RecordsAtStart == Init => RecordInv
<1> SUFFICES ASSUME Init PROVE RecordInv
  OBVIOUS
<1>1. /\ bits = {} /\ vgr = 0 /\ nfc = 0 /\ hbw = 0
      /\ \A r \in Register : wp[r] = BlankWorkpiece
  BY DEF Init
<1>2. /\ Slot \cap {"outside", "DSI", "gripper"} = {} /\ NoPiece \notin Piece /\ "0" \notin Piece
      /\ \A s \in Slot : Stock[s] \in Piece \cup {NoPiece}
      /\ \A s, t \in Slot : Stock[s] = Stock[t] /\ Stock[s] # NoPiece => s = t
  BY PlantAssumption DEF Station, NoPiece
<1>3. \A s \in Slot : /\ rack[s].id \in Piece => rack[s].id = Stock[s] /\ rack[s].type = ColourOf[Stock[s]]
                      /\ Stock[s] \in Piece => rack[s].id = Stock[s]
  BY <1>2 DEF Init, FreeEntry
<1>4. \A p \in Piece : at[p] = "outside" \/ at[p] \in Slot
  BY DEF Init
<1>5. \A p \in Piece : at[p] = "outside" => \A s \in Slot : Stock[s] # p
  BY <1>2 DEF Init
<1>6. RecordsUnique
  BY <1>2, <1>3 DEF RecordsUnique
<1>7. FreshUnlisted
  BY <1>1, <1>2, <1>3, <1>4, <1>5 DEF FreshUnlisted, Fresh, Unlisted, Underway
<1>8. OneByOne
  BY <1>1, <1>2, <1>4 DEF OneByOne, Held, HoldStore
<1>9. NoReset /\ ReaderTalk /\ Refusal /\ BeltReports
  BY <1>1 DEF NoReset, ReaderTalk, Refusal, NiOEdge, BeltReports
<1>10. HandRecord /\ DropRecord /\ BadDeleted /\ ReturnRecord
  BY <1>1 DEF HandRecord, RecordRead, Tagged, DropRecord, BadDeleted, Rejecting, ReturnRecord, Underway
<1> QED
  BY <1>6, <1>7, <1>8, <1>9, <1>10 DEF RecordInv

\* Whatever the reader refuses, whatever motion of the warehouse or the sorting
\* line fails, whenever the rack is cleared or the power lost, and whatever the
\* customer orders: no workpiece is recorded in two slots, nor under another
\* colour.  Only a reset of the robot alone, which step 0 of PRG_VGR_Ablauf
\* makes on an error of the oven or a setup switch, is excluded, and a
\* workpiece that comes back while its record still stands.
THEOREM RecordedOnceEach ==
  ASSUME MpoMayFail = FALSE, Modes \cap ModeBit = {}, Regular = {}
  PROVE  Spec => []RecordsUnique
<1>1. RecordInv => RecordsUnique
  BY DEF RecordInv
<1> QED
  BY <1>1, RecordsAtStart, RecordsKept, InitTypes, TypesKept, PTL DEF Spec

-----------------------------------------------------------------------------
(***************************************************************************)
(* From here on: the factory in normal operation.  Nothing fails, nobody   *)
(* sets anything up, and the customer orders what is in stock, one at a    *)
(* time.  One inductive invariant relates the steps of the programs, the   *)
(* places of the workpieces, the order and the records.                    *)
(***************************************************************************)

\* Nothing fails and nobody sets anything up; the customer keeps the rules.
Calm ==
  /\ NfcMayFail = FALSE /\ HbwMayFail = FALSE /\ MpoMayFail = FALSE /\ SldMayFail = FALSE
  /\ MayRestart = FALSE /\ Modes = {} /\ Discipline = Rules

Single(S) == \A p, q \in S : p = q
Rec(p) == [id |-> p, type |-> ColourOf[p]]

-----------------------------------------------------------------------------
(* The dialogues: which step of one program goes with which of another.    *)

ErrorBit == {"Workpiece_NiO", "NiO_Seen", "HBW_Error", "MPO_Error", "SLD_Error"}
Untroubled == bits \cap (ErrorBit \cup SetupBit) = {} /\ vgr < 1000

\* Who has raised a request of the robot, and how long it stands.
StoreAsked == "HBW_Storage" \in bits => vgr \in ForStorage
OrderAsked == "HBW_Outsource" \in bits <=> ord = 20
OrderRuns ==
  /\ ord = 20 => \/ vgr \in {10, 70} \cup ForOrder
                 \/ vgr = 485 /\ prg \in {"NFC", "HBW", "MPO", "SLD", "DSO", "Order"}
  /\ vgr \in ForOrder => ord = 20
Reports == ("HBW_PickedUp" \in bits => vgr \in {485, 500}) /\ ("HBW_Discards" \in bits => vgr = 910)
ToOven == {485, 500, 510, 520, 530, 540}
Readiness == "Ready_For_Outsource" \in bits => vgr \in {10, 70} \cup ForOrder \cup ToOven
Asking == Untroubled /\ StoreAsked /\ OrderAsked /\ OrderRuns /\ Reports /\ Readiness

\* The warehouse works on a request that stands until it is served.
Searching == {50, 60, 70, 100}
Bringing == {110, 170, 180}
Job ==
  /\ hbw \in Searching \cup Bringing => bits \cap {"HBW_Storage", "HBW_Outsource"} # {}
  /\ hbw = 50 => "HBW_Storage" \in bits
  /\ hbw = 60 => "HBW_Outsource" \in bits
  /\ "lx_Storage" \in bits => hbw \in Returning \cup {260}
  /\ vgr = 485 /\ ord # 20 => hbw \notin Searching \cup Bringing

\* Robot and oven.
Opening == {470, 480, 485, 500, 510, 520}
OvenTalk ==
  /\ "MPO_Req_Discard" \in bits => vgr \in Opening
  /\ "MPO_Discards" \in bits <=> vgr = 550
  /\ "Discard_Ready" \in bits <=> mpo = 100
  /\ "MPO_Discards_Accepted" \in bits <=> mpo = 105
  /\ mpo = 70 => vgr \in Opening
  /\ mpo = 100 => vgr \in Opening \cup {530, 540, 550}
  /\ vgr \in {530, 540} => mpo = 100
  /\ vgr = 550 => mpo \in {100, 105}

Dialogues == Asking /\ Job /\ OvenTalk /\ ReaderTalk

-----------------------------------------------------------------------------
(* The places: where a workpiece is goes with the steps.                   *)

Gripped ==
  /\ Single(Held("gripper"))
  /\ Held("gripper") # {} <=> vgr \in HoldFinished \cup HoldOrder \cup HoldStore
Delivered == Single(Held("DSI")) /\ (vgr \in {600, 640} => Held("DSI") # {})
OnBelt ==
  /\ Single(Held("belt")) /\ (Held("belt") # {} => hbw \in Bringing \cup Returning)
  /\ hbw \in Bringing /\ "HBW_Outsource" \in bits => (Held("belt") # {} <=> vgr \notin {480, 485})
  /\ hbw \in Bringing /\ "HBW_Storage" \in bits => (Held("belt") # {} <=> vgr = 910)
  /\ hbw \in Returning => (Held("belt") # {} <=> "lx_Storage" \in bits)
InOven == Held("oven") # {} <=> (mpo \in {105, 110, 280} \/ (mpo = 100 /\ vgr \in {540, 550}))
BayChosen == vgr \in {100, 150} => bay \in Colour /\ Held(bay) # {}
NoneLost == Held("lost") = {} /\ Held("reject") = {}
Places == Gripped /\ Delivered /\ OnBelt /\ InOven /\ BayChosen /\ NoneLost

-----------------------------------------------------------------------------
(* The order: between oven and shelf there is one workpiece at most, and   *)
(* the state shown goes with it.                                           *)

Finishing == {p \in Piece : at[p] \in {"oven", "SLD"} \cup Colour \/ (at[p] = "gripper" /\ vgr \in HoldFinished)}
OrderSteps == ForOrder \cup ToOven \cup {550, 560, 580}
Over == state \in {"WAITING_FOR_ORDER", "SHIPPED"}
Unoccupied == Finishing = {} /\ vgr \notin OrderSteps /\ ord # 20
OrderLife ==
  /\ Single(Finishing) /\ (Finishing # {} => state = "IN_PROCESS" \/ vgr = 540)
  /\ Over => Unoccupied
  /\ button # Blank => Unoccupied /\ state \in {"WAITING_FOR_ORDER", "ORDERED"}
  /\ ord = 20 => Finishing = {} /\ state = "ORDERED" /\ button = Blank
  /\ state = "IN_PROCESS" => button = Blank /\ ord # 20 /\ vgr \notin ForOrder \cup ToOven
  /\ vgr \in {550, 560, 580} => state = "IN_PROCESS"
OnShelf ==
  /\ Single(Held("DSO"))
  /\ prg \in {"Order", "Ack", "IO"} => ("DSO_Occupied" \in bits <=> Held("DSO") # {})
  /\ "DSO_Occupied" \in bits \/ Held("DSO") # {} => Over /\ button = Blank
  /\ "StartEndOrder" \in bits => state = "SHIPPED"
Orders == OrderLife /\ OnShelf

-----------------------------------------------------------------------------
(* The records of the rack.                                                *)

InFlux(s) == act = s /\ hbw \in Bringing \cup Returning
SlotTrue(s) ==
  IF InFlux(s) THEN Held(s) = {} /\ rack[s].id = Blank /\ rack[s].type = Blank
  ELSE /\ \A p \in Piece : at[p] = s <=> rack[s].id = p
       /\ rack[s].id # Blank
       /\ rack[s].type = IF rack[s].id \in Piece THEN ColourOf[rack[s].id] ELSE Blank
RackTold == \A s \in Slot : SlotTrue(s)
SlotChosen ==
  hbw \in {70, 100} =>
    /\ act \in Slot
    /\ "HBW_Storage" \in bits => rack[act].id = "0"
    /\ "HBW_Outsource" \in bits => act \in OfType(typ) /\ \A s \in OfType(typ) : rack[act].ts <= rack[s].ts
Stocked ==
  /\ ord = 20 => typ \in Colour
  /\ button # Blank => OfType(button) # {}
  /\ "HBW_Outsource" \in bits /\ hbw \notin Bringing /\ vgr # 485 => OfType(typ) # {}
Fetched == Held("belt") \cup Held("gripper")
ColourRight == hbw \in Bringing /\ "HBW_Outsource" \in bits => \A p \in Fetched : ColourOf[p] = typ
RackRight == RackTold /\ SlotChosen /\ Stocked /\ ColourRight

-----------------------------------------------------------------------------
(* The records that travel.                                                *)

GripperRecord ==
  \A p \in Piece :
   /\ at[p] = "gripper" /\ vgr \in HoldFinished \cup {500, 510, 520, 530} => wp["VGR"] = Rec(p)
   /\ at[p] = "gripper" /\ vgr = 485 /\ hbw \notin Bringing => wp["VGR"] = Rec(p)
   /\ at[p] = "gripper" /\ (vgr \in HoldStore \ {650, 700} \/ (vgr = 700 /\ nfc \in {50, 80})) => wp["VGR"].id = p
   /\ at[p] = "gripper" /\ vgr \in {760, 810, 820, 880, 890, 900} => wp["VGR"] = Rec(p)
   /\ at[p] = "belt" /\ vgr = 910 => wp["VGR"] = Rec(p)
   /\ at[p] = "oven" /\ vgr \in {540, 550} => wp["VGR"] = Rec(p)
BeltRecord ==
  \A p \in Piece :
   /\ hbw \in Bringing /\ "HBW_Outsource" \in bits /\ p \in Fetched => wp["HBW"] = Rec(p)
   /\ hbw \in Returning /\ at[p] = "belt" => wp["HBW"] = Rec(p)
LaterRecords ==
  \A p \in Piece :
   /\ at[p] = "oven" /\ mpo \in {105, 110, 280} => wp["MPO"] = Rec(p)
   /\ at[p] \in {"SLD"} \cup Colour => wp["SLD"] = Rec(p)
   /\ at[p] = "DSO" => wp["SSC"].id = p
Records == GripperRecord /\ BeltRecord /\ LaterRecords
-----------------------------------------------------------------------------
(* What one call of the robot's program does, variable by variable.        *)

Edge(a, b) == vgr = a /\ vgr' = b
VgrRoutes == {<<0, 10>>, <<10, 70>>, <<70, 100>>, <<70, 400>>, <<70, 600>>}
  \cup {<<100, 150>>, <<150, 160>>, <<160, 230>>, <<230, 240>>, <<240, 270>>, <<270, 280>>,
        <<280, 290>>, <<290, 310>>, <<310, 70>>}
  \cup {<<400, 440>>, <<440, 450>>, <<450, 460>>, <<460, 470>>, <<470, 480>>, <<480, 485>>,
        <<485, 500>>, <<500, 510>>, <<510, 520>>, <<520, 530>>, <<530, 540>>, <<540, 550>>,
        <<550, 560>>, <<560, 580>>, <<580, 0>>}
  \cup {<<600, 640>>, <<640, 650>>, <<650, 700>>, <<700, 710>>, <<710, 750>>, <<750, 760>>,
        <<760, 810>>, <<810, 820>>, <<820, 880>>, <<880, 890>>, <<890, 900>>, <<900, 910>>,
        <<910, 920>>, <<920, 960>>, <<960, 0>>}
\* Steps that take one scan.
VgrBrief == {0, 460, 530, 540, 640, 900}
VgrRoute == <<vgr, vgr'>> \in VgrRoutes \/ (vgr' = vgr /\ vgr \notin VgrBrief)
\* The conditions at the branches.
VgrGuards ==
  /\ Edge(70, 100) => FinishedBay # {} /\ bay' = FirstBay
  /\ Edge(70, 400) => FinishedBay = {} /\ "HBW_Outsource" \in bits
  /\ Edge(70, 600) => FinishedBay = {} /\ "HBW_Outsource" \notin bits /\ Held("DSI") # {}
  /\ Edge(520, 530) => "Discard_Ready" \in bits
  /\ Edge(550, 560) => "MPO_Discards_Accepted" \in bits
  /\ Edge(910, 920) => "HBW_Discards" \in bits
  /\ Edge(230, 240) \/ Edge(700, 710) \/ Edge(810, 820) => "NFC_Completed" \in bits
  /\ vgr # 70 => bay' = bay

OwnBits == {"HBW_Storage", "HBW_Outsource", "HBW_PickedUp", "HBW_Discards", "MPO_Req_Discard",
            "MPO_Discards", "NFC_Start_First", "NFC_Start", "Ready_For_Outsource"}
Remains(b) == b \in bits' <=> b \in bits
VgrRequests ==
  /\ "HBW_Storage" \in bits' <=>
       Edge(70, 600) \/ ("HBW_Storage" \in bits /\ vgr # 0 /\ ~Edge(910, 920))
  /\ "HBW_Outsource" \in bits' <=> ("HBW_Outsource" \in bits /\ vgr # 0)
  /\ "HBW_PickedUp" \in bits' <=> Edge(480, 485) \/ ("HBW_PickedUp" \in bits /\ ~Edge(500, 510))
  /\ "HBW_Discards" \in bits' <=>
       Edge(910, 910) \/ ("HBW_Discards" \in bits /\ ~Edge(910, 920) /\ ~Edge(960, 0))
  /\ "MPO_Req_Discard" \in bits' <=>
       Edge(460, 470) \/ ("MPO_Req_Discard" \in bits /\ ~Edge(520, 530))
  /\ "MPO_Discards" \in bits' <=>
       Edge(540, 550) \/ ("MPO_Discards" \in bits /\ ~Edge(550, 560) /\ ~Edge(560, 580))
  /\ "NFC_Start_First" \in bits' <=>
       Edge(700, 700) \/ ("NFC_Start_First" \in bits /\ vgr \notin {0, 700})
  /\ "NFC_Start" \in bits' <=>
       Edge(230, 230) \/ Edge(810, 810) \/ ("NFC_Start" \in bits /\ vgr \notin {0, 230, 810})
  /\ "Ready_For_Outsource" \in bits' <=>
       \/ vgr = 10 \/ Edge(70, 400) \/ Edge(70, 70)
       \/ "Ready_For_Outsource" \in bits /\ vgr \notin {0, 70} /\ ~Edge(540, 550)
VgrBits == VgrRequests /\ bits' \ OwnBits = bits \ OwnBits

\* The workpieces that one of its steps carries, and the records it moves.
VgrCarries ==
  /\ Edge(150, 160) => Carry(bay, "gripper")
  /\ Edge(290, 310) => Carry("gripper", "DSO")
  /\ Edge(470, 480) => Carry("belt", "gripper")
  /\ Edge(530, 540) => Carry("gripper", "oven")
  /\ Edge(640, 650) => Carry("DSI", "gripper")
  /\ Edge(900, 910) => Carry("gripper", "belt")
  /\ <<vgr, vgr'>> \notin {<<150, 160>>, <<290, 310>>, <<470, 480>>, <<530, 540>>, <<640, 650>>, <<900, 910>>}
       => at' = at
VgrWrites ==
  /\ Edge(150, 160) => wp' = [wp EXCEPT !["VGR"] = wp["SLD"], !["SLD"] = NoWorkpiece]
  /\ Edge(290, 310) => wp' = [wp EXCEPT !["SSC"] = wp["VGR"], !["VGR"] = NoWorkpiece]
  /\ vgr = 750 => \E c \in Readable : wp' = [wp EXCEPT !["VGR"].type = c]
  /\ vgr \in {580, 960} => wp' = wp \/ \E w : wp' = [wp EXCEPT !["VGR"] = w]
  /\ vgr \notin {580, 750, 960} /\ ~Edge(150, 160) /\ ~Edge(290, 310) => wp' = wp
VgrShows ==
  /\ Edge(70, 400) => state' = "ORDERED"
  /\ Edge(290, 310) => state' = "SHIPPED"
  /\ Edge(540, 550) => state' = "IN_PROCESS"
  /\ ~Edge(70, 400) /\ ~Edge(290, 310) /\ ~Edge(540, 550) => state' = state
VgrCall == VgrRoute /\ VgrGuards /\ VgrBits /\ VgrCarries /\ VgrWrites /\ VgrShows
             /\ UNCHANGED <<nfc, hbw, mpo, sld, ord, rack, act, typ, button, cont>>

LEMMA VgrStarts ==
  ASSUME TypeOK, HandInv, Dialogues, Places, VGRProgram, VgrInit \/ VgrHome \/ VgrMove
  PROVE  VgrCall
<1>0. ~Resets /\ bits \cap ErrorBit = {}
  BY DEF Dialogues, Asking, Untroubled, Resets, ResetBit, SetupBit, ErrorBit
<1>1. CASE VgrInit
  <2>1. Edge(0, 10)
    BY <1>0, <1>1 DEF VgrInit, Edge, Resets, ResetBit, ModeBit
  <2>2. at' = at
    <3>1. Held("gripper") = {} /\ at \in [Piece -> Place]
      BY <2>1 DEF Places, Gripped, HoldFinished, HoldOrder, HoldStore, Edge, TypeOK
    <3> QED  BY <1>1, <3>1 DEF VgrInit, Carry, Held
  <2>3. bits' = bits \ InitBit
    BY <1>0, <1>1 DEF VgrInit, Switch, MpoRequestOff, ErrorBit
  <2>4. VgrRequests
    BY <2>1, <2>3 DEF VgrRequests, InitBit, Edge
  <2>5. VgrRoute
    BY <2>1 DEF VgrRoute, VgrRoutes, Edge
  <2>6. bits' \ OwnBits = bits \ OwnBits
    BY <2>3 DEF InitBit, OwnBits
  <2> QED
    BY <1>1, <2>1, <2>2, <2>4, <2>5, <2>6
       DEF VgrInit, VgrCall, VgrGuards, VgrBits, VgrCarries, VgrWrites, VgrShows, Edge, VGRProgram
<1>2. CASE VgrHome
  <2>1. vgr = 10 /\ vgr' \in {10, 70}
    BY <1>2 DEF VgrHome, In
  <2>3. bits' = bits \cup {"Ready_For_Outsource"}
    BY <1>2 DEF VgrHome, Switch
  <2>4. VgrRequests
    BY <2>1, <2>3 DEF VgrRequests, Edge
  <2>5. VgrRoute
    BY <2>1 DEF VgrRoute, VgrRoutes, VgrBrief
  <2>6. bits' \ OwnBits = bits \ OwnBits
    BY <2>3 DEF OwnBits
  <2> QED
    BY <1>2, <2>1, <2>4, <2>5, <2>6
       DEF VgrHome, VgrCall, VgrGuards, VgrBits, VgrCarries, VgrWrites, VgrShows, Edge, VGRProgram
<1>3. CASE VgrMove
  <2>1. VgrRoute /\ vgr \notin {0, 10, 70, 230, 550, 580, 700, 750, 810, 910, 960}
        /\ (vgr' = vgr \/ <<vgr, vgr'>> \in FinishedMotion \cup OutsourceMotion \cup StoreMotion)
    BY <1>3 DEF VgrMove, VgrRoute, VgrRoutes, In, FinishedMotion, OutsourceMotion, StoreMotion, RejectMotion,
                VgrBrief, Dialogues, Asking, Untroubled
  <2>2. UNCHANGED <<bits, wp, at, bay, state>>
    BY <1>3 DEF VgrMove, vgrShared
  <2>3. VgrRequests
    BY <2>1, <2>2 DEF VgrRequests, Edge, FinishedMotion, OutsourceMotion, StoreMotion
  <2> QED
    BY <2>1, <2>2, <2>3
       DEF VgrCall, VgrGuards, VgrBits, VgrCarries, VgrWrites, VgrShows, Edge, VGRProgram,
           FinishedMotion, OutsourceMotion, StoreMotion
<1> QED BY <1>1, <1>2, <1>3

LEMMA VgrChooses ==
  ASSUME Dialogues, VGRProgram, VgrDispatch
  PROVE  VgrCall
<1>0. Good
  BY DEF Dialogues, Asking, Untroubled, ErrorBit, Good
<1>1. /\ vgr = 70 /\ UNCHANGED <<wp, at>> /\ bits' \ OwnBits = bits \ OwnBits
      /\ vgr' \in {70, 100, 400, 600} /\ (vgr' # 400 => state' = state)
  BY <1>0 DEF VgrDispatch, VgrDispatchBad, VgrDispatchFinished, VgrDispatchOutsource, VgrDispatchStore,
              VgrIdle, Dispatch, In, Switch, OwnBits, Unready
<1>2. VgrGuards
  BY <1>0, <1>1 DEF VgrDispatch, VgrDispatchBad, VgrDispatchFinished, VgrDispatchOutsource, VgrDispatchStore,
              VgrIdle, Dispatch, Ordered, VgrGuards, Edge
<1>3. VgrRequests
  BY <1>0, <1>1 DEF VgrDispatch, VgrDispatchBad, VgrDispatchFinished, VgrDispatchOutsource, VgrDispatchStore,
              VgrIdle, Dispatch, Switch, Unready, VgrRequests, Edge
<1>4. VgrRoute
  BY <1>1 DEF VgrRoute, VgrRoutes, VgrBrief
<1>5. Edge(70, 400) => state' = "ORDERED"
  BY <1>0 DEF VgrDispatch, VgrDispatchBad, VgrDispatchFinished, VgrDispatchOutsource, VgrDispatchStore,
              VgrIdle, Dispatch, Edge
<1> QED
  BY <1>1, <1>2, <1>3, <1>4, <1>5 DEF VgrCall, VgrBits, VgrCarries, VgrWrites, VgrShows, Edge, VGRProgram

LEMMA VgrAsks ==
  ASSUME VGRProgram, VgrNfc \/ VgrMeetContainer
  PROVE  VgrCall
<1>1. CASE VgrMeetContainer
  <2>1. /\ vgr \in {440, 880} /\ vgr' \in {vgr, vgr + 10} /\ UNCHANGED <<bits, wp, at, bay, state>>
    BY <1>1 DEF VgrMeetContainer, In, vgrShared
  <2> QED
    BY <2>1 DEF VgrCall, VgrRoute, VgrRoutes, VgrBrief, VgrGuards, VgrBits, VgrRequests, VgrCarries,
                VgrWrites, VgrShows, Edge, VGRProgram
<1>2. CASE VgrNfc
  <2>1. /\ vgr \in {230, 700, 810} /\ vgr' \in {vgr, vgr + 10} /\ UNCHANGED <<wp, at, bay, state>>
        /\ vgr' # vgr => "NFC_Completed" \in bits
        /\ bits' \ OwnBits = bits \ OwnBits
    BY <1>2 DEF VgrNfc, NfcRequest, In, Switch, OwnBits
  <2>2. VgrRequests
    BY <1>2, <2>1 DEF VgrNfc, NfcRequest, In, Switch, VgrRequests, Edge
  <2> QED
    BY <2>1, <2>2 DEF VgrCall, VgrRoute, VgrRoutes, VgrBrief, VgrGuards, VgrBits, VgrCarries,
                VgrWrites, VgrShows, Edge, VGRProgram
<1> QED BY <1>1, <1>2

LEMMA VgrFinishes ==
  ASSUME VGRProgram, VgrFinished
  PROVE  VgrCall
<1>1. /\ <<vgr, vgr'>> \in {<<150, 150>>, <<150, 160>>, <<270, 270>>, <<270, 280>>, <<280, 280>>,
                            <<280, 290>>, <<290, 290>>, <<290, 310>>}
      /\ UNCHANGED <<bits, bay>>
  BY DEF VgrFinished, VgrTakeFinished, VgrToShelf, VgrShip, In, vgrShared
<1>2. VgrCarries /\ VgrWrites /\ VgrShows
  BY <1>1 DEF VgrFinished, VgrTakeFinished, VgrToShelf, VgrShip, In, vgrShared, VgrCarries, VgrWrites, VgrShows, Edge
<1> QED
  BY <1>1, <1>2 DEF VgrCall, VgrRoute, VgrRoutes, VgrBrief, VgrGuards, VgrBits, VgrRequests, Edge, VGRProgram

LEMMA VgrOutsources ==
  ASSUME HandInv, Dialogues, Places, VGRProgram, VgrOutsource
  PROVE  VgrCall
<1>1. CASE VgrSuck
  <2>1. /\ <<vgr, vgr'>> \in {<<470, 480>>, <<470, 470>>} /\ UNCHANGED <<bits, wp, bay, state>>
    BY <1>1 DEF VgrSuck, In
  <2>2. VgrCarries
    BY <1>1, <2>1 DEF VgrSuck, VgrCarries, Edge, HandInv, BeltWaits, Reaching
  <2> QED
    BY <2>1, <2>2 DEF VgrCall, VgrRoute, VgrRoutes, VgrBrief, VgrGuards, VgrBits, VgrRequests,
                VgrWrites, VgrShows, Edge, VGRProgram
<1>2. CASE VgrReleaseOven
  <2>1. /\ Edge(530, 540) /\ UNCHANGED <<bits, wp, bay, state>>
    BY <1>2 DEF VgrReleaseOven, In, Edge
  <2>2. VgrCarries
    BY <1>2, <2>1 DEF VgrReleaseOven, VgrCarries, Edge, Dialogues, OvenTalk
  <2> QED
    BY <2>1, <2>2 DEF VgrCall, VgrRoute, VgrRoutes, VgrBrief, VgrGuards, VgrBits, VgrRequests,
                VgrWrites, VgrShows, Edge, VGRProgram
<1>3. CASE VgrRequestOven \/ VgrPickedUp \/ VgrLeaveBelt \/ VgrLowerToOven \/ VgrDiscardOven
             \/ VgrLeaveOven \/ VgrOutsourced
  <2>1. /\ <<vgr, vgr'>> \in {<<460, 470>>, <<480, 480>>, <<480, 485>>, <<500, 500>>, <<500, 510>>,
             <<520, 520>>, <<520, 530>>, <<540, 550>>, <<550, 550>>, <<550, 560>>, <<560, 560>>, <<560, 580>>,
             <<580, 580>>, <<580, 0>>}
        /\ UNCHANGED <<at, bay>> /\ bits' \ OwnBits = bits \ OwnBits
    BY <1>3 DEF VgrRequestOven, VgrPickedUp, VgrLeaveBelt, VgrLowerToOven, VgrDiscardOven, VgrLeaveOven,
                VgrOutsourced, In, Switch, OwnBits
  <2>2. VgrRequests
    BY <1>3, <2>1 DEF VgrRequestOven, VgrPickedUp, VgrLeaveBelt, VgrLowerToOven, VgrDiscardOven, VgrLeaveOven,
                VgrOutsourced, In, Switch, VgrRequests, Edge
  <2>3. VgrWrites
    <3>1. CASE vgr # 580
      BY <1>3, <2>1, <3>1 DEF VgrRequestOven, VgrPickedUp, VgrLeaveBelt, VgrLowerToOven, VgrDiscardOven, VgrLeaveOven,
                VgrOutsourced, In, VgrWrites, Edge
    <3>2. CASE vgr = 580
      <4>1. wp' = [wp EXCEPT !["VGR"] = NoWorkpiece] \/ wp' = wp
        BY <1>3, <3>2 DEF VgrRequestOven, VgrPickedUp, VgrLeaveBelt, VgrLowerToOven, VgrDiscardOven, VgrLeaveOven,
                VgrOutsourced, In
      <4> QED  BY <3>2, <4>1 DEF VgrWrites, Edge
    <3> QED  BY <3>1, <3>2
  <2>4. VgrGuards /\ VgrShows
    BY <1>3, <2>1 DEF VgrRequestOven, VgrPickedUp, VgrLeaveBelt, VgrLowerToOven, VgrDiscardOven, VgrLeaveOven,
                VgrOutsourced, In, VgrGuards, VgrShows, Edge, OvenReady
  <2> QED
    BY <2>1, <2>2, <2>3, <2>4 DEF VgrCall, VgrRoute, VgrRoutes, VgrBrief, VgrBits, VgrCarries, Edge, VGRProgram
<1> QED BY <1>1, <1>2, <1>3 DEF VgrOutsource

LEMMA VgrStores ==
  ASSUME HandInv, Dialogues, Places, VGRProgram, VgrStore
  PROVE  VgrCall
<1>1. CASE VgrTakeDelivered
  <2>1. /\ Edge(640, 650) /\ UNCHANGED <<bits, wp, bay, state>> /\ Carry("DSI", "gripper")
    BY <1>1 DEF VgrTakeDelivered, In, Edge
  <2> QED
    BY <2>1 DEF VgrCall, VgrRoute, VgrRoutes, VgrBrief, VgrGuards, VgrBits, VgrRequests, VgrCarries,
                VgrWrites, VgrShows, Edge, VGRProgram
<1>2. CASE VgrMeasureColour
  <2>1. /\ vgr = 750 /\ vgr' \in {750, 760} /\ UNCHANGED <<bits, at, bay, state>>
        /\ \E c \in Readable : wp' = [wp EXCEPT !["VGR"].type = c]
    BY <1>2 DEF VgrMeasureColour, In
  <2>2. /\ ~Edge(150, 160) /\ ~Edge(290, 310) /\ vgr \notin {580, 960}
        /\ ~(vgr \notin {580, 750, 960})
    BY <2>1 DEF Edge
  <2>3. VgrWrites
    BY <2>1, <2>2, ZenonT(60) DEF VgrWrites
  <2> QED
    BY <2>1, <2>3 DEF VgrCall, VgrRoute, VgrRoutes, VgrBrief, VgrGuards, VgrBits, VgrRequests, VgrCarries,
                VgrShows, Edge, VGRProgram
<1>3. CASE VgrRelease
  <2>1. /\ Edge(900, 910) /\ UNCHANGED <<bits, wp, bay, state>>
        /\ Carry("gripper", IF cont = "outside" /\ Held("belt") = {} THEN "belt" ELSE "lost")
    BY <1>3 DEF VgrRelease, In, Edge
  <2>2. cont = "outside" /\ hbw = 180 /\ "HBW_Storage" \in bits
    BY <2>1 DEF HandInv, BeltWaits, StorageStands, ForStorage, Reaching, Edge, Parked, Dialogues, Asking,
                Reports, Untroubled, SetupBit, ModeBit
  <2>3. Held("belt") = {}
    BY <2>1, <2>2 DEF Places, OnBelt, Bringing, Edge
  <2> QED
    BY <2>1, <2>2, <2>3 DEF VgrCall, VgrRoute, VgrRoutes, VgrBrief, VgrGuards, VgrBits, VgrRequests, VgrCarries,
                VgrWrites, VgrShows, Edge, VGRProgram
<1>4. CASE VgrDiscardBelt \/ VgrStored
  <2>1. /\ <<vgr, vgr'>> \in {<<910, 910>>, <<910, 920>>, <<960, 960>>, <<960, 0>>}
        /\ UNCHANGED <<at, bay, state>> /\ bits' \ OwnBits = bits \ OwnBits
        /\ Edge(910, 920) => "HBW_Discards" \in bits
    BY <1>4 DEF VgrDiscardBelt, VgrStored, In, Switch, OwnBits, Edge
  <2>2. VgrRequests
    BY <1>4, <2>1 DEF VgrDiscardBelt, VgrStored, In, Switch, VgrRequests, Edge
  <2>3. (vgr = 910 => wp' = wp) /\ (vgr = 960 => wp' = wp \/ wp' = [wp EXCEPT !["VGR"] = BlankWorkpiece])
    BY <1>4 DEF VgrDiscardBelt, VgrStored, In
  <2> QED
    BY <2>1, <2>2, <2>3 DEF VgrCall, VgrRoute, VgrRoutes, VgrBrief, VgrGuards, VgrBits, VgrCarries,
                VgrWrites, VgrShows, Edge, VGRProgram
<1> QED BY <1>1, <1>2, <1>3, <1>4 DEF VgrStore

LEMMA VgrCalled ==
  ASSUME TypeOK, HandInv, Dialogues, Places, VGRProgram
  PROVE  VgrCall
<1>1. ~VgrBadPart
  BY DEF Dialogues, Asking, Untroubled, ErrorBit, VgrBadPart, NiOEdge
<1>2. ~VgrBad
  BY DEF Dialogues, Asking, Untroubled, VgrBad, VgrReject, VgrDropBad, VgrRejected, In
<1> QED
  BY <1>1, <1>2, VgrStarts, VgrChooses, VgrAsks, VgrFinishes, VgrOutsources, VgrStores DEF VGRProgram

-----------------------------------------------------------------------------
(* What one call of the warehouse's program does.                          *)

HbwEdge(a, b) == hbw = a /\ hbw' = b
HbwRoutes == {<<0, 10>>, <<10, 40>>, <<40, 50>>, <<40, 60>>, <<50, 70>>, <<60, 70>>, <<70, 100>>,
              <<100, 110>>, <<110, 170>>, <<170, 180>>, <<180, 190>>, <<190, 200>>, <<200, 210>>,
              <<210, 250>>, <<250, 260>>, <<260, 0>>}
HbwRoute == <<hbw, hbw'>> \in HbwRoutes \/ (hbw' = hbw /\ hbw \notin {0, 60})
HbwGuards ==
  /\ HbwEdge(40, 50) => "HBW_Storage" \in bits
  /\ HbwEdge(40, 60) => "HBW_Outsource" \in bits
  /\ HbwEdge(50, 70) => FreeSlots # {} /\ act' = FirstOf(FreeSlots)
  /\ HbwEdge(60, 70) => act' = IF OfType(typ) = {} THEN act ELSE Oldest(OfType(typ))
  /\ HbwEdge(100, 110) => act \in Slot
  /\ HbwEdge(180, 190) => PickedUp \/ Discarded
  /\ ~HbwEdge(50, 70) /\ ~HbwEdge(60, 70) => act' = act
HbwBits ==
  /\ "lx_Storage" \in bits' <=> \/ HbwEdge(180, 190) /\ Discarded
                                \/ "lx_Storage" \in bits /\ hbw # 40 /\ ~HbwEdge(260, 0)
  /\ "HBW_Error" \notin bits' /\ bits' \ HbwBit = bits \ HbwBit
HbwCarries ==
  /\ HbwEdge(100, 110) => Carry(act, "belt")
  /\ HbwEdge(250, 260) => Carry("belt", act)
  /\ ~HbwEdge(100, 110) /\ ~HbwEdge(250, 260) => at' = at
HbwWrites ==
  /\ HbwEdge(100, 110) /\ "HBW_Storage" \notin bits =>
       wp' = [wp EXCEPT !["HBW"] = [id |-> rack[act].id, type |-> rack[act].type]]
  /\ HbwEdge(180, 190) /\ PickedUp => wp' = [wp EXCEPT !["VGR"] = wp["HBW"], !["HBW"] = NoWorkpiece]
  /\ HbwEdge(180, 190) /\ ~PickedUp => wp' = [wp EXCEPT !["HBW"] = wp["VGR"]]
  /\ (HbwEdge(100, 110) => "HBW_Storage" \in bits) /\ ~HbwEdge(180, 190) => wp' = wp
HbwRecords ==
  /\ HbwEdge(100, 110) =>
       rack' = IF "HBW_Storage" \in bits THEN [rack EXCEPT ![act].id = Blank]
               ELSE [rack EXCEPT ![act] = BlankEntry]
  /\ HbwEdge(250, 260) =>
       rack' = IF "lx_Storage" \in bits
                 THEN Stamped([id |-> wp["HBW"].id, type |-> wp["HBW"].type, ts |-> 0])
                 ELSE [rack EXCEPT ![act].id = "0"]
  /\ ~HbwEdge(100, 110) /\ ~HbwEdge(250, 260) => rack' = rack
HbwCall == HbwRoute /\ HbwGuards /\ HbwBits /\ HbwCarries /\ HbwWrites /\ HbwRecords
             /\ UNCHANGED <<vgr, nfc, mpo, sld, ord, bay, typ, state, button>>

\* Without a request to clear the rack a scan writes what its step says.
LEMMA NoClearing ==
  ASSUME Untroubled
  PROVE  /\ ~Stopped /\ "HBW_Error" \notin bits
         /\ \A r : SetRack(r) => rack' = r
         /\ \A on, off : HbwSwitch(on, off) =>
              \A b \in Bit \ {"Clean_Rack_HBW"} : b \in bits' <=> (b \in bits /\ b \notin off) \/ b \in on
         /\ \A on, off : HbwSwitch(on, off) /\ on \cup off \subseteq HbwBit => bits' \ HbwBit = bits \ HbwBit
<1>1. "Clean_Rack_HBW" \notin bits /\ ~Stopped /\ "HBW_Error" \notin bits
  BY DEF Untroubled, SetupBit, ErrorBit, ModeBit, Stopped
<1>2. \A r : SetRack(r) => rack' = r
  BY <1>1 DEF SetRack, CleanRequest
<1>3. ASSUME NEW on, NEW off, HbwSwitch(on, off)
      PROVE  \A b \in Bit \ {"Clean_Rack_HBW"} : b \in bits' <=> (b \in bits /\ b \notin off) \/ b \in on
  BY <1>1, <1>3 DEF HbwSwitch, Switch, CleanRequest
<1>4. ASSUME NEW on, NEW off, HbwSwitch(on, off), on \cup off \subseteq HbwBit
      PROVE  bits' \ HbwBit = bits \ HbwBit
  BY <1>1, <1>4 DEF HbwSwitch, Switch, CleanRequest
<1> QED BY <1>1, <1>2, <1>3, <1>4

LEMMA HbwQuiet ==
  ASSUME Untroubled, HBWProgram, HbwInit \/ HbwMove \/ HbwDecide \/ HbwFindFree \/ HbwFindOrdered
  PROVE  HbwCall
<1>1. /\ \/ HbwEdge(0, 10) \/ HbwEdge(10, 40) \/ HbwEdge(10, 10) \/ HbwEdge(40, 40) \/ HbwEdge(40, 50)
         \/ HbwEdge(40, 60) \/ HbwEdge(50, 50) \/ HbwEdge(50, 70) \/ HbwEdge(60, 70) \/ HbwEdge(70, 70)
         \/ HbwEdge(70, 100) \/ HbwEdge(110, 110) \/ HbwEdge(110, 170) \/ HbwEdge(200, 200)
         \/ HbwEdge(200, 210) \/ HbwEdge(210, 210) \/ HbwEdge(210, 250)
      /\ UNCHANGED <<wp, at>>
  BY NoClearing DEF HbwInit, HbwMove, HbwMotion, HbwDecide, HbwFindFree, HbwFindOrdered, Hbw, HbwEdge
<1>2. rack' = rack
  BY NoClearing DEF HbwInit, HbwMove, HbwDecide, HbwFindFree, HbwFindOrdered
<1>3. HbwSwitch({}, IF hbw = 40 THEN {"lx_Storage"} ELSE {})
  BY NoClearing DEF HbwInit, HbwMove, HbwMotion, HbwDecide, HbwFindFree, HbwFindOrdered, Hbw
<1>4. HbwBits
  <2> DEFINE off == IF hbw = 40 THEN {"lx_Storage"} ELSE {}
  <2>1. {} \cup off \subseteq HbwBit /\ HbwSwitch({}, off)
    BY <1>3 DEF HbwBit
  <2>2. /\ bits' \ HbwBit = bits \ HbwBit
        /\ \A b \in Bit \ {"Clean_Rack_HBW"} : b \in bits' <=> (b \in bits /\ b \notin off) \/ b \in {}
    <3> HIDE DEF off
    <3> QED  BY <2>1, NoClearing
  <2>3. {"lx_Storage", "HBW_Error"} \subseteq Bit \ {"Clean_Rack_HBW"}
    BY DEF Bit, HbwBit
  <2>4. ("lx_Storage" \in bits' <=> "lx_Storage" \in bits /\ hbw # 40) /\ "HBW_Error" \notin bits'
    BY <2>2, <2>3, NoClearing
  <2> QED
    BY <1>1, <2>2, <2>4 DEF HbwBits, HbwEdge
<1>5. HbwGuards
  BY <1>1, NoClearing DEF HbwInit, HbwMove, HbwMotion, HbwDecide, HbwFindFree, HbwFindOrdered, Hbw,
     HbwGuards, HbwEdge
<1>6. HbwRoute
  BY <1>1 DEF HbwRoute, HbwRoutes, HbwEdge
<1> QED
  BY <1>1, <1>2, <1>4, <1>5, <1>6 DEF HbwCall, HbwCarries, HbwWrites, HbwRecords, HbwEdge, HBWProgram

\* One call that raises and lowers bits of its own.
LEMMA HbwSwitched ==
  ASSUME Untroubled, NEW on, NEW off, HbwSwitch(on, off), on \cup off \subseteq HbwBit,
         "HBW_Error" \notin on
  PROVE  /\ "HBW_Error" \notin bits' /\ bits' \ HbwBit = bits \ HbwBit
         /\ "lx_Storage" \in bits' <=> ("lx_Storage" \in bits /\ "lx_Storage" \notin off) \/ "lx_Storage" \in on
<1>1. {"lx_Storage", "HBW_Error"} \subseteq Bit \ {"Clean_Rack_HBW"}
  BY DEF Bit, HbwBit
<1>2. \A b \in Bit \ {"Clean_Rack_HBW"} : b \in bits' <=> (b \in bits /\ b \notin off) \/ b \in on
  BY NoClearing
<1>3. "HBW_Error" \notin bits /\ bits' \ HbwBit = bits \ HbwBit
  BY NoClearing
<1> QED BY <1>1, <1>2, <1>3

LEMMA HbwBusy ==
  ASSUME Untroubled, Job, HBWProgram, HbwFetch \/ HbwOffer \/ HbwHandOver \/ HbwTakeBack \/ HbwReturn \/ HbwDone
  PROVE  HbwCall
<1>0. \A r : SetRack(r) => rack' = r
  BY NoClearing
<1>1. CASE HbwFetch
  <2>1. HbwSwitch({}, {}) /\ (HbwEdge(100, 100) \/ HbwEdge(100, 110)) /\ act' = act
    BY <1>1 DEF HbwFetch, HbwEdge, Hbw
  <2>2. HbwBits
    BY <2>1, HbwSwitched DEF HbwBits, HbwEdge
  <2>3. bits \cap {"HBW_Storage", "HBW_Outsource"} # {}
    BY <2>1 DEF Job, Searching, HbwEdge
  <2>4. CASE HbwEdge(100, 100)
    <3>1. UNCHANGED <<wp, at>> /\ rack' = rack
      BY <1>0, <1>1, <2>4 DEF HbwFetch, HbwEdge
    <3> QED
      BY <2>1, <2>2, <2>4, <3>1 DEF HbwCall, HbwRoute, HbwGuards, HbwCarries, HbwWrites, HbwRecords,
                                    HbwEdge, HBWProgram
  <2>5. CASE HbwEdge(100, 110)
    <3>1. act \in Slot /\ Carry(act, "belt")
      BY <1>1, <2>5 DEF HbwFetch, HbwEdge
    <3>2. HbwWrites
      BY <1>1, <2>3, <2>5 DEF HbwFetch, HbwEdge, HbwWrites
    <3>3. HbwRecords
      <4>1. \/ "HBW_Storage" \in bits /\ SetRack([rack EXCEPT ![act].id = Blank])
            \/ "HBW_Storage" \notin bits /\ SetRack([rack EXCEPT ![act] = BlankEntry])
        BY <1>1, <2>3, <2>5 DEF HbwFetch, HbwEdge, Cleared
      <4>2. ~HbwEdge(250, 260)
        BY <2>5 DEF HbwEdge
      <4>3. \/ "HBW_Storage" \in bits /\ rack' = [rack EXCEPT ![act].id = Blank]
            \/ "HBW_Storage" \notin bits /\ rack' = [rack EXCEPT ![act] = BlankEntry]
        BY <1>0, <4>1, Zenon
      <4> QED  BY <4>3, <4>2, <2>5 DEF HbwRecords
    <3> QED
      BY <2>1, <2>2, <2>5, <3>1, <3>2, <3>3 DEF HbwCall, HbwRoute, HbwRoutes, HbwGuards, HbwCarries,
                                    HbwEdge, HBWProgram
  <2> QED BY <2>1, <2>4, <2>5
<1>2. CASE HbwOffer
  <2>1. /\ HbwSwitch({}, {}) \/ HbwSwitch({"Container_Available"}, {})
        /\ (HbwEdge(170, 170) \/ HbwEdge(170, 180)) /\ UNCHANGED <<act, wp, at>> /\ rack' = rack
    BY <1>0, <1>2 DEF HbwOffer, HbwEdge, Hbw
  <2>2. {"Container_Available"} \cup {} \subseteq HbwBit /\ {} \cup {} \subseteq HbwBit
    BY DEF HbwBit
  <2>3. HbwBits
    BY <2>1, <2>2, HbwSwitched DEF HbwBits, HbwEdge
  <2> QED
    BY <2>1, <2>3 DEF HbwCall, HbwRoute, HbwRoutes, HbwGuards, HbwCarries, HbwWrites, HbwRecords, HbwEdge, HBWProgram
<1>3. CASE HbwHandOver
  <2>1. /\ UNCHANGED <<act, at>> /\ rack' = rack
        /\ \/ PickedUp /\ HbwEdge(180, 190) /\ HbwSwitch({"PickedUp_Accepted"}, {"Container_Available"})
              /\ wp' = [wp EXCEPT !["VGR"] = wp["HBW"], !["HBW"] = NoWorkpiece]
           \/ Discarded /\ HbwEdge(180, 190)
              /\ HbwSwitch({"Discards_Accepted", "lx_Storage"}, {"Container_Available"})
              /\ wp' = [wp EXCEPT !["HBW"] = wp["VGR"]]
           \/ ~PickedUp /\ ~Discarded /\ HbwEdge(180, 180) /\ HbwSwitch({}, {}) /\ wp' = wp
    BY <1>0, <1>3 DEF HbwHandOver, HbwEdge, Hbw
  <2>2. /\ {"PickedUp_Accepted"} \cup {"Container_Available"} \subseteq HbwBit
        /\ {"Discards_Accepted", "lx_Storage"} \cup {"Container_Available"} \subseteq HbwBit
        /\ {} \cup {} \subseteq HbwBit
    BY DEF HbwBit
  <2>3. Discarded => ~PickedUp
    BY DEF Discarded
  <2>4. HbwBits
    BY <2>1, <2>2, <2>3, HbwSwitched DEF HbwBits, HbwEdge
  <2>5. HbwWrites
    BY <2>1, <2>3 DEF HbwWrites, HbwEdge
  <2> QED
    BY <2>1, <2>4, <2>5 DEF HbwCall, HbwRoute, HbwRoutes, HbwGuards, HbwCarries, HbwRecords, HbwEdge, HBWProgram
<1>4. CASE HbwTakeBack
  <2>1. /\ HbwSwitch({}, {}) /\ UNCHANGED <<act, wp, at>> /\ rack' = rack
        /\ HbwEdge(190, 190) \/ HbwEdge(190, 200)
    BY <1>0, <1>4 DEF HbwTakeBack, HbwEdge, Hbw
  <2>2. HbwBits
    BY <2>1, HbwSwitched DEF HbwBits, HbwEdge
  <2> QED
    BY <2>1, <2>2 DEF HbwCall, HbwRoute, HbwRoutes, HbwGuards, HbwCarries, HbwWrites, HbwRecords, HbwEdge, HBWProgram
<1>5. CASE HbwReturn
  <2>1. /\ HbwSwitch({}, {}) /\ UNCHANGED <<act, wp>>
        /\ \/ HbwEdge(250, 250) /\ at' = at /\ rack' = rack
           \/ HbwEdge(250, 260) /\ Carry("belt", act)
    BY <1>0, <1>5 DEF HbwReturn, HbwEdge, Hbw
  <2>2. HbwBits
    BY <2>1, HbwSwitched DEF HbwBits, HbwEdge
  <2>3. HbwRecords
    BY <1>0, <1>5, <2>1 DEF HbwReturn, HbwEdge, HbwRecords, JobWasStorage
  <2> QED
    BY <2>1, <2>2, <2>3 DEF HbwCall, HbwRoute, HbwRoutes, HbwGuards, HbwCarries, HbwWrites, HbwEdge, HBWProgram
<1>6. CASE HbwDone
  <2>1. /\ UNCHANGED <<act, wp, at>> /\ rack' = rack
        /\ \/ HbwEdge(260, 260) /\ HbwSwitch({}, {})
           \/ HbwEdge(260, 0) /\ HbwSwitch({}, {"lx_Storage"})
    BY <1>0, <1>6 DEF HbwDone, HbwEdge, Hbw
  <2>2. {} \cup {"lx_Storage"} \subseteq HbwBit /\ {} \cup {} \subseteq HbwBit
    BY DEF HbwBit
  <2>3. HbwBits
    BY <2>1, <2>2, HbwSwitched DEF HbwBits, HbwEdge
  <2> QED
    BY <2>1, <2>3 DEF HbwCall, HbwRoute, HbwRoutes, HbwGuards, HbwCarries, HbwWrites, HbwRecords, HbwEdge, HBWProgram
<1> QED BY <1>1, <1>2, <1>3, <1>4, <1>5, <1>6

LEMMA HbwCalled ==
  ASSUME HbwMayFail = FALSE, Dialogues, HBWProgram
  PROVE  HbwCall
<1>1. ~HbwTimeout /\ Untroubled /\ Job
  BY DEF HbwTimeout, Dialogues, Asking
<1> QED
  BY <1>1, HbwQuiet, HbwBusy DEF HBWProgram

-----------------------------------------------------------------------------
(* The invariant as a whole, and what a call of the robot's program leaves *)
(* of it.                                                                  *)

NormalInv == /\ TypeOK /\ SlotKnown /\ StorageAlone /\ HandInv
             /\ Dialogues /\ Places /\ Orders /\ RackRight /\ Records

\* What the robot's program finds: it is called first in a scan.
VgrTurn == NormalInv /\ VgrCall /\ prg = "VGR" /\ prg' = "NFC"

\* The robot withdraws the storage only after the warehouse has noticed.
LEMMA WithdrawsNoticed ==
  ASSUME VgrTurn
  PROVE  /\ Edge(910, 920) => hbw = 190
         /\ Edge(500, 510) => hbw = 190
<1>1. ~Parked /\ ~BeforeHBW
  BY DEF VgrTurn, NormalInv, Dialogues, Asking, Untroubled, Parked, SetupBit, ModeBit, BeforeHBW
<1> QED
  BY <1>1 DEF VgrTurn, NormalInv, VgrCall, VgrGuards, HandInv, BeltWaits, DiscardSeen, PickUpSeen, PickUpStands,
     Reaching, StorageReach, Edge

LEMMA VgrKeepsAsking == ASSUME VgrTurn PROVE Asking'
<1>1. Asking /\ VgrBits /\ VgrRoute /\ VgrGuards
  BY DEF VgrTurn, NormalInv, Dialogues, VgrCall
<1>2. vgr' < 1000 /\ Untroubled'
  BY <1>1 DEF Asking, Untroubled, VgrBits, VgrRoute, VgrRoutes, OwnBits, ErrorBit, SetupBit, ModeBit
<1>3. StoreAsked' /\ Reports' /\ Readiness'
  BY <1>1 DEF Asking, VgrBits, VgrRequests, VgrRoute, VgrRoutes, StoreAsked, Reports, Readiness, ForStorage,
     ForOrder, ToOven, Edge
<1>4. OrderAsked'
  BY <1>1 DEF VgrTurn, VgrCall, Asking, OrderAsked, OrderRuns, VgrBits, VgrRequests, ForOrder
<1>5. OrderRuns'
  <2>1. ord = 20 => ~Edge(70, 100)
    BY <1>1 DEF VgrGuards, FinishedBay, VgrTurn, NormalInv, Orders, OrderLife, Finishing, Held, Colour
  <2> QED
    BY <1>1, <2>1 DEF VgrTurn, VgrCall, Asking, OrderAsked, OrderRuns, VgrGuards, VgrRoute, VgrRoutes, ForOrder, Edge
<1> QED BY <1>2, <1>3, <1>4, <1>5 DEF Asking

LEMMA VgrKeepsJob == ASSUME VgrTurn PROVE Job'
<1>1. Asking /\ Job /\ VgrBits /\ VgrRoute /\ UNCHANGED <<hbw, ord>>
  BY DEF VgrTurn, NormalInv, Dialogues, VgrCall
<1>2. "lx_Storage" \in bits' <=> "lx_Storage" \in bits
  BY <1>1 DEF VgrBits, OwnBits
<1>3. hbw \in Searching \cup Bringing => Remains("HBW_Storage") /\ Remains("HBW_Outsource")
  <2>1. "HBW_Outsource" \in bits => vgr # 0
    BY <1>1 DEF Asking, OrderAsked, OrderRuns, ForOrder
  <2>2. "HBW_Storage" \in bits => vgr # 0
    BY <1>1 DEF Asking, StoreAsked, ForStorage
  <2>3. hbw \in Searching \cup Bringing => ~Edge(910, 920)
    BY WithdrawsNoticed DEF Searching, Bringing
  <2>4. Edge(70, 600) => hbw \notin Searching \cup Bringing
    BY <1>1 DEF VgrTurn, VgrCall, VgrGuards, Edge, Job, Asking, StoreAsked, ForStorage
  <2> QED
    BY <1>1, <2>1, <2>2, <2>3, <2>4 DEF VgrBits, VgrRequests, Remains
<1>4. vgr' = 485 /\ ord # 20 => vgr = 485
  BY <1>1 DEF VgrRoute, VgrRoutes, Asking, OrderRuns, ForOrder
<1> QED
  BY <1>1, <1>2, <1>3, <1>4 DEF Job, Remains, Searching, Bringing

LEMMA VgrKeepsOvenTalk == ASSUME VgrTurn PROVE OvenTalk'
<1>1. OvenTalk /\ VgrBits /\ VgrRoute /\ VgrGuards /\ mpo' = mpo
  BY DEF VgrTurn, NormalInv, Dialogues, VgrCall
<1>2. Remains("Discard_Ready") /\ Remains("MPO_Discards_Accepted")
  BY <1>1 DEF VgrBits, OwnBits, Remains
<1>3. ("MPO_Req_Discard" \in bits' => vgr' \in Opening) /\ ("MPO_Discards" \in bits' <=> vgr' = 550)
  BY <1>1 DEF OvenTalk, VgrBits, VgrRequests, VgrRoute, VgrRoutes, Opening, Edge
<1>4. /\ mpo = 70 => vgr' \in Opening
      /\ mpo = 100 => vgr' \in Opening \cup {530, 540, 550}
      /\ vgr' \in {530, 540} => mpo = 100
      /\ vgr' = 550 => mpo \in {100, 105}
  BY <1>1 DEF OvenTalk, VgrGuards, VgrRoute, VgrRoutes, Opening, Edge, VgrBrief
<1> QED
  BY <1>1, <1>2, <1>3, <1>4 DEF OvenTalk, Remains

LEMMA VgrKeepsReaderTalk == ASSUME VgrTurn PROVE ReaderTalk'
<1>1. ReaderTalk /\ VgrBits /\ VgrRoute /\ VgrGuards /\ nfc' = nfc /\ prg' = "NFC"
  BY DEF VgrTurn, NormalInv, Dialogues, VgrCall
<1>2. Remains("NFC_Completed")
  BY <1>1 DEF VgrBits, OwnBits, Remains
<1>3. /\ "NFC_Start_First" \in bits' => vgr' = 700
      /\ "NFC_Start" \in bits' => vgr' \in {230, 810}
  BY <1>1 DEF ReaderTalk, VgrBits, VgrRequests, VgrRoute, VgrRoutes, Edge
<1>4. nfc \in {20, 50} /\ vgr \in {230, 700, 810} => vgr' = vgr
  BY <1>1 DEF ReaderTalk, VgrGuards, VgrRoute, VgrRoutes, Edge
<1> QED
  BY <1>1, <1>2, <1>3, <1>4 DEF ReaderTalk, Remains

\* Where the robot's call leaves each workpiece.
VgrPlaced ==
  \A p \in Piece :
    at'[p] = IF \/ Edge(150, 160) /\ at[p] = bay
                \/ Edge(470, 480) /\ at[p] = "belt"
                \/ Edge(640, 650) /\ at[p] = "DSI" THEN "gripper"
             ELSE IF at[p] = "gripper" /\ Edge(290, 310) THEN "DSO"
             ELSE IF at[p] = "gripper" /\ Edge(530, 540) THEN "oven"
             ELSE IF at[p] = "gripper" /\ Edge(900, 910) THEN "belt"
             ELSE at[p]

LEMMA VgrPlaces == ASSUME VgrTurn PROVE VgrPlaced
<1>1. VgrCarries /\ at \in [Piece -> Place]
  BY DEF VgrTurn, NormalInv, TypeOK, VgrCall
<1>2. CASE Edge(150, 160)
  BY <1>1, <1>2 DEF VgrCarries, VgrPlaced, Edge, Carry
<1>3. CASE Edge(290, 310)
  BY <1>1, <1>3 DEF VgrCarries, VgrPlaced, Edge, Carry
<1>4. CASE Edge(470, 480)
  BY <1>1, <1>4 DEF VgrCarries, VgrPlaced, Edge, Carry
<1>5. CASE Edge(530, 540)
  BY <1>1, <1>5 DEF VgrCarries, VgrPlaced, Edge, Carry
<1>6. CASE Edge(640, 650)
  BY <1>1, <1>6 DEF VgrCarries, VgrPlaced, Edge, Carry
<1>7. CASE Edge(900, 910)
  BY <1>1, <1>7 DEF VgrCarries, VgrPlaced, Edge, Carry
<1>8. CASE ~Edge(150, 160) /\ ~Edge(290, 310) /\ ~Edge(470, 480) /\ ~Edge(530, 540) /\ ~Edge(640, 650)
           /\ ~Edge(900, 910)
  <2>1. at' = at
    BY <1>1, <1>8 DEF VgrCarries, Edge
  <2> QED  BY <1>8, <2>1 DEF VgrPlaced
<1> QED BY <1>2, <1>3, <1>4, <1>5, <1>6, <1>7, <1>8

\* At the belt the robot meets the warehouse in step 180.
LEMMA AtTheBelt ==
  ASSUME VgrTurn
  PROVE  /\ vgr \in {450, 460, 470, 480} => hbw = 180 /\ "HBW_Outsource" \in bits /\ "HBW_Storage" \notin bits
         /\ vgr \in {890, 900} => hbw = 180 /\ "HBW_Storage" \in bits /\ "HBW_Outsource" \notin bits
<1>1. ~Parked /\ Asking /\ HandInv /\ StorageAlone
  BY DEF VgrTurn, NormalInv, Dialogues, Asking, Untroubled, Parked, SetupBit, ModeBit
<1> QED
  BY <1>1 DEF HandInv, BeltWaits, Asking, Reports, OrderAsked, OrderRuns, StorageStands, StorageAlone,
     Reaching, ForOrder, ForStorage

LEMMA VgrKeepsGripped == ASSUME VgrTurn PROVE Gripped'
<1>1. VgrRoute /\ VgrPlaced /\ Places /\ OrderLife /\ UNCHANGED <<hbw>>
  BY VgrPlaces DEF VgrTurn, NormalInv, Orders, VgrCall
<1>2. Slot \cap (Station \cup Colour) = {}
  BY PlantAssumption
<1>3. CASE Edge(150, 160)
  <2>1. bay \in Colour /\ Held(bay) # {} /\ Held("gripper") = {}
    BY <1>1, <1>3 DEF Places, BayChosen, Gripped, Edge, HoldFinished, HoldOrder, HoldStore
  <2>2. \A p, q \in Held(bay) : p = q
    BY <1>1, <2>1 DEF OrderLife, Single, Finishing, Held
  <2>3. \A p \in Piece : at'[p] = "gripper" <=> at[p] = bay
    <3>1. \A p \in Piece : at[p] # "gripper"
      BY <2>1 DEF Held
    <3> QED  BY <1>1, <1>3, <3>1 DEF VgrPlaced, Edge
  <2> QED  BY <1>3, <2>1, <2>2, <2>3 DEF Gripped, Single, Held, Edge, HoldFinished
<1>4. CASE Edge(470, 480)
  <2>1. Held("belt") # {} /\ Single(Held("belt")) /\ Held("gripper") = {}
    BY <1>1, <1>4, AtTheBelt DEF Places, OnBelt, Bringing, Gripped, Edge, HoldFinished, HoldOrder, HoldStore
  <2>2. \A p \in Piece : at'[p] = "gripper" <=> at[p] = "belt"
    <3>1. \A p \in Piece : at[p] # "gripper"
      BY <2>1 DEF Held
    <3> QED  BY <1>1, <1>4, <3>1 DEF VgrPlaced, Edge
  <2> QED  BY <1>4, <2>1, <2>2 DEF Gripped, Single, Held, Edge, HoldOrder
<1>5. CASE Edge(640, 650)
  <2>1. Held("DSI") # {} /\ Single(Held("DSI")) /\ Held("gripper") = {}
    BY <1>1, <1>5 DEF Places, Delivered, Gripped, Edge, HoldFinished, HoldOrder, HoldStore
  <2>2. \A p \in Piece : at'[p] = "gripper" <=> at[p] = "DSI"
    BY <1>1, <1>5, <2>1 DEF VgrPlaced, Edge, Held
  <2> QED  BY <1>5, <2>1, <2>2 DEF Gripped, Single, Held, Edge, HoldStore
<1>6. CASE Edge(290, 310) \/ Edge(530, 540) \/ Edge(900, 910)
  <2>1. \A p \in Piece : at'[p] # "gripper"
    BY <1>1, <1>6 DEF VgrPlaced, Edge
  <2> QED  BY <1>6, <2>1 DEF Gripped, Single, Held, Edge, HoldFinished, HoldOrder, HoldStore
<1>7. CASE ~Edge(150, 160) /\ ~Edge(470, 480) /\ ~Edge(640, 650) /\ ~Edge(290, 310) /\ ~Edge(530, 540)
           /\ ~Edge(900, 910)
  <2>1. \A p \in Piece : at'[p] = at[p]
    BY <1>1, <1>7 DEF VgrPlaced
  <2>2. vgr' \in HoldFinished \cup HoldOrder \cup HoldStore <=> vgr \in HoldFinished \cup HoldOrder \cup HoldStore
    BY <1>1, <1>7 DEF VgrRoute, VgrRoutes, Edge, HoldFinished, HoldOrder, HoldStore
  <2> QED  BY <1>1, <2>1, <2>2 DEF Places, Gripped, Single, Held
<1> QED BY <1>3, <1>4, <1>5, <1>6, <1>7

LEMMA VgrKeepsPlaces == ASSUME VgrTurn PROVE Places'
<1>1. /\ VgrRoute /\ VgrGuards /\ VgrPlaced /\ VgrBits /\ Places /\ Dialogues /\ OrderLife
      /\ UNCHANGED <<hbw, mpo, ord>> /\ prg = "VGR"
  BY VgrPlaces DEF VgrTurn, NormalInv, Orders, VgrCall
<1>2. Delivered'
  <2>1. \A p \in Piece : at'[p] = "DSI" <=> at[p] = "DSI" /\ ~Edge(640, 650)
    BY <1>1 DEF VgrPlaced, Places, BayChosen, Edge, Colour
  <2>2. vgr' \in {600, 640} => Held("DSI") # {} /\ ~Edge(640, 650)
    BY <1>1 DEF VgrRoute, VgrRoutes, VgrGuards, VgrBrief, Edge, Places, Delivered
  <2> QED  BY <1>1, <2>1, <2>2 DEF Places, Delivered, Single, Held
<1>3. OnBelt'
  <2>1. \A p \in Piece : at'[p] = "belt" <=>
          (at[p] = "belt" /\ ~Edge(470, 480)) \/ (at[p] = "gripper" /\ Edge(900, 910))
    <3>1. Edge(150, 160) => bay # "belt"
      BY <1>1 DEF Places, BayChosen, Edge, Colour
    <3> QED  BY <1>1, <3>1 DEF VgrPlaced, Edge
  <2>2. CASE Edge(470, 480)
    <3>1. \A p \in Piece : at'[p] # "belt"
      BY <2>1, <2>2 DEF Edge
    <3>2. hbw = 180 /\ "HBW_Storage" \notin bits'
      BY <1>1, <2>2, AtTheBelt DEF Edge, VgrBits, VgrRequests
    <3> QED  BY <1>1, <2>2, <3>1, <3>2 DEF OnBelt, Single, Held, Edge, Bringing, Returning
  <2>3. CASE Edge(900, 910)
    <3>1. hbw = 180 /\ "HBW_Outsource" \notin bits' /\ "HBW_Storage" \in bits /\ "HBW_Outsource" \notin bits
      BY <1>1, <2>3, AtTheBelt DEF Edge, VgrBits, VgrRequests
    <3>2. Held("belt") = {} /\ Single(Held("gripper")) /\ Held("gripper") # {}
      BY <1>1, <2>3, <3>1 DEF Places, OnBelt, Gripped, Bringing, Edge, HoldStore
    <3>3. \A p \in Piece : at'[p] = "belt" <=> at[p] = "gripper"
      BY <2>1, <2>3, <3>2 DEF Edge, Held
    <3> QED  BY <1>1, <2>3, <3>1, <3>2, <3>3 DEF OnBelt, Single, Held, Edge, Bringing, Returning
  <2>4. CASE ~Edge(470, 480) /\ ~Edge(900, 910)
    <3>1. Held("belt")' = Held("belt")
      BY <2>1, <2>4 DEF Held
    <3>2. Single(Held("belt"))' <=> Single(Held("belt"))
      BY <3>1 DEF Single
    <3>3. "lx_Storage" \in bits' <=> "lx_Storage" \in bits
      BY <1>1 DEF VgrBits, OwnBits
    <3>4. hbw \in Bringing /\ "HBW_Outsource" \in bits' =>
            "HBW_Outsource" \in bits /\ (vgr' \notin {480, 485} <=> vgr \notin {480, 485})
      <4>1. "HBW_Outsource" \in bits' => "HBW_Outsource" \in bits /\ vgr # 485
        BY <1>1 DEF VgrBits, VgrRequests, Dialogues, Asking, OrderAsked, OrderRuns, ForOrder
      <4> QED  BY <1>1, <2>4, <4>1 DEF VgrRoute, VgrRoutes, Edge
    <3>5. hbw \in Bringing /\ "HBW_Storage" \in bits' =>
            "HBW_Storage" \in bits /\ (vgr' = 910 <=> vgr = 910)
      <4>1. hbw \in Bringing => ~Edge(910, 920) /\ ~Edge(70, 600)
        BY <1>1, WithdrawsNoticed DEF Bringing, Searching, Dialogues, Job, Asking, StoreAsked, VgrGuards, ForStorage, Edge
      <4> QED
        BY <1>1, <2>4, <4>1 DEF VgrRoute, VgrRoutes, VgrBits, VgrRequests, Edge
    <3> QED
      BY <1>1, <3>1, <3>2, <3>3, <3>4, <3>5 DEF Places, OnBelt
  <2> QED BY <2>2, <2>3, <2>4
<1>4. InOven'
  <2>1. \A p \in Piece : at'[p] = "oven" <=> at[p] = "oven" \/ (at[p] = "gripper" /\ Edge(530, 540))
    BY <1>1 DEF VgrPlaced, Places, BayChosen, Edge, Colour
  <2>2. CASE Edge(530, 540)
    BY <1>1, <2>1, <2>2 DEF InOven, Held, Edge, Dialogues, OvenTalk, Places, Gripped, HoldOrder
  <2>3. CASE ~Edge(530, 540)
    <3>1. mpo = 100 => (vgr' \in {540, 550} <=> vgr \in {540, 550})
      BY <1>1, <2>3 DEF VgrRoute, VgrRoutes, VgrBrief, VgrGuards, Edge, Dialogues, OvenTalk
    <3>2. Held("oven")' = Held("oven")
      BY <2>1, <2>3 DEF Held
    <3> QED
      BY <1>1, <3>1, <3>2 DEF InOven, Places
  <2> QED BY <2>2, <2>3
<1>5. BayChosen'
  <2>1. CASE Edge(70, 100)
    <3>1. bay' \in FinishedBay
      BY <1>1, <2>1 DEF VgrGuards, FirstBay, FinishedBay, Colour
    <3>2. \A p \in Piece : at'[p] = at[p]
      BY <1>1, <2>1 DEF VgrPlaced, Edge
    <3> QED
      BY <3>1, <3>2 DEF BayChosen, FinishedBay, Held
  <2>2. CASE ~Edge(70, 100)
    <3>1. vgr' \in {100, 150} => vgr \in {100, 150} /\ bay' = bay /\ ~Edge(150, 160)
      BY <1>1, <2>2 DEF VgrRoute, VgrRoutes, VgrGuards, Edge
    <3>2. vgr \in {100, 150} /\ ~Edge(150, 160) => \A p \in Piece : at'[p] = at[p]
      BY <1>1, <2>2 DEF VgrPlaced, Edge
    <3> QED
      BY <1>1, <3>1, <3>2 DEF Places, BayChosen, Held
  <2> QED BY <2>1, <2>2
<1>6. NoneLost'
  BY <1>1 DEF VgrPlaced, Places, BayChosen, NoneLost, Held, Colour
<1> QED
  BY <1>2, <1>3, <1>4, <1>5, <1>6, VgrKeepsGripped DEF Places

\* A part on its way from the oven to the shelf excludes the rest.
LEMMA VgrFinishing ==
  ASSUME VgrTurn
  PROVE  /\ \A p \in Piece : p \in Finishing' <=>
              \/ p \in Finishing /\ ~(at[p] = "gripper" /\ Edge(290, 310))
              \/ at[p] = "gripper" /\ Edge(530, 540)
         /\ Edge(290, 310) => Finishing # {} /\ Finishing' = {}
         /\ Edge(530, 540) => Finishing = {} /\ Finishing' = Held("gripper")
<1>1. VgrRoute /\ VgrPlaced /\ Gripped /\ BayChosen /\ OrderLife
  BY VgrPlaces DEF VgrTurn, NormalInv, Orders, Places, VgrCall
<1>2. ASSUME NEW p \in Piece
      PROVE  p \in Finishing' <=> \/ p \in Finishing /\ ~(at[p] = "gripper" /\ Edge(290, 310))
                                  \/ at[p] = "gripper" /\ Edge(530, 540)
  <2>1. CASE Edge(150, 160)
    <3>1. bay \in Colour /\ at[p] # "gripper"
      BY <1>1, <2>1 DEF BayChosen, Gripped, Held, Edge, HoldFinished, HoldOrder, HoldStore
    <3> QED
      BY <1>1, <2>1, <3>1 DEF VgrPlaced, Finishing, Edge, HoldFinished
  <2>2. CASE Edge(470, 480) \/ Edge(640, 650)
    BY <1>1, <2>2 DEF VgrPlaced, Finishing, Edge, HoldFinished, Colour
  <2>3. CASE Edge(290, 310) \/ Edge(530, 540) \/ Edge(900, 910)
    BY <1>1, <2>3 DEF VgrPlaced, Finishing, Edge, HoldFinished, Colour
  <2>4. CASE ~Edge(150, 160) /\ ~Edge(470, 480) /\ ~Edge(640, 650) /\ ~Edge(290, 310) /\ ~Edge(530, 540)
             /\ ~Edge(900, 910)
    <3>1. at'[p] = at[p]
      BY <1>1, <2>4 DEF VgrPlaced
    <3>2. vgr' \in HoldFinished <=> vgr \in HoldFinished
      BY <1>1, <2>4 DEF VgrRoute, VgrRoutes, Edge, HoldFinished
    <3> QED  BY <2>4, <3>1, <3>2 DEF Finishing
  <2> QED BY <2>1, <2>2, <2>3, <2>4
<1>3. Finishing' \subseteq Piece /\ Finishing \subseteq Piece
  BY DEF Finishing
<1>4. Edge(290, 310) => Finishing # {} /\ Finishing' = {}
  <2>1. Edge(290, 310) => \E p \in Finishing : at[p] = "gripper"
    BY <1>1 DEF Gripped, Held, Edge, HoldFinished, Finishing
  <2> QED
    BY <1>1, <1>2, <1>3, <2>1 DEF OrderLife, Single, Edge
<1>5. Edge(530, 540) => Finishing = {} /\ Finishing' = Held("gripper")
  <2>1. vgr = 530 => Finishing = {}
    BY <1>1 DEF OrderLife, ToOven
  <2> QED
    BY <1>2, <1>3, <2>1 DEF Edge, Held
<1> QED BY <1>2, <1>4, <1>5

LEMMA VgrKeepsOrderLife == ASSUME VgrTurn PROVE OrderLife'
<1>1. /\ VgrRoute /\ VgrGuards /\ VgrShows /\ OrderLife /\ Asking /\ Gripped
      /\ UNCHANGED <<ord, button>> /\ prg = "VGR" /\ Finishing \subseteq Piece /\ Finishing' \subseteq Piece
  BY DEF VgrTurn, NormalInv, Orders, Places, Dialogues, VgrCall, Finishing
<1>2. ~Edge(530, 540) => Finishing' \subseteq Finishing
  BY <1>1, VgrFinishing
<1>3. Edge(70, 400) => ord = 20
  BY <1>1 DEF VgrGuards, Asking, OrderAsked
<1>4. ord = 20 => vgr \in {10, 70} \cup ForOrder
  BY <1>1 DEF Asking, OrderRuns
<1>5. vgr = 540 => ~Over /\ state # "IN_PROCESS" /\ button = Blank /\ ord # 20
  BY <1>1, <1>4 DEF OrderLife, Unoccupied, OrderSteps, ToOven, ForOrder
<1>6. Single(Finishing)' /\ (Finishing' # {} => state' = "IN_PROCESS" \/ vgr' = 540)
  <2>1. Single(Finishing)'
    BY <1>1, <1>2, VgrFinishing DEF OrderLife, Gripped, Single
  <2>2. Finishing' # {} /\ vgr' # 540 => state' = "IN_PROCESS"
    <3>1. CASE vgr = 540
      BY <1>1, <3>1 DEF VgrRoute, VgrRoutes, VgrBrief, VgrShows, Edge
    <3>2. CASE vgr # 540
      <4>1. Finishing' # {} /\ vgr' # 540 => state = "IN_PROCESS" /\ Finishing # {} /\ ~Edge(290, 310)
        BY <1>1, <1>2, <3>2, VgrFinishing DEF OrderLife, Edge
      <4>2. Finishing # {} => ~Edge(70, 400)
        BY <1>1, <1>3 DEF OrderLife
      <4> QED  BY <1>1, <4>1, <4>2 DEF VgrShows
    <3> QED BY <3>1, <3>2
  <2> QED BY <2>1, <2>2
<1>7. Over' => Unoccupied'
  <2>1. CASE Edge(290, 310)
    BY <1>1, <1>4, <2>1, VgrFinishing DEF Unoccupied, Edge, OrderSteps, ToOven, ForOrder
  <2>2. CASE ~Edge(290, 310)
    <3>1. Over' => Over /\ ~Edge(70, 400)
      BY <1>1, <2>2 DEF VgrShows, Over
    <3>2. vgr \notin OrderSteps /\ ~Edge(70, 400) => vgr' \notin OrderSteps /\ ~Edge(530, 540)
      BY <1>1 DEF VgrRoute, VgrRoutes, Edge, OrderSteps, ToOven, ForOrder
    <3> QED  BY <1>1, <1>2, <3>1, <3>2 DEF OrderLife, Unoccupied
  <2> QED BY <2>1, <2>2
<1>8. button # Blank => Unoccupied' /\ state' \in {"WAITING_FOR_ORDER", "ORDERED"}
  <2>1. button # Blank => ~Edge(290, 310) /\ ~Edge(540, 550) /\ ~Edge(530, 540) /\ ~Edge(70, 400)
    BY <1>1, <1>3, VgrFinishing DEF OrderLife, Unoccupied, Edge, OrderSteps, ToOven
  <2>2. vgr \notin OrderSteps /\ ~Edge(70, 400) => vgr' \notin OrderSteps
    BY <1>1 DEF VgrRoute, VgrRoutes, Edge, OrderSteps, ToOven, ForOrder
  <2> QED  BY <1>1, <1>2, <2>1, <2>2 DEF OrderLife, Unoccupied, VgrShows
<1>9. ord = 20 => Finishing' = {} /\ state' = "ORDERED"
  <2>1. ord = 20 => ~Edge(290, 310) /\ ~Edge(540, 550) /\ ~Edge(530, 540)
    BY <1>4 DEF Edge, ForOrder
  <2> QED  BY <1>1, <1>2, <2>1 DEF OrderLife, VgrShows
<1>10. state' = "IN_PROCESS" => button = Blank /\ ord # 20 /\ vgr' \notin ForOrder \cup ToOven
  <2>1. CASE Edge(540, 550)
    BY <1>5, <2>1 DEF Edge, ForOrder, ToOven
  <2>2. CASE ~Edge(540, 550)
    <3>1. state' = "IN_PROCESS" => state = "IN_PROCESS" /\ ~Edge(70, 400)
      BY <1>1, <2>2 DEF VgrShows
    <3>2. vgr \notin ForOrder \cup ToOven /\ ~Edge(70, 400) => vgr' \notin ForOrder \cup ToOven
      BY <1>1 DEF VgrRoute, VgrRoutes, Edge, ToOven, ForOrder
    <3> QED  BY <1>1, <3>1, <3>2 DEF OrderLife
  <2> QED BY <2>1, <2>2
<1>11. vgr' \in {550, 560, 580} => state' = "IN_PROCESS"
  BY <1>1 DEF VgrRoute, VgrRoutes, VgrShows, OrderLife, Edge
<1> QED
  BY <1>1, <1>6, <1>7, <1>8, <1>9, <1>10, <1>11 DEF OrderLife

LEMMA VgrKeepsOnShelf == ASSUME VgrTurn PROVE OnShelf'
<1>1. /\ VgrRoute /\ VgrGuards /\ VgrShows /\ VgrPlaced /\ OrderLife /\ OnShelf /\ Gripped /\ Asking /\ BayChosen
      /\ UNCHANGED <<ord, button>> /\ prg' = "NFC"
  BY VgrPlaces DEF VgrTurn, NormalInv, Orders, Places, Dialogues, VgrCall
<1>2. Remains("DSO_Occupied") /\ Remains("StartEndOrder")
  BY DEF VgrTurn, VgrCall, VgrBits, OwnBits, Remains
<1>3. Over => ~Edge(70, 400) /\ ~Edge(540, 550) /\ ~Edge(290, 310)
  BY <1>1, VgrFinishing DEF OrderLife, Unoccupied, VgrGuards, Asking, OrderAsked, Edge, OrderSteps, ToOven
<1>4. \A p \in Piece : at'[p] = "DSO" <=> at[p] = "DSO" \/ (at[p] = "gripper" /\ Edge(290, 310))
  BY <1>1 DEF VgrPlaced, BayChosen, Edge, Colour
<1>5. CASE Edge(290, 310)
  <2>1. ~Over /\ button = Blank /\ Held("DSO") = {} /\ "DSO_Occupied" \notin bits
    BY <1>1, <1>3, <1>5, VgrFinishing DEF OnShelf, OrderLife, Unoccupied
  <2> QED
    BY <1>1, <1>2, <1>4, <1>5, <2>1 DEF OnShelf, Single, Held, Gripped, VgrShows, Over, Remains
<1>6. CASE ~Edge(290, 310)
  <2>1. Held("DSO")' = Held("DSO")
    BY <1>4, <1>6 DEF Held
  <2>2. Single(Held("DSO"))' <=> Single(Held("DSO"))
    BY <2>1 DEF Single
  <2>3. Over => state' = state
    BY <1>1, <1>3 DEF VgrShows
  <2> QED
    BY <1>1, <1>2, <2>1, <2>2, <2>3 DEF OnShelf, Over, Remains
<1> QED BY <1>5, <1>6

\* While an order is in force the robot moves a workpiece from the belt only.
LEMMA VgrFetched ==
  ASSUME VgrTurn
  PROVE  ord = 20 => Fetched' = Fetched
<1>1. VgrPlaced /\ Asking /\ prg = "VGR"
  BY VgrPlaces DEF VgrTurn, NormalInv, Dialogues
<1>2. ord = 20 => ~Edge(150, 160) /\ ~Edge(290, 310) /\ ~Edge(530, 540) /\ ~Edge(640, 650) /\ ~Edge(900, 910)
  BY <1>1 DEF Asking, OrderRuns, ForOrder, Edge
<1>3. Fetched = {p \in Piece : at[p] \in {"belt", "gripper"}}
  BY DEF Fetched, Held
<1>4. Fetched' = {p \in Piece : at'[p] \in {"belt", "gripper"}}
  BY DEF Fetched, Held
<1>5. ord = 20 => \A p \in Piece : at'[p] \in {"belt", "gripper"} <=> at[p] \in {"belt", "gripper"}
  BY <1>1, <1>2 DEF VgrPlaced
<1> QED BY <1>3, <1>4, <1>5

LEMMA VgrKeepsRackRight == ASSUME VgrTurn PROVE RackRight'
<1>1. /\ RackRight /\ Job /\ Asking /\ VgrBits /\ VgrGuards /\ VgrPlaced /\ BayChosen
      /\ UNCHANGED <<hbw, act, rack, typ, ord, button>> /\ prg = "VGR"
  BY VgrPlaces DEF VgrTurn, NormalInv, Dialogues, Places, VgrCall
<1>2. "HBW_Outsource" \in bits' => "HBW_Outsource" \in bits /\ ord = 20
  BY <1>1 DEF VgrBits, VgrRequests, Asking, OrderAsked
<1>3. RackTold'
  <2>1. ASSUME NEW s \in Slot PROVE SlotTrue(s)'
    <3>1. s \notin Station \cup Colour
      BY PlantAssumption
    <3>2. \A p \in Piece : at'[p] = s <=> at[p] = s
      BY <1>1, <3>1 DEF VgrPlaced, Station, BayChosen, Edge
    <3>3. Held(s)' = Held(s)
      BY <3>2 DEF Held
    <3> QED
      BY <1>1, <3>2, <3>3 DEF RackRight, RackTold, SlotTrue, InFlux
  <2> QED BY <2>1 DEF RackTold
<1>4. SlotChosen'
  <2>1. hbw \in {70, 100} /\ "HBW_Storage" \in bits' => "HBW_Storage" \in bits
    BY <1>1 DEF VgrBits, VgrRequests, Job, Searching, VgrGuards, Edge, Asking, StoreAsked, ForStorage
  <2> QED
    BY <1>1, <1>2, <2>1 DEF RackRight, SlotChosen, OfType
<1>5. Stocked'
  <2>1. "HBW_Outsource" \in bits' /\ vgr' # 485 => vgr # 485
    BY <1>1, <1>2 DEF Asking, OrderRuns, ForOrder
  <2> QED
    BY <1>1, <1>2, <2>1 DEF RackRight, Stocked, OfType
<1>6. ColourRight'
  BY <1>1, <1>2, VgrFetched DEF RackRight, ColourRight
<1> QED BY <1>3, <1>4, <1>5, <1>6 DEF RackRight

LEMMA VgrRegisters ==
  ASSUME VgrTurn
  PROVE  /\ wp'["HBW"] = wp["HBW"] /\ wp'["MPO"] = wp["MPO"]
         /\ Edge(150, 160) => wp'["VGR"] = wp["SLD"]
         /\ ~Edge(150, 160) => wp'["SLD"] = wp["SLD"]
         /\ Edge(290, 310) => wp'["SSC"] = wp["VGR"]
         /\ ~Edge(290, 310) => wp'["SSC"] = wp["SSC"]
         /\ vgr = 750 => wp'["VGR"].id = wp["VGR"].id /\ wp'["VGR"].type \in Readable
                           /\ wp'["VGR"] = [id |-> wp'["VGR"].id, type |-> wp'["VGR"].type]
         /\ vgr \notin {580, 750, 960} /\ ~Edge(150, 160) /\ ~Edge(290, 310) => wp'["VGR"] = wp["VGR"]
<1>1. VgrWrites /\ wp \in [Register -> Workpiece]
  BY DEF VgrTurn, VgrCall, NormalInv, TypeOK
<1>2. CASE Edge(150, 160)
  BY <1>1, <1>2 DEF VgrWrites, Edge, Register
<1>3. CASE Edge(290, 310)
  BY <1>1, <1>3 DEF VgrWrites, Edge, Register
<1>4. CASE vgr = 750
  <2>1. PICK c \in Readable : wp' = [wp EXCEPT !["VGR"].type = c]
    BY <1>1, <1>4 DEF VgrWrites
  <2>2. wp'["VGR"] = [wp["VGR"] EXCEPT !.type = c] /\ wp["VGR"] \in Workpiece
        /\ \A r \in Register \ {"VGR"} : wp'[r] = wp[r]
    BY <1>1, <2>1 DEF Register
  <2>3. wp'["VGR"].id = wp["VGR"].id /\ wp'["VGR"].type = c
        /\ wp'["VGR"] = [id |-> wp'["VGR"].id, type |-> wp'["VGR"].type]
    BY <2>2 DEF Workpiece
  <2> QED  BY <1>4, <2>2, <2>3 DEF Register, Edge
<1>5. CASE vgr \in {580, 960}
  <2>1. wp' = wp \/ \E w : wp' = [wp EXCEPT !["VGR"] = w]
    BY <1>1, <1>5 DEF VgrWrites
  <2>2. \A r \in Register \ {"VGR"} : wp'[r] = wp[r]
    BY <1>1, <2>1
  <2> QED  BY <1>5, <2>2 DEF Register, Edge
<1>6. CASE ~Edge(150, 160) /\ ~Edge(290, 310) /\ vgr \notin {580, 750, 960}
  BY <1>1, <1>6 DEF VgrWrites
<1> QED BY <1>2, <1>3, <1>4, <1>5, <1>6

LEMMA VgrKeepsGripperRecord == ASSUME VgrTurn PROVE GripperRecord'
<1>1. /\ VgrRoute /\ VgrGuards /\ VgrPlaced /\ Places /\ Records /\ Dialogues /\ OrderLife /\ wp \in [Register -> Workpiece]
      /\ UNCHANGED <<hbw, nfc, mpo, ord>> /\ prg = "VGR"
  BY VgrPlaces DEF VgrTurn, NormalInv, TypeOK, Orders, VgrCall
<1> SUFFICES ASSUME NEW p \in Piece
             PROVE
   (/\ at[p] = "gripper" /\ vgr \in HoldFinished \cup {500, 510, 520, 530} => wp["VGR"] = Rec(p)
    /\ at[p] = "gripper" /\ vgr = 485 /\ hbw \notin Bringing => wp["VGR"] = Rec(p)
    /\ at[p] = "gripper" /\ (vgr \in HoldStore \ {650, 700} \/ (vgr = 700 /\ nfc \in {50, 80})) => wp["VGR"].id = p
    /\ at[p] = "gripper" /\ vgr \in {760, 810, 820, 880, 890, 900} => wp["VGR"] = Rec(p)
    /\ at[p] = "belt" /\ vgr = 910 => wp["VGR"] = Rec(p)
    /\ at[p] = "oven" /\ vgr \in {540, 550} => wp["VGR"] = Rec(p))'
  BY DEF GripperRecord
<1>2. CASE Edge(150, 160)
  <2>1. at'[p] = "gripper" => at[p] = bay /\ bay \in Colour
    BY <1>1, <1>2 DEF VgrPlaced, Edge, Places, BayChosen, Gripped, Held, HoldFinished, HoldOrder, HoldStore
  <2> QED
    BY <1>1, <1>2, <2>1, VgrRegisters DEF Records, LaterRecords, Edge, HoldStore, Rec
<1>3. CASE Edge(530, 540)
  <2>1. at'[p] = "oven" => at[p] = "gripper"
    BY <1>1, <1>3 DEF VgrPlaced, Edge, Places, InOven, Held, Dialogues, OvenTalk
  <2> QED
    BY <1>1, <1>3, <2>1, VgrRegisters DEF Records, GripperRecord, Edge, HoldFinished, HoldStore, Rec
<1>4. CASE Edge(900, 910)
  <2>1. at'[p] = "belt" => at[p] = "gripper"
    BY <1>1, <1>4, AtTheBelt DEF VgrPlaced, Edge, Places, OnBelt, Held, Bringing
  <2> QED
    BY <1>1, <1>4, <2>1, VgrRegisters DEF Records, GripperRecord, Edge, HoldFinished, HoldStore, Rec
<1>5. CASE vgr = 750
  <2>1. at'[p] = at[p] /\ vgr' \in {750, 760}
    BY <1>1, <1>5 DEF VgrPlaced, VgrRoute, VgrRoutes, Edge
  <2>2. at[p] = "gripper" => wp'["VGR"].id = p /\ wp'["VGR"].type = ColourOf[p]
    BY <1>1, <1>5, VgrRegisters DEF Records, GripperRecord, HoldStore, Readable, Held, Places, Gripped, Single
  <2> QED
    BY <1>5, <2>1, <2>2, VgrRegisters DEF HoldFinished, HoldStore, Rec
<1>6. CASE Edge(470, 480) \/ Edge(640, 650) \/ Edge(290, 310) \/ vgr \in {580, 960}
  BY <1>1, <1>6 DEF Edge, HoldFinished, HoldStore, VgrRoute, VgrRoutes
<1>7. CASE /\ ~Edge(150, 160) /\ ~Edge(530, 540) /\ ~Edge(900, 910) /\ ~Edge(470, 480) /\ ~Edge(640, 650)
           /\ ~Edge(290, 310) /\ vgr \notin {580, 750, 960}
  <2>1. at'[p] = at[p] /\ wp'["VGR"] = wp["VGR"] /\ Rec(p)' = Rec(p)
    BY <1>1, <1>7, VgrRegisters DEF VgrPlaced, Rec
  <2>2. /\ vgr' \in HoldFinished => vgr \in HoldFinished
        /\ vgr' \in {500, 510, 520, 530} => vgr \in {485, 500, 510, 520, 530}
        /\ vgr' \in {760, 810, 820, 880, 890, 900} => vgr \in {760, 810, 820, 880, 890, 900}
        /\ vgr' = 910 => vgr = 910
        /\ vgr' \in {540, 550} => vgr \in {540, 550}
        /\ vgr' = 485 => vgr \in {480, 485}
        /\ vgr' = 700 => vgr \in {650, 700}
        /\ vgr' \in HoldStore \ {650, 700} => vgr \in HoldStore \ {650, 700} \/ Edge(700, 710)
    BY <1>1, <1>7 DEF VgrRoute, VgrRoutes, Edge, HoldFinished, HoldStore
  <2>3. vgr = 485 => hbw \notin Bringing
    BY <1>1 DEF Dialogues, Asking, OrderRuns, Job, ForOrder
  <2>4. vgr = 480 => hbw \in Bringing
    BY AtTheBelt DEF Bringing
  <2>5. (vgr = 650 => nfc \notin {50, 80}) /\ (Edge(700, 710) => nfc = 80)
    BY <1>1 DEF Dialogues, ReaderTalk, VgrGuards, Edge
  <2> QED
    BY <1>1, <2>1, <2>2, <2>3, <2>4, <2>5 DEF Records, GripperRecord, Edge
<1> QED BY <1>2, <1>3, <1>4, <1>5, <1>6, <1>7

LEMMA VgrKeepsRecords == ASSUME VgrTurn PROVE Records'
<1>1. /\ VgrPlaced /\ Places /\ Records /\ Dialogues /\ OrderLife /\ OnShelf /\ VgrBits
      /\ UNCHANGED <<hbw, mpo, ord>> /\ prg = "VGR"
  BY VgrPlaces DEF VgrTurn, NormalInv, Orders, VgrCall
<1>2. BeltRecord'
  <2>1. "HBW_Outsource" \in bits' => "HBW_Outsource" \in bits /\ ord = 20
    BY <1>1 DEF VgrBits, VgrRequests, Dialogues, Asking, OrderAsked
  <2>2. hbw \in Returning => \A p \in Piece : at'[p] = "belt" => at[p] = "belt"
    BY <1>1, AtTheBelt DEF VgrPlaced, Edge, Returning
  <2> QED
    BY <1>1, <2>1, <2>2, VgrFetched, VgrRegisters DEF Records, BeltRecord, Rec
<1>3. LaterRecords'
  <2>1. ASSUME NEW p \in Piece, at'[p] = "oven", mpo \in {105, 110, 280} PROVE wp'["MPO"] = Rec(p)
    <3>1. at[p] = "oven"
      BY <1>1, <2>1 DEF VgrPlaced, Edge, Dialogues, OvenTalk
    <3> QED  BY <1>1, <2>1, <3>1, VgrRegisters DEF Records, LaterRecords
  <2>2. ASSUME NEW p \in Piece, at'[p] \in {"SLD"} \cup Colour PROVE wp'["SLD"] = Rec(p)
    <3>1. at[p] = at'[p] /\ ~(Edge(150, 160) /\ at[p] = bay)
      BY <1>1, <2>2 DEF VgrPlaced, Colour
    <3>2. ~Edge(150, 160)
      BY <1>1, <2>2, <3>1 DEF Edge, Places, BayChosen, Held, OrderLife, Finishing, Single
    <3> QED  BY <1>1, <2>2, <3>1, <3>2, VgrRegisters DEF Records, LaterRecords
  <2>3. ASSUME NEW p \in Piece, at'[p] = "DSO" PROVE wp'["SSC"].id = p
    <3>1. CASE Edge(290, 310)
      <4>1. at[p] = "gripper"
        BY <1>1, <2>3, <3>1, VgrFinishing DEF VgrPlaced, OnShelf, OrderLife, Unoccupied, Held, Edge
      <4> QED
        <5>1. wp["VGR"] = Rec(p)
          BY <1>1, <3>1, <4>1 DEF Records, GripperRecord, Edge, HoldFinished
        <5>2. wp'["SSC"] = Rec(p)
          BY <3>1, <5>1, VgrRegisters
        <5> QED  BY <5>2 DEF Rec
    <3>2. CASE ~Edge(290, 310)
      BY <1>1, <2>3, <3>2, VgrRegisters DEF VgrPlaced, Records, LaterRecords
    <3> QED BY <3>1, <3>2
  <2> QED BY <1>1, <2>1, <2>2, <2>3 DEF LaterRecords, Rec
<1> QED BY <1>2, <1>3, VgrKeepsGripperRecord DEF Records

-----------------------------------------------------------------------------
(* What a call of the warehouse's program leaves of the invariant.         *)

HbwTurn == NormalInv /\ HbwCall /\ prg = "HBW" /\ prg' = "MPO"

LEMMA BlankIsNone == Blank # "0" /\ Blank \notin Colour /\ Blank \notin Piece /\ "0" \notin Piece
<1>1. Blank # "0" /\ Blank \notin Colour
  BY Zenon DEF Blank, Colour
<1> QED  BY <1>1, PlantAssumption

LEMMA HbwKeepsTalks == ASSUME HbwTurn PROVE Dialogues'
<1>1. /\ Dialogues /\ HbwBits /\ HbwRoute /\ HbwGuards /\ StorageAlone
      /\ UNCHANGED <<vgr, nfc, mpo, ord>> /\ prg = "HBW" /\ prg' = "MPO"
  BY DEF HbwTurn, NormalInv, HbwCall
<1>2. \A b \in Bit \ HbwBit : Remains(b)
  BY <1>1 DEF HbwBits, Remains
<1>3. /\ VgrBit \cup MpoBit \cup SldBit \cup SetupBit \cup EdgeBit \subseteq Bit
      /\ HbwBit \cap (VgrBit \cup MpoBit \cup SldBit \cup SetupBit \cup EdgeBit) = {}
  BY DEF Bit, VgrBit, MpoBit, SldBit, SetupBit, EdgeBit, ModeBit, HbwBit
<1>4. \A b \in VgrBit \cup MpoBit \cup SldBit \cup SetupBit \cup EdgeBit : Remains(b)
  BY <1>2, <1>3
<1>5. Untroubled'
  <2>1. \A b \in (ErrorBit \ {"HBW_Error"}) \cup SetupBit : b \notin bits'
    BY <1>1, <1>4 DEF ErrorBit, VgrBit, MpoBit, SldBit, EdgeBit, Dialogues, Asking, Untroubled, Remains
  <2> QED  BY <1>1, <2>1 DEF HbwBits, Untroubled, Dialogues, Asking, ErrorBit
<1>6. Asking'
  BY <1>1, <1>4, <1>5 DEF Asking, Dialogues, StoreAsked, OrderAsked, OrderRuns, Reports, Readiness, VgrBit, Remains
<1>7. Job'
  <2>1. /\ hbw' \in Searching \cup Bringing => bits \cap {"HBW_Storage", "HBW_Outsource"} # {}
        /\ hbw' = 50 => "HBW_Storage" \in bits
        /\ hbw' = 60 => "HBW_Outsource" \in bits
    BY <1>1 DEF Dialogues, Job, HbwRoute, HbwRoutes, HbwGuards, HbwEdge, Searching, Bringing
  <2>2. "lx_Storage" \in bits' => hbw' \in Returning \cup {260}
    BY <1>1 DEF Dialogues, Job, HbwRoute, HbwRoutes, HbwBits, HbwEdge, Returning
  <2>3. vgr = 485 /\ ord # 20 => hbw' \notin Searching \cup Bringing
    <3>1. vgr = 485 /\ ord # 20 => hbw \notin Searching \cup Bringing /\ bits \cap {"HBW_Storage", "HBW_Outsource"} = {}
      BY <1>1 DEF Dialogues, Job, Asking, StoreAsked, OrderAsked, ForStorage
    <3> QED
      BY <1>1, <3>1 DEF HbwRoute, HbwRoutes, HbwGuards, HbwEdge, Searching, Bringing
  <2> QED  BY <1>1, <1>4, <2>1, <2>2, <2>3 DEF Job, VgrBit, Remains
<1>8. OvenTalk'
  BY <1>1, <1>4 DEF Dialogues, OvenTalk, VgrBit, MpoBit, Remains
<1>9. ReaderTalk'
  BY <1>1, <1>4 DEF Dialogues, ReaderTalk, VgrBit, Remains
<1> QED BY <1>6, <1>7, <1>8, <1>9 DEF Dialogues

\* Where the warehouse's call leaves each workpiece.
HbwPlaced ==
  \A p \in Piece :
    at'[p] = IF HbwEdge(100, 110) /\ at[p] = act THEN "belt"
             ELSE IF HbwEdge(250, 260) /\ at[p] = "belt" THEN act
             ELSE at[p]

LEMMA HbwPlaces ==
  ASSUME HbwTurn
  PROVE  /\ HbwPlaced
         /\ HbwEdge(100, 110) \/ HbwEdge(250, 260) => act \in Slot /\ act \notin Station \cup Colour /\ act' = act
         /\ \A x \in (Station \cup Colour) \ {"belt"} : \A p \in Piece : at'[p] = x <=> at[p] = x
<1>1. HbwCarries /\ at \in [Piece -> Place] /\ HbwGuards /\ SlotKnown
  BY DEF HbwTurn, NormalInv, TypeOK, HbwCall
<1>2. HbwPlaced
  <2>1. CASE HbwEdge(100, 110)
    BY <1>1, <2>1 DEF HbwCarries, HbwPlaced, HbwEdge, Carry
  <2>2. CASE HbwEdge(250, 260)
    BY <1>1, <2>2 DEF HbwCarries, HbwPlaced, HbwEdge, Carry
  <2>3. CASE ~HbwEdge(100, 110) /\ ~HbwEdge(250, 260)
    <3>1. at' = at
      BY <1>1, <2>3 DEF HbwCarries
    <3> QED  BY <2>3, <3>1 DEF HbwPlaced
  <2> QED BY <2>1, <2>2, <2>3
<1>3. HbwEdge(100, 110) \/ HbwEdge(250, 260) => act \in Slot /\ act' = act
  BY <1>1 DEF HbwGuards, HbwEdge, SlotKnown
<1>4. Slot \cap (Station \cup Colour) = {}
  BY PlantAssumption
<1>5. \A x \in (Station \cup Colour) \ {"belt"} : \A p \in Piece : at'[p] = x <=> at[p] = x
  BY <1>2, <1>3, <1>4 DEF HbwPlaced
<1> QED BY <1>2, <1>3, <1>4, <1>5

\* While the warehouse is not bringing or returning a container the robot is
\* not at its belt.
LEMMA AwayFromBelt ==
  ASSUME HbwTurn
  PROVE  hbw \notin {180, 190} => vgr \notin {450, 460, 470, 480, 485, 500, 890, 900, 910}
<1>1. ~Parked /\ HandInv
  BY DEF HbwTurn, NormalInv, Dialogues, Asking, Untroubled, Parked, SetupBit, ModeBit
<1> QED
  BY <1>1 DEF HandInv, BeltWaits, PickUpSeen, PickUpStands, Reaching

\* The slot out of which a container is fetched.
LEMMA SlotFetched ==
  ASSUME HbwTurn, HbwEdge(100, 110)
  PROVE  /\ act \in Slot /\ Held("belt") = {} /\ Single(Held(act))
         /\ \A p \in Piece : at[p] = act => rack[act].id = p /\ rack[act].type = ColourOf[p]
         /\ "HBW_Storage" \in bits => "HBW_Outsource" \notin bits /\ Held(act) = {} /\ rack[act].type = Blank
         /\ "HBW_Outsource" \in bits => "HBW_Storage" \notin bits /\ Held(act) # {} /\ rack[act].type = typ
<1>1. /\ act \in Slot /\ ~InFlux(act) /\ SlotTrue(act) /\ SlotChosen /\ Stocked /\ OnBelt /\ StorageAlone /\ Asking
      /\ hbw = 100 /\ rack \in [Slot -> RackEntry]
  BY HbwPlaces DEF HbwTurn, NormalInv, TypeOK, RackRight, RackTold, Places, Dialogues, InFlux, HbwEdge, Bringing, Returning
<1>2. /\ \A p \in Piece : at[p] = act <=> rack[act].id = p
      /\ rack[act].type = IF rack[act].id \in Piece THEN ColourOf[rack[act].id] ELSE Blank
  BY <1>1 DEF SlotTrue
<1>3. Held("belt") = {}
  BY <1>1 DEF OnBelt, Bringing, Returning
<1>4. Single(Held(act))
  BY <1>2 DEF Single, Held
<1>5. "HBW_Storage" \in bits => "HBW_Outsource" \notin bits /\ Held(act) = {} /\ rack[act].type = Blank
  <2>1. "HBW_Storage" \in bits => "HBW_Outsource" \notin bits /\ rack[act].id \notin Piece
    BY <1>1, BlankIsNone DEF SlotChosen, StorageAlone
  <2> QED  BY <1>2, <2>1 DEF Held
<1>6. "HBW_Outsource" \in bits => "HBW_Storage" \notin bits /\ Held(act) # {} /\ rack[act].type = typ
  <2>1. "HBW_Outsource" \in bits => "HBW_Storage" \notin bits /\ typ \in Colour /\ rack[act].type = typ
    BY <1>1 DEF SlotChosen, StorageAlone, Asking, OrderAsked, Stocked, OfType
  <2>2. rack[act].type \in Colour => rack[act].id \in Piece
    BY <1>2, BlankIsNone
  <2> QED  BY <1>2, <2>1, <2>2 DEF Held
<1> QED BY <1>1, <1>2, <1>3, <1>4, <1>5, <1>6

\* How the report of the robot ends step 180.
LEMMA HandedOver ==
  ASSUME HbwTurn, HbwEdge(180, 190)
  PROVE  \/ /\ PickedUp /\ vgr = 485 /\ "HBW_Outsource" \in bits /\ Held("belt") = {}
            /\ "lx_Storage" \notin bits'
         \/ /\ Discarded /\ ~PickedUp /\ vgr = 910 /\ Held("belt") # {} /\ "lx_Storage" \in bits'
            /\ "HBW_Outsource" \notin bits
<1>1. HbwGuards /\ HbwBits /\ Asking /\ OnBelt /\ Job /\ StorageAlone /\ hbw = 180
  BY DEF HbwTurn, HbwCall, NormalInv, Dialogues, Places, HbwEdge
<1>2. CASE PickedUp
  <2>1. vgr = 485 /\ "HBW_Outsource" \in bits
    BY <1>1, <1>2 DEF PickedUp, Asking, Reports, OrderAsked, OrderRuns, ForOrder
  <2>2. Held("belt") = {}
    BY <1>1, <2>1 DEF OnBelt, Bringing
  <2>3. "lx_Storage" \notin bits'
    BY <1>1, <1>2 DEF HbwBits, Job, Returning, Discarded, HbwEdge
  <2> QED  BY <1>2, <2>1, <2>2, <2>3
<1>3. CASE ~PickedUp
  <2>1. Discarded /\ vgr = 910 /\ "HBW_Storage" \in bits /\ "lx_Storage" \in bits'
    BY <1>1, <1>3 DEF HbwGuards, HbwBits, Discarded, Asking, Reports, HbwEdge
  <2>2. Held("belt") # {} /\ "HBW_Outsource" \notin bits
    BY <1>1, <2>1 DEF OnBelt, Bringing, StorageAlone
  <2> QED  BY <1>3, <2>1, <2>2
<1> QED BY <1>2, <1>3

LEMMA HbwKeepsPlaces == ASSUME HbwTurn PROVE Places'
<1>1. /\ HbwPlaced /\ HbwRoute /\ HbwBits /\ Places /\ Job /\ UNCHANGED <<vgr, mpo, bay>>
      /\ Remains("HBW_Outsource") /\ Remains("HBW_Storage") /\ Single(Held("belt"))
  BY HbwPlaces DEF HbwTurn, NormalInv, Dialogues, HbwCall, HbwBits, HbwBit, Remains, Places, OnBelt
<1>2. \A x \in (Station \cup Colour) \ {"belt"} : Held(x)' = Held(x)
  BY HbwPlaces DEF Held
<1>3. \A x \in (Station \cup Colour) \ {"belt"} : Single(Held(x))' <=> Single(Held(x))
  BY <1>2 DEF Single
<1>4. Gripped' /\ Delivered' /\ InOven' /\ NoneLost'
  BY <1>1, <1>2, <1>3 DEF Places, Gripped, Delivered, InOven, NoneLost, Station
<1>5. BayChosen'
  BY <1>1, <1>2 DEF Places, BayChosen, Colour, Station
<1>6. OnBelt'
  <2>1. CASE HbwEdge(100, 110)
    <3>1. Held("belt")' = Held(act)
      BY <1>1, <2>1, SlotFetched DEF HbwPlaced, Held, HbwEdge
    <3>2. Single(Held("belt"))'
      BY <2>1, <3>1, SlotFetched DEF Single
    <3>3. vgr \notin {480, 485, 910}
      BY <2>1, AwayFromBelt DEF HbwEdge
    <3> QED
      BY <1>1, <2>1, <3>1, <3>2, <3>3, SlotFetched DEF OnBelt, Remains, HbwEdge, Bringing, Returning
  <2>2. CASE HbwEdge(250, 260)
    <3>1. act # "belt"
      BY <2>2, HbwPlaces DEF Station
    <3>2. \A p \in Piece : at'[p] # "belt"
      BY <1>1, <2>2, <3>1 DEF HbwPlaced, HbwEdge
    <3> QED
      BY <2>2, <3>2 DEF OnBelt, Single, Held, HbwEdge, Bringing, Returning
  <2>3. CASE HbwEdge(180, 190)
    <3>1. Held("belt")' = Held("belt")
      BY <1>1, <2>3 DEF HbwPlaced, Held, HbwEdge
    <3>2. Single(Held("belt"))'
      BY <1>1, <3>1 DEF Single
    <3> QED
      BY <2>3, <3>1, <3>2, HandedOver DEF OnBelt, HbwEdge, Bringing, Returning
  <2>4. CASE ~HbwEdge(100, 110) /\ ~HbwEdge(250, 260) /\ ~HbwEdge(180, 190)
    <3>1. Held("belt")' = Held("belt")
      BY <1>1, <2>4 DEF HbwPlaced, Held
    <3>2. Single(Held("belt"))'
      BY <1>1, <3>1 DEF Single
    <3>3. (hbw' \in Bringing <=> hbw \in Bringing) /\ (hbw' \in Returning <=> hbw \in Returning)
      BY <1>1, <2>4 DEF HbwRoute, HbwRoutes, HbwEdge, Bringing, Returning
    <3>4. hbw \in Returning => ("lx_Storage" \in bits' <=> "lx_Storage" \in bits)
      BY <1>1, <2>4 DEF HbwBits, HbwEdge, Returning
    <3> QED
      BY <1>1, <3>1, <3>2, <3>3, <3>4 DEF OnBelt, Places, Remains
  <2> QED BY <2>1, <2>2, <2>3, <2>4
<1> QED BY <1>4, <1>5, <1>6 DEF Places

LEMMA HbwKeepsOrders == ASSUME HbwTurn PROVE Orders'
<1>1. /\ Orders /\ UNCHANGED <<vgr, ord, state, button>> /\ prg' = "MPO"
      /\ Remains("DSO_Occupied") /\ Remains("StartEndOrder")
  BY DEF HbwTurn, NormalInv, HbwCall, HbwBits, HbwBit, Remains
<1>2. \A x \in (Station \cup Colour) \ {"belt"} : \A p \in Piece : at'[p] = x <=> at[p] = x
  BY HbwPlaces
<1>3. Finishing' = Finishing
  BY <1>1, <1>2 DEF Finishing, Station, Colour
<1>4. Held("DSO")' = Held("DSO")
  BY <1>2 DEF Held, Station
<1>5. (Single(Finishing)' <=> Single(Finishing)) /\ (Single(Held("DSO"))' <=> Single(Held("DSO")))
  BY <1>3, <1>4 DEF Single
<1>6. (Over' <=> Over) /\ (Unoccupied' <=> Unoccupied)
  BY <1>1, <1>3 DEF Over, Unoccupied
<1>7. OrderLife'
  BY <1>1, <1>3, <1>5, <1>6 DEF Orders, OrderLife
<1>8. OnShelf'
  BY <1>1, <1>4, <1>5, <1>6 DEF Orders, OnShelf, Remains
<1> QED BY <1>7, <1>8 DEF Orders

\* What the warehouse's call makes of the record of a slot.
LEMMA HbwSlots ==
  ASSUME HbwTurn
  PROVE  \A s \in Slot :
    /\ ~(s = act /\ (HbwEdge(100, 110) \/ HbwEdge(250, 260))) =>
          rack'[s].id = rack[s].id /\ rack'[s].type = rack[s].type
    /\ s = act /\ HbwEdge(100, 110) => rack'[s].id = Blank /\ rack'[s].type = Blank
    /\ s = act /\ HbwEdge(250, 260) =>
          \/ "lx_Storage" \in bits /\ rack'[s].id = wp["HBW"].id /\ rack'[s].type = wp["HBW"].type
          \/ "lx_Storage" \notin bits /\ rack'[s].id = "0" /\ rack'[s].type = rack[s].type
<1>1. HbwRecords /\ rack \in [Slot -> RackEntry]
  BY DEF HbwTurn, HbwCall, NormalInv, TypeOK
<1> SUFFICES ASSUME NEW s \in Slot
             PROVE
    /\ ~(s = act /\ (HbwEdge(100, 110) \/ HbwEdge(250, 260))) =>
          rack'[s].id = rack[s].id /\ rack'[s].type = rack[s].type
    /\ s = act /\ HbwEdge(100, 110) => rack'[s].id = Blank /\ rack'[s].type = Blank
    /\ s = act /\ HbwEdge(250, 260) =>
          \/ "lx_Storage" \in bits /\ rack'[s].id = wp["HBW"].id /\ rack'[s].type = wp["HBW"].type
          \/ "lx_Storage" \notin bits /\ rack'[s].id = "0" /\ rack'[s].type = rack[s].type
  OBVIOUS
<1>2. rack[s] \in RackEntry
  BY <1>1
<1>3. CASE HbwEdge(100, 110)
  <2>1. ~HbwEdge(250, 260)
    BY <1>3 DEF HbwEdge
  <2>2. CASE "HBW_Storage" \in bits
    <3>1. rack' = [rack EXCEPT ![act].id = Blank]
      BY <1>1, <1>3, <2>2 DEF HbwRecords
    <3>2. s # act => rack'[s] = rack[s]
      BY <1>1, <3>1
    <3>3. s = act => rack'[s] = [rack[s] EXCEPT !.id = Blank]
      BY <1>1, <3>1
    <3>4. s = act => rack'[s].id = Blank /\ rack'[s].type = rack[s].type
      BY <1>2, <3>3 DEF RackEntry
    <3> QED  BY <1>3, <2>1, <2>2, <3>2, <3>4, SlotFetched
  <2>3. CASE "HBW_Storage" \notin bits
    <3>1. rack' = [rack EXCEPT ![act] = BlankEntry]
      BY <1>1, <1>3, <2>3 DEF HbwRecords
    <3>2. s # act => rack'[s] = rack[s]
      BY <1>1, <3>1
    <3>3. s = act => rack'[s] = BlankEntry
      BY <1>1, <3>1
    <3> QED  BY <1>3, <2>1, <3>2, <3>3 DEF BlankEntry
  <2> QED BY <2>2, <2>3
<1>4. CASE HbwEdge(250, 260)
  <2>1. ~HbwEdge(100, 110)
    BY <1>4 DEF HbwEdge
  <2>2. CASE "lx_Storage" \in bits
    <3> DEFINE new == [id |-> wp["HBW"].id, type |-> wp["HBW"].type, ts |-> 0]
    <3>1. rack' = Stamped(new)
      BY <1>1, <1>4, <2>2 DEF HbwRecords
    <3>2. s # act => rack'[s] = [rack[s] EXCEPT !.ts = Rank(s)] \/ rack'[s] = rack[s]
      BY <3>1 DEF Stamped
    <3>3. s = act => rack'[s] = [new EXCEPT !.ts = 1 + Cardinality(Others)]
      BY <3>1 DEF Stamped
    <3>4. s # act => rack'[s].id = rack[s].id /\ rack'[s].type = rack[s].type
      BY <1>2, <3>2 DEF RackEntry
    <3>5. s = act => rack'[s].id = wp["HBW"].id /\ rack'[s].type = wp["HBW"].type
      BY <3>3
    <3> QED  BY <1>4, <2>1, <2>2, <3>4, <3>5
  <2>3. CASE "lx_Storage" \notin bits
    <3>1. rack' = [rack EXCEPT ![act].id = "0"]
      BY <1>1, <1>4, <2>3 DEF HbwRecords
    <3>2. s # act => rack'[s] = rack[s]
      BY <1>1, <3>1
    <3>3. s = act => rack'[s] = [rack[s] EXCEPT !.id = "0"]
      BY <1>1, <3>1
    <3>4. s = act => rack'[s].id = "0" /\ rack'[s].type = rack[s].type
      BY <1>2, <3>3 DEF RackEntry
    <3> QED  BY <1>4, <2>1, <2>3, <3>2, <3>4
  <2> QED BY <2>2, <2>3
<1>5. CASE ~HbwEdge(100, 110) /\ ~HbwEdge(250, 260)
  BY <1>1, <1>5 DEF HbwRecords
<1> QED BY <1>3, <1>4, <1>5

\* The slot to which a container returns.
LEMMA SlotReturned ==
  ASSUME HbwTurn, HbwEdge(250, 260)
  PROVE  /\ Held(act) = {} /\ rack[act].id = Blank /\ rack[act].type = Blank
         /\ "lx_Storage" \in bits => \E p \in Piece : Held("belt") = {p} /\ wp["HBW"] = Rec(p)
         /\ "lx_Storage" \notin bits => Held("belt") = {}
<1>1. act \in Slot /\ SlotTrue(act) /\ InFlux(act) /\ OnBelt /\ BeltRecord /\ hbw \in Returning
  BY HbwPlaces DEF HbwTurn, NormalInv, RackRight, RackTold, Places, Records, InFlux, HbwEdge, Returning
<1>2. Held(act) = {} /\ rack[act].id = Blank /\ rack[act].type = Blank
  BY <1>1 DEF SlotTrue
<1>3. Held("belt") # {} <=> "lx_Storage" \in bits
  BY <1>1 DEF OnBelt
<1>4. \A p \in Held("belt") : Held("belt") = {p} /\ wp["HBW"] = Rec(p) /\ p \in Piece
  <2>1. \A p \in Held("belt") : wp["HBW"] = Rec(p) /\ p \in Piece
    BY <1>1 DEF BeltRecord, Held
  <2> QED  BY <1>1, <2>1 DEF OnBelt, Single
<1> QED BY <1>2, <1>3, <1>4

LEMMA HbwKeepsRackTold == ASSUME HbwTurn PROVE RackTold'
<1>1. HbwPlaced /\ HbwRoute /\ HbwGuards /\ RackTold
  BY HbwPlaces DEF HbwTurn, HbwCall, NormalInv, RackRight
<1>2. ASSUME NEW s \in Slot PROVE SlotTrue(s)'
  <2>1. SlotTrue(s) /\ s # "belt"
    BY <1>1, PlantAssumption DEF RackTold, Station
  <2>2. CASE s = act /\ HbwEdge(100, 110)
    <3>1. InFlux(s)' /\ rack'[s].id = Blank /\ rack'[s].type = Blank
      BY <2>2, HbwPlaces, HbwSlots DEF InFlux, HbwEdge, Bringing
    <3>2. Held(s)' = {}
      BY <1>1, <2>1, <2>2 DEF HbwPlaced, Held, HbwEdge
    <3> QED  BY <3>1, <3>2 DEF SlotTrue
  <2>3. CASE s = act /\ HbwEdge(250, 260)
    <3>1. ~InFlux(s)'
      BY <2>3 DEF InFlux, HbwEdge, Bringing, Returning
    <3>2. \A p \in Piece : at'[p] = s <=> at[p] = "belt"
      BY <1>1, <2>1, <2>3, SlotReturned DEF HbwPlaced, Held, HbwEdge
    <3>3. CASE "lx_Storage" \in bits
      <4>1. PICK p \in Piece : Held("belt") = {p} /\ wp["HBW"] = Rec(p)
        BY <2>3, <3>3, SlotReturned
      <4>2. rack'[s].id = p /\ rack'[s].type = ColourOf[p]
        BY <2>3, <3>3, <4>1, HbwSlots DEF Rec
      <4>3. \A q \in Piece : at[q] = "belt" <=> q = p
        BY <4>1 DEF Held
      <4> QED  BY <3>1, <3>2, <4>2, <4>3, BlankIsNone DEF SlotTrue
    <3>4. CASE "lx_Storage" \notin bits
      <4>1. rack'[s].id = "0" /\ rack'[s].type = Blank /\ Held("belt") = {}
        BY <2>3, <3>4, HbwSlots, SlotReturned
      <4>2. \A q \in Piece : at[q] # "belt"
        BY <4>1 DEF Held
      <4> QED  BY <3>1, <3>2, <4>1, <4>2, BlankIsNone DEF SlotTrue
    <3> QED BY <3>3, <3>4
  <2>4. CASE ~(s = act /\ (HbwEdge(100, 110) \/ HbwEdge(250, 260)))
    <3>1. rack'[s].id = rack[s].id /\ rack'[s].type = rack[s].type
      BY <2>4, HbwSlots
    <3>2. \A p \in Piece : at'[p] = s <=> at[p] = s
      BY <1>1, <2>1, <2>4 DEF HbwPlaced
    <3>3. Held(s)' = Held(s)
      BY <3>2 DEF Held
    <3>4. InFlux(s)' <=> InFlux(s)
      BY <1>1, <2>4 DEF InFlux, HbwRoute, HbwRoutes, HbwGuards, HbwEdge, Bringing, Returning
    <3> QED  BY <2>1, <3>1, <3>2, <3>3, <3>4 DEF SlotTrue
  <2> QED BY <2>2, <2>3, <2>4
<1> QED BY <1>2 DEF RackTold

LEMMA HbwKeepsRackRight == ASSUME HbwTurn PROVE RackRight'
<1>1. /\ HbwPlaced /\ HbwRoute /\ HbwGuards /\ HbwRecords /\ RackRight /\ Job /\ Asking /\ OrderLife /\ StorageAlone
      /\ UNCHANGED <<vgr, ord, typ, button>> /\ Remains("HBW_Outsource") /\ Remains("HBW_Storage")
      /\ rack \in [Slot -> RackEntry] /\ button \in Colour \cup {Blank} /\ typ \in Colour \cup {Blank}
  BY HbwPlaces DEF HbwTurn, HbwCall, NormalInv, TypeOK, Dialogues, Orders, HbwBits, HbwBit, Remains
<1>2. vgr = 485 => hbw \in {180, 190}
  BY AwayFromBelt
<1>3. hbw = 60 => "HBW_Outsource" \in bits /\ "HBW_Storage" \notin bits /\ OfType(typ) # {}
  BY <1>1, <1>2 DEF Job, StorageAlone, RackRight, Stocked, Bringing
<1>4. hbw = 50 => "HBW_Outsource" \notin bits
  BY <1>1 DEF Job, StorageAlone
<1>5. SlotChosen'
  <2>1. CASE HbwEdge(50, 70)
    <3>1. FreeSlots # {} /\ FreeSlots \subseteq Slot /\ act' = FirstOf(FreeSlots) /\ rack' = rack
      BY <1>1, <2>1 DEF HbwGuards, HbwRecords, HbwEdge, FreeSlots
    <3>2. act' \in FreeSlots
      BY <3>1, FirstOfIn
    <3> QED
      BY <1>1, <1>4, <2>1, <3>1, <3>2 DEF SlotChosen, FreeSlots, HbwEdge, Remains
  <2>2. CASE HbwEdge(60, 70)
    <3>1. OfType(typ) # {} /\ OfType(typ) \subseteq Slot /\ act' = Oldest(OfType(typ)) /\ rack' = rack
      BY <1>1, <1>3, <2>2 DEF HbwGuards, HbwRecords, HbwEdge, OfType
    <3>2. act' \in OfType(typ) /\ \A t \in OfType(typ) : rack[act'].ts <= rack[t].ts
      BY <1>1, <3>1, OldestIn
    <3>3. OfType(typ)' = OfType(typ)
      BY <1>1, <3>1 DEF OfType
    <3>4. \A t \in OfType(typ)' : rack'[act'].ts <= rack'[t].ts
      BY <3>1, <3>2, <3>3
    <3>5. act' \in Slot /\ act' \in OfType(typ)'
      BY <3>1, <3>2, <3>3
    <3> QED
      BY <1>1, <1>3, <2>2, <3>4, <3>5 DEF SlotChosen, HbwEdge, Remains
  <2>3. CASE ~HbwEdge(50, 70) /\ ~HbwEdge(60, 70)
    <3>1. hbw' \in {70, 100} => hbw \in {70, 100} /\ UNCHANGED <<act, rack>>
      BY <1>1, <2>3 DEF HbwRoute, HbwRoutes, HbwGuards, HbwRecords, HbwEdge
    <3> QED
      BY <1>1, <3>1 DEF RackRight, SlotChosen, OfType, Remains
  <2> QED BY <2>1, <2>2, <2>3
<1>6. \A c \in Colour : ~(HbwEdge(100, 110) /\ "HBW_Outsource" \in bits) => OfType(c) \subseteq OfType(c)'
  <2> SUFFICES ASSUME NEW c \in Colour, ~(HbwEdge(100, 110) /\ "HBW_Outsource" \in bits), NEW s \in Slot,
                      rack[s].type = c
               PROVE  rack'[s].type = c
    BY DEF OfType
  <2>1. CASE s = act /\ HbwEdge(100, 110)
    <3>1. "HBW_Storage" \in bits
      BY <1>1, <2>1 DEF Job, Searching, HbwEdge
    <3> QED  BY <2>1, <3>1, SlotFetched, BlankIsNone
  <2>2. CASE s = act /\ HbwEdge(250, 260)
    BY <2>2, SlotReturned, BlankIsNone
  <2>3. CASE ~(s = act /\ (HbwEdge(100, 110) \/ HbwEdge(250, 260)))
    BY <2>3, HbwSlots
  <2> QED BY <2>1, <2>2, <2>3
<1>7. Stocked'
  <2>1. button # Blank => OfType(button)' # {}
    <3>1. button # Blank => "HBW_Outsource" \notin bits
      BY <1>1 DEF OrderLife, Unoccupied, Asking, OrderAsked
    <3> QED  BY <1>1, <1>6, <3>1 DEF RackRight, Stocked, OfType
  <2>2. "HBW_Outsource" \in bits /\ hbw' \notin Bringing /\ vgr # 485 => OfType(typ)' # {}
    <3> SUFFICES ASSUME "HBW_Outsource" \in bits, hbw' \notin Bringing, vgr # 485 PROVE OfType(typ)' # {}
      OBVIOUS
    <3>1. typ \in Colour /\ ~HbwEdge(100, 110)
      BY <1>1 DEF Asking, OrderAsked, RackRight, Stocked, HbwEdge, Bringing
    <3>2. hbw \notin Bringing
      BY <1>1, HandedOver DEF HbwRoute, HbwRoutes, HbwEdge, Bringing
    <3> QED  BY <1>1, <1>6, <3>1, <3>2 DEF RackRight, Stocked, OfType
  <2> QED  BY <1>1, <2>1, <2>2 DEF RackRight, Stocked, OfType, Remains
<1>8. ColourRight'
  <2> SUFFICES ASSUME hbw' \in Bringing, "HBW_Outsource" \in bits, NEW p \in Fetched' PROVE ColourOf[p] = typ
    BY <1>1 DEF ColourRight, Remains
  <2>1. CASE HbwEdge(100, 110)
    <3>1. Held("gripper") = {}
      BY <1>1, <2>1, AwayFromBelt DEF HbwTurn, NormalInv, Places, Gripped, Asking, OrderAsked, OrderRuns,
         ForOrder, HoldFinished, HoldOrder, HoldStore, HbwEdge
    <3>2. at[p] = act
      BY <1>1, <2>1, <3>1, HbwPlaces, SlotFetched DEF Fetched, Held, HbwPlaced, Station
    <3> QED  BY <2>1, <3>2, SlotFetched DEF Fetched, Held
  <2>2. CASE ~HbwEdge(100, 110)
    <3>1. hbw \in Bringing /\ ~HbwEdge(250, 260)
      BY <1>1, <2>2 DEF HbwRoute, HbwRoutes, HbwEdge, Bringing
    <3>2. p \in Fetched
      BY <1>1, <2>2, <3>1 DEF Fetched, Held, HbwPlaced
    <3> QED  BY <1>1, <3>1, <3>2 DEF RackRight, ColourRight
  <2> QED BY <2>1, <2>2
<1> QED BY <1>5, <1>7, <1>8, HbwKeepsRackTold DEF RackRight

LEMMA HbwKeepsRecords == ASSUME HbwTurn PROVE Records'
<1>1. /\ HbwPlaced /\ HbwRoute /\ HbwWrites /\ Records /\ Job /\ Asking /\ wp \in [Register -> Workpiece]
      /\ UNCHANGED <<vgr, nfc, mpo, ord>> /\ Remains("HBW_Outsource") /\ Remains("HBW_Storage")
  BY HbwPlaces DEF HbwTurn, HbwCall, NormalInv, TypeOK, Dialogues, HbwBits, HbwBit, Remains
<1>2. \A x \in {"gripper", "oven", "SLD", "DSO"} \cup Colour : \A p \in Piece : at'[p] = x <=> at[p] = x
  <2>1. {"gripper", "oven", "SLD", "DSO"} \cup Colour \subseteq (Station \cup Colour) \ {"belt"}
    BY DEF Station, Colour
  <2> QED  BY <2>1, HbwPlaces
<1>3. \A r \in {"MPO", "SLD", "SSC"} : wp'[r] = wp[r]
  BY <1>1 DEF HbwWrites, Register
<1>4. wp'["VGR"] = wp["VGR"] \/ (wp'["VGR"] = wp["HBW"] /\ HbwEdge(180, 190) /\ PickedUp)
  BY <1>1 DEF HbwWrites, Register
<1>5. LaterRecords'
  <2>1. ASSUME NEW p \in Piece
        PROVE  /\ at'[p] = "oven" => at[p] = "oven"
               /\ at'[p] \in {"SLD"} \cup Colour => at[p] \in {"SLD"} \cup Colour
               /\ at'[p] = "DSO" => at[p] = "DSO"
    <3>1. at'[p] \in {"gripper", "oven", "SLD", "DSO"} \cup Colour => at[p] = at'[p]
      BY <1>2
    <3> QED  BY <3>1
  <2>2. wp'["MPO"] = wp["MPO"] /\ wp'["SLD"] = wp["SLD"] /\ wp'["SSC"] = wp["SSC"]
    BY <1>3
  <2> QED  BY <1>1, <2>1, <2>2 DEF Records, LaterRecords, Rec
<1>6. CASE HbwEdge(180, 190) /\ PickedUp
  <2>1. vgr = 485 /\ "HBW_Outsource" \in bits /\ Held("belt") = {}
    BY <1>6, HandedOver DEF Discarded
  <2>2. ~HbwEdge(100, 110) /\ ~HbwEdge(250, 260) /\ wp'["VGR"] = wp["HBW"]
    BY <1>1, <1>6 DEF HbwEdge, HbwWrites, Register
  <2>3. \A p \in Held("gripper") : wp'["VGR"] = Rec(p)
    BY <1>1, <1>6, <2>1, <2>2 DEF Records, BeltRecord, Fetched, Held, Bringing, HbwEdge
  <2>4. GripperRecord'
    BY <1>1, <1>2, <2>1, <2>3 DEF GripperRecord, Held, HoldFinished, HoldStore, Rec
  <2>5. BeltRecord'
    BY <1>1, <1>6, <2>1, <2>2 DEF BeltRecord, Held, HbwPlaced, HbwEdge, Bringing
  <2> QED  BY <1>5, <2>4, <2>5 DEF Records
<1>7. CASE ~(HbwEdge(180, 190) /\ PickedUp)
  <2>1. wp'["VGR"] = wp["VGR"]
    BY <1>4, <1>7
  <2>2. GripperRecord'
    <3>1. vgr = 910 => ~HbwEdge(100, 110)
      BY AwayFromBelt DEF HbwEdge
    <3>2. \A p \in Piece : at'[p] = "belt" /\ vgr = 910 => at[p] = "belt"
      BY <1>1, <3>1, HbwPlaces DEF HbwPlaced, Station
    <3>3. vgr = 485 /\ hbw' \notin Bringing => hbw \notin Bringing
      BY <1>1, <1>7, HandedOver DEF HbwRoute, HbwRoutes, HbwEdge, Bringing
    <3> QED
      BY <1>1, <1>2, <2>1, <3>2, <3>3 DEF Records, GripperRecord, Rec
  <2>3. ASSUME NEW p \in Piece, hbw' \in Bringing, "HBW_Outsource" \in bits, p \in Fetched' PROVE wp'["HBW"] = Rec(p)
    <3>1. CASE HbwEdge(100, 110)
      <4>1. Held("gripper") = {}
        BY <1>1, <2>3, <3>1, AwayFromBelt DEF HbwTurn, NormalInv, Places, Gripped, Asking, OrderAsked, OrderRuns,
           ForOrder, HoldFinished, HoldOrder, HoldStore, HbwEdge
      <4>2. at[p] = act
        BY <1>1, <2>3, <3>1, <4>1, HbwPlaces, SlotFetched DEF Fetched, Held, HbwPlaced, Station
      <4>3. wp'["HBW"] = [id |-> rack[act].id, type |-> rack[act].type]
        BY <1>1, <2>3, <3>1, SlotFetched DEF HbwWrites, Register
      <4> QED  BY <3>1, <4>2, <4>3, SlotFetched DEF Rec
    <3>2. CASE ~HbwEdge(100, 110)
      <4>1. hbw \in Bringing /\ ~HbwEdge(250, 260) /\ ~HbwEdge(180, 190)
        BY <1>1, <2>3, <3>2 DEF HbwRoute, HbwRoutes, HbwEdge, Bringing
      <4>2. p \in Fetched /\ wp' = wp
        BY <1>1, <2>3, <3>2, <4>1 DEF Fetched, Held, HbwPlaced, HbwWrites
      <4> QED  BY <1>1, <2>3, <4>1, <4>2 DEF Records, BeltRecord
    <3> QED BY <3>1, <3>2
  <2>4. ASSUME NEW p \in Piece, hbw' \in Returning, at'[p] = "belt" PROVE wp'["HBW"] = Rec(p)
    <3>1. CASE HbwEdge(180, 190)
      <4>1. at[p] = "belt" /\ vgr = 910 /\ wp'["HBW"] = wp["VGR"]
        BY <1>1, <1>7, <2>4, <3>1, HandedOver DEF HbwPlaced, HbwWrites, Register, HbwEdge
      <4> QED  BY <1>1, <4>1 DEF Records, GripperRecord
    <3>2. CASE ~HbwEdge(180, 190)
      <4>1. hbw \in Returning /\ ~HbwEdge(250, 260) /\ ~HbwEdge(100, 110)
        BY <1>1, <2>4, <3>2 DEF HbwRoute, HbwRoutes, HbwEdge, Returning
      <4> QED  BY <1>1, <2>4, <3>2, <4>1 DEF HbwPlaced, HbwWrites, Records, BeltRecord
    <3> QED BY <3>1, <3>2
  <2>5. BeltRecord'
    BY <1>1, <2>3, <2>4 DEF BeltRecord, Rec, Remains
  <2> QED  BY <1>5, <2>2, <2>5 DEF Records
<1> QED BY <1>6, <1>7

-----------------------------------------------------------------------------
(* What the calls of the other programs leave of the invariant.            *)

\* The programs after the warehouse and before the robot's next call.
Turn(p, q) == NormalInv /\ prg = p /\ prg' = q

\* What a program that touches neither requests nor steps of robot and
\* warehouse leaves of the dialogues, but for those with the stations.
Shared == {"HBW_Storage", "HBW_Outsource", "HBW_PickedUp", "HBW_Discards", "Ready_For_Outsource", "lx_Storage"}
              \cup ErrorBit \cup SetupBit

LEMMA AskingStands ==
  ASSUME NormalInv, UNCHANGED <<vgr, hbw, ord>>, \A b \in Shared : Remains(b),
         vgr = 485 /\ ord = 20 => prg' \in {"NFC", "HBW", "MPO", "SLD", "DSO", "Order"}
  PROVE  Asking' /\ Job'
<1>1. Asking /\ Job
  BY DEF NormalInv, Dialogues
<1>2. /\ Remains("HBW_Storage") /\ Remains("HBW_Outsource") /\ Remains("HBW_PickedUp")
      /\ Remains("HBW_Discards") /\ Remains("Ready_For_Outsource") /\ Remains("lx_Storage")
  BY DEF Shared
<1>3. Untroubled'
  BY <1>1 DEF Asking, Untroubled, Shared, Remains
<1>4. StoreAsked' /\ OrderAsked' /\ OrderRuns' /\ Reports' /\ Readiness'
  BY <1>1, <1>2 DEF Asking, Remains, StoreAsked, OrderAsked, OrderRuns, Reports, Readiness
<1>5. Job'
  BY <1>1, <1>2 DEF Job, Remains
<1> QED BY <1>3, <1>4, <1>5 DEF Asking

\* A call that moves no workpiece.
LEMMA PlacesStand ==
  ASSUME NormalInv, UNCHANGED <<at, vgr, hbw, bay>>, InOven', \A b \in Shared : Remains(b)
  PROVE  Places'
<1>1. Places
  BY DEF NormalInv
<1>2. Remains("HBW_Storage") /\ Remains("HBW_Outsource") /\ Remains("lx_Storage")
  BY DEF Shared
<1> QED
  BY <1>1, <1>2 DEF Places, Gripped, Delivered, OnBelt, BayChosen, NoneLost, Held, Single, Remains

LEMMA RackStands ==
  ASSUME NormalInv, UNCHANGED <<vgr, hbw, act, rack, typ, ord, button>>, \A b \in Shared : Remains(b),
         \A p \in Piece : \A x \in Slot \cup {"belt", "gripper"} : at'[p] = x <=> at[p] = x
  PROVE  RackRight'
<1>1. RackRight
  BY DEF NormalInv
<1>2. Remains("HBW_Storage") /\ Remains("HBW_Outsource")
  BY DEF Shared
<1>3. RackTold'
  BY <1>1 DEF RackRight, RackTold, SlotTrue, InFlux, Held
<1>4. SlotChosen' /\ Stocked'
  BY <1>1, <1>2 DEF RackRight, SlotChosen, Stocked, OfType, Remains
<1>5. Fetched' = Fetched
  BY DEF Fetched, Held
<1>6. ColourRight'
  BY <1>1, <1>2, <1>5 DEF RackRight, ColourRight, Remains
<1> QED BY <1>3, <1>4, <1>6 DEF RackRight

LEMMA OrdersStand ==
  ASSUME NormalInv, UNCHANGED <<at, vgr, ord, state, button>>, Remains("DSO_Occupied"), Remains("StartEndOrder"),
         prg' \in {"Order", "Ack", "IO"} => prg \in {"Order", "Ack", "IO"}
  PROVE  Orders'
<1>1. Orders /\ UNCHANGED <<at, vgr, ord, state, button>> /\ Remains("DSO_Occupied") /\ Remains("StartEndOrder")
  BY DEF NormalInv, Remains
<1>2. OrderLife'
  BY <1>1 DEF Orders, OrderLife, Single, Finishing, Over, Unoccupied
<1>3. OnShelf'
  BY <1>1 DEF Orders, OnShelf, Single, Held, Over, Remains
<1> QED BY <1>2, <1>3 DEF Orders

LEMMA NfcKeepsNormal ==
  ASSUME Turn("NFC", "HBW"), NfcMayFail = FALSE, NFCProgram
  PROVE  Dialogues' /\ Places' /\ Orders' /\ RackRight' /\ Records'
<1>1. /\ NormalInv /\ UNCHANGED <<vgr, hbw, mpo, sld, ord, rack, act, bay, typ, state, button, at, cont>>
      /\ NfcStart \/ NfcDeleted \/ NfcWritten \/ NfcCompleted
      /\ prg = "NFC" /\ prg' = "HBW"
  BY DEF Turn, NFCProgram, NfcTimeout
<1>2. \A b \in Bit \ {"NFC_Completed"} : Remains(b)
  BY <1>1 DEF NfcStart, NfcDeleted, NfcWritten, NfcCompleted, Switch, Remains
<1>3. Shared \cup MpoBit \cup {"DSO_Occupied", "StartEndOrder", "MPO_Req_Discard", "MPO_Discards", "NFC_Start",
                               "NFC_Start_First"} \subseteq Bit \ {"NFC_Completed"}
  BY DEF Shared, Bit, VgrBit, MpoBit, SldBit, SetupBit, EdgeBit, ModeBit, HbwBit, ErrorBit
<1>4. Asking' /\ Job'
  BY <1>1, <1>2, <1>3, AskingStands
<1>5. OvenTalk'
  BY <1>1, <1>2, <1>3 DEF NormalInv, Dialogues, OvenTalk, MpoBit, Remains
<1>6. ReaderTalk'
  <2>1. ReaderTalk /\ Remains("NFC_Start") /\ Remains("NFC_Start_First") /\ "Workpiece_NiO" \notin bits
    BY <1>1, <1>2, <1>3 DEF NormalInv, Dialogues, Asking, Untroubled, ErrorBit
  <2> QED
    BY <1>1, <2>1 DEF ReaderTalk, NfcStart, NfcDeleted, NfcWritten, NfcCompleted, Switch, Remains
<1>7. InOven'
  BY <1>1 DEF NormalInv, Places, InOven, Held
<1>8. Places' /\ RackRight' /\ Orders'
  BY <1>1, <1>2, <1>3, <1>7, PlacesStand, RackStands, OrdersStand
<1>9. Records'
  <2>1. Records /\ ReaderTalk /\ wp \in [Register -> Workpiece] /\ Single(Held("gripper"))
        /\ Remains("HBW_Outsource")
    BY <1>1, <1>2, <1>3 DEF NormalInv, TypeOK, Places, Gripped, Dialogues, Shared
  <2>2. CASE wp' = wp /\ ~(nfc = 20 /\ nfc' = 50)
    <3>1. vgr = 700 /\ nfc' \in {50, 80} => nfc \in {50, 80}
      BY <1>1, <2>1, <2>2 DEF NfcStart, NfcDeleted, NfcWritten, NfcCompleted, ReaderTalk
    <3> QED
      BY <1>1, <2>1, <2>2, <3>1 DEF Records, GripperRecord, BeltRecord, LaterRecords, Rec, Held, Fetched, Remains
  <2>3. CASE wp' # wp \/ (nfc = 20 /\ nfc' = 50)
    <3>1. vgr = 700 /\ \E p \in Held("gripper") : wp' = [wp EXCEPT !["VGR"].id = p]
      BY <1>1, <2>1, <2>3 DEF NfcStart, NfcDeleted, NfcWritten, NfcCompleted, ReaderTalk
    <3>2. PICK p \in Held("gripper") : wp' = [wp EXCEPT !["VGR"].id = p]
      BY <3>1
    <3>3. wp'["VGR"].id = p /\ \A r \in Register \ {"VGR"} : wp'[r] = wp[r]
      BY <2>1, <3>2 DEF Register, Workpiece
    <3>4. \A q \in Held("gripper") : q = p
      BY <2>1, <3>2 DEF Single
    <3>5. GripperRecord'
      BY <1>1, <3>1, <3>3, <3>4 DEF GripperRecord, Rec, Held, HoldFinished, HoldStore
    <3>6. wp'["HBW"] = wp["HBW"] /\ wp'["MPO"] = wp["MPO"] /\ wp'["SLD"] = wp["SLD"] /\ wp'["SSC"] = wp["SSC"]
      BY <3>3 DEF Register
    <3>7. BeltRecord' /\ LaterRecords'
      BY <1>1, <2>1, <3>6 DEF Records, BeltRecord, LaterRecords, Rec, Held, Fetched, Remains
    <3> QED BY <3>5, <3>7 DEF Records
  <2> QED BY <2>2, <2>3
<1> QED BY <1>4, <1>5, <1>6, <1>8, <1>9 DEF Dialogues

\* Workpieces that stay between oven and shelf on their way.
LEMMA OrdersStandMoved ==
  ASSUME NormalInv, UNCHANGED <<vgr, ord, state, button>>, Remains("DSO_Occupied"), Remains("StartEndOrder"),
         prg' \notin {"Order", "Ack", "IO"}, Finishing' = Finishing, Held("DSO")' = Held("DSO")
  PROVE  Orders'
<1>1. Orders
  BY DEF NormalInv
<1>2. OrderLife'
  BY <1>1 DEF Orders, OrderLife, Single, Over, Unoccupied
<1>3. OnShelf'
  BY <1>1 DEF Orders, OnShelf, Single, Over, Remains
<1> QED BY <1>2, <1>3 DEF Orders

LEMMA MpoKeepsNormal ==
  ASSUME Turn("MPO", "SLD"), MpoMayFail = FALSE, MPOProgram
  PROVE  Dialogues' /\ Places' /\ Orders' /\ RackRight' /\ Records'
<1>1. /\ NormalInv /\ UNCHANGED <<vgr, nfc, hbw, sld, ord, rack, act, bay, typ, button, cont, state>>
      /\ MpoInit \/ MpoMove \/ MpoAwaitRequest \/ MpoOpen \/ MpoAccept \/ MpoRetract \/ MpoPassOn
      /\ prg = "MPO" /\ prg' = "SLD"
  BY DEF Turn, MPOProgram, MpoNoPart, MpoLostPart, MpoInit, MpoMove, MpoAwaitRequest, MpoOpen, MpoAccept,
         MpoRetract, MpoPassOn
<1>2. \A b \in Bit \ {"Discard_Ready", "MPO_Discards_Accepted"} : Remains(b)
  BY <1>1 DEF MpoInit, MpoMove, MpoAwaitRequest, MpoOpen, MpoAccept, MpoRetract, MpoPassOn, Switch, Remains
<1>3. Shared \cup {"DSO_Occupied", "StartEndOrder", "MPO_Req_Discard", "MPO_Discards", "NFC_Start",
                   "NFC_Start_First", "NFC_Completed"} \subseteq Bit \ {"Discard_Ready", "MPO_Discards_Accepted"}
  BY DEF Shared, Bit, VgrBit, MpoBit, SldBit, SetupBit, EdgeBit, ModeBit, HbwBit, ErrorBit
<1>4. Asking' /\ Job'
  BY <1>1, <1>2, <1>3, AskingStands
<1>5. ReaderTalk'
  BY <1>1, <1>2, <1>3 DEF NormalInv, Dialogues, ReaderTalk, Remains
<1>6. OvenTalk /\ InOven /\ Remains("MPO_Req_Discard") /\ Remains("MPO_Discards")
  BY <1>1, <1>2, <1>3 DEF NormalInv, Dialogues, Places
<1>7. OvenTalk'
  BY <1>1, <1>6 DEF OvenTalk, MpoInit, MpoMove, MpoMotion, MpoAwaitRequest, MpoOpen, MpoAccept, PartInOven,
     MpoRetract, MpoPassOn, Switch, Remains, Opening
\* The part passes from the oven to the sorting line.
<1>8. CASE Held("oven") # {} /\ mpo = 280 /\ Carry("oven", "SLD")
           /\ wp' = [wp EXCEPT !["SLD"] = wp["MPO"], !["MPO"] = NoWorkpiece] /\ mpo' = 290
  <2>1. /\ at \in [Piece -> Place] /\ wp \in [Register -> Workpiece] /\ Places /\ Records /\ OrderLife
    BY <1>1 DEF NormalInv, TypeOK, Orders
  <2>2. \A p \in Piece : at'[p] = IF at[p] = "oven" THEN "SLD" ELSE at[p]
    BY <1>8 DEF Carry
  <2>3. \A x \in Place \ {"oven", "SLD"} : \A p \in Piece : at'[p] = x <=> at[p] = x
    BY <2>2
  <2>4. Slot \cup Colour \cup {"belt", "gripper", "DSI", "DSO", "lost", "reject"} \subseteq Place \ {"oven", "SLD"}
    BY PlantAssumption DEF Place, Station, Colour
  <2>5. \A x \in Slot \cup Colour \cup {"belt", "gripper", "DSI", "DSO", "lost", "reject"} : Held(x)' = Held(x)
    BY <2>3, <2>4 DEF Held
  <2>6. Finishing' = Finishing
    BY <1>1, <2>2 DEF Finishing, Colour
  <2>7. Orders'
    BY <1>1, <1>2, <1>3, <2>5, <2>6, OrdersStandMoved
  <2>8. RackRight'
    <3>1. \A p \in Piece : \A x \in Slot \cup {"belt", "gripper"} : at'[p] = x <=> at[p] = x
      BY <2>3, <2>4
    <3> QED  BY <1>1, <1>2, <1>3, <3>1, RackStands
  <2>9. Places'
    <3>1. InOven'
      <4>1. \A p \in Piece : at'[p] # "oven"
        BY <2>2
      <4> QED  BY <1>1, <1>8, <4>1 DEF InOven, Held
    <3>2. /\ Remains("HBW_Storage") /\ Remains("HBW_Outsource") /\ Remains("lx_Storage")
          /\ \A x \in {"gripper", "belt", "DSI"} : Single(Held(x))' <=> Single(Held(x))
      BY <1>2, <1>3, <2>5 DEF Single, Shared
    <3>3. Gripped' /\ Delivered' /\ OnBelt' /\ NoneLost'
      BY <1>1, <2>1, <2>5, <3>2 DEF Places, Gripped, Delivered, OnBelt, NoneLost, Remains
    <3>4. BayChosen'
      BY <1>1, <2>1, <2>5 DEF Places, BayChosen
    <3> QED BY <3>1, <3>3, <3>4 DEF Places
  <2>10. Records'
    <3>1. /\ wp'["VGR"] = wp["VGR"] /\ wp'["HBW"] = wp["HBW"] /\ wp'["SSC"] = wp["SSC"] /\ wp'["SLD"] = wp["MPO"]
          /\ Remains("HBW_Outsource")
      BY <1>2, <1>3, <1>8, <2>1 DEF Register, Shared
    <3>2. \A p \in Piece : at'[p] \in {"SLD"} \cup Colour => at[p] = "oven"
      BY <1>8, <2>1, <2>2 DEF OrderLife, Single, Finishing, Held
    <3>3. GripperRecord'
      BY <1>1, <1>8, <1>6, <2>1, <2>2, <3>1 DEF Records, GripperRecord, Rec
    <3>4. BeltRecord'
      BY <1>1, <1>8, <2>1, <2>2, <3>1 DEF Records, BeltRecord, Rec, Fetched, Held, Remains
    <3>5. \A p \in Piece : at[p] = "oven" => wp["MPO"] = Rec(p)
      BY <1>8, <2>1 DEF Records, LaterRecords
    <3>6. \A p \in Piece : at'[p] # "oven" /\ (at'[p] = "DSO" => at[p] = "DSO")
      BY <2>2
    <3>7. LaterRecords'
      BY <2>1, <3>1, <3>2, <3>5, <3>6 DEF Records, LaterRecords, Rec
    <3> QED BY <3>3, <3>4, <3>7 DEF Records
  <2> QED BY <1>4, <1>5, <1>7, <2>7, <2>8, <2>9, <2>10 DEF Dialogues
\* Otherwise no workpiece moves.
<1>9. CASE at' = at /\ \/ wp' = wp /\ ~(mpo = 100 /\ mpo' = 105) /\ ~(mpo = 280 /\ mpo' = 290)
                       \/ wp' = [wp EXCEPT !["MPO"] = wp["VGR"]] /\ mpo = 100 /\ mpo' = 105
  <2>1. InOven'
    BY <1>1, <1>6, <1>9 DEF InOven, OvenTalk, MpoInit, MpoMove, MpoMotion, MpoAwaitRequest, MpoOpen, MpoAccept,
       PartInOven, MpoRetract, MpoPassOn, Held, Opening
  <2>2. Places' /\ RackRight' /\ Orders'
    BY <1>1, <1>2, <1>3, <1>9, <2>1, PlacesStand, RackStands, OrdersStand
  <2>3. Records'
    <3>1. Records /\ wp \in [Register -> Workpiece] /\ Remains("HBW_Outsource")
      BY <1>1, <1>2, <1>3 DEF NormalInv, TypeOK, Shared
    <3>2. wp'["VGR"] = wp["VGR"] /\ wp'["HBW"] = wp["HBW"] /\ wp'["SSC"] = wp["SSC"] /\ wp'["SLD"] = wp["SLD"]
      BY <1>9, <3>1 DEF Register
    <3>3. GripperRecord' /\ BeltRecord'
      BY <1>1, <1>9, <3>1, <3>2 DEF Records, GripperRecord, BeltRecord, Rec, Fetched, Held, Remains
    <3>4. ASSUME NEW p \in Piece, at[p] = "oven", mpo' \in {105, 110, 280} PROVE wp'["MPO"] = Rec(p)
      <4>1. CASE mpo = 100 /\ mpo' = 105
        <5>1. vgr = 550 /\ wp'["MPO"] = wp["VGR"]
          BY <1>1, <1>6, <1>9, <3>1, <4>1 DEF MpoInit, MpoMove, MpoMotion, MpoAwaitRequest, MpoOpen, MpoAccept,
             PartInOven, MpoRetract, MpoPassOn, OvenTalk, Register
        <5> QED  BY <3>1, <3>4, <5>1 DEF Records, GripperRecord
      <4>2. CASE ~(mpo = 100 /\ mpo' = 105)
        <5>1. mpo \in {105, 110, 280} /\ wp' = wp
          BY <1>1, <1>9, <3>4, <4>2, <1>6 DEF MpoInit, MpoMove, MpoMotion, MpoAwaitRequest, MpoOpen, MpoAccept,
             MpoRetract, MpoPassOn
        <5> QED  BY <3>1, <3>4, <5>1 DEF Records, LaterRecords
      <4> QED BY <4>1, <4>2
    <3>5. LaterRecords'
      BY <1>9, <3>1, <3>2, <3>4 DEF Records, LaterRecords, Rec
    <3> QED BY <3>3, <3>5 DEF Records
  <2> QED BY <1>4, <1>5, <1>7, <2>2, <2>3 DEF Dialogues
<1>10. \/ /\ Held("oven") # {} /\ mpo = 280 /\ Carry("oven", "SLD") /\ mpo' = 290
          /\ wp' = [wp EXCEPT !["SLD"] = wp["MPO"], !["MPO"] = NoWorkpiece]
       \/ at' = at /\ wp' = wp /\ ~(mpo = 100 /\ mpo' = 105) /\ ~(mpo = 280 /\ mpo' = 290)
       \/ at' = at /\ wp' = [wp EXCEPT !["MPO"] = wp["VGR"]] /\ mpo = 100 /\ mpo' = 105
  BY <1>1 DEF MpoInit, MpoMove, MpoMotion, MpoAwaitRequest, MpoOpen, MpoAccept, MpoRetract, MpoPassOn, TakeOver
<1> QED BY <1>8, <1>9, <1>10

\* A call that writes no bit and no register and moves workpieces, if any, from
\* the sorting line's belt into a bay, or between the shelves and the outside.
LEMMA RecordsStand ==
  ASSUME NormalInv, UNCHANGED <<vgr, nfc, hbw, mpo, wp>>, Remains("HBW_Outsource"),
         \A p \in Piece : /\ \A x \in {"gripper", "belt", "oven"} : at'[p] = x <=> at[p] = x
                          /\ at'[p] \in {"SLD"} \cup Colour => at[p] \in {"SLD"} \cup Colour
                          /\ at'[p] = "DSO" => at[p] = "DSO"
  PROVE  Records'
<1>1. Records
  BY DEF NormalInv
<1>2. GripperRecord' /\ BeltRecord'
  BY <1>1 DEF Records, GripperRecord, BeltRecord, Rec, Fetched, Held, Remains
<1>3. LaterRecords'
  <2>1. \A p \in Piece : at'[p] = "oven" <=> at[p] = "oven"
    OBVIOUS
  <2> QED  BY <1>1, <2>1 DEF Records, LaterRecords, Rec
<1> QED BY <1>2, <1>3 DEF Records

\* A call that changes bits only outside the dialogues of robot and warehouse.
LEMMA PlacesMoved ==
  ASSUME NormalInv, UNCHANGED <<vgr, hbw, mpo, bay>>, \A b \in Shared : Remains(b),
         \A x \in {"gripper", "belt", "oven", "lost", "reject"} : Held(x)' = Held(x),
         Single(Held("DSI"))', Held("DSI") # {} => Held("DSI")' # {},
         \A c \in Colour : Held(c) \subseteq Held(c)'
  PROVE  Places'
<1>1. Places
  BY DEF NormalInv
<1>2. Remains("HBW_Storage") /\ Remains("HBW_Outsource") /\ Remains("lx_Storage")
  BY DEF Shared
<1>3. /\ Held("gripper")' = Held("gripper") /\ Held("belt")' = Held("belt") /\ Held("oven")' = Held("oven")
      /\ Held("lost")' = Held("lost") /\ Held("reject")' = Held("reject")
  OBVIOUS
<1>4. (Single(Held("gripper"))' <=> Single(Held("gripper"))) /\ (Single(Held("belt"))' <=> Single(Held("belt")))
  BY <1>3 DEF Single
<1>5. Gripped' /\ Delivered' /\ OnBelt' /\ InOven' /\ NoneLost'
  BY <1>1, <1>2, <1>3, <1>4 DEF Places, Gripped, Delivered, OnBelt, InOven, NoneLost, Remains
<1>6. BayChosen'
  BY <1>1 DEF Places, BayChosen
<1> QED BY <1>5, <1>6 DEF Places

\* The dialogues with the stations while bits and steps stand.
LEMMA TalksStand ==
  ASSUME NormalInv, UNCHANGED <<vgr, nfc, hbw, mpo, ord>>, \A b \in Bit \ {"DSO_Occupied", "StartEndOrder"} : Remains(b),
         prg # "NFC", vgr = 485 /\ ord = 20 => prg' \in {"NFC", "HBW", "MPO", "SLD", "DSO", "Order"}
  PROVE  Dialogues'
<1>1. Shared \cup VgrBit \cup MpoBit \subseteq Bit \ {"DSO_Occupied", "StartEndOrder"}
  BY DEF Shared, Bit, VgrBit, MpoBit, SldBit, SetupBit, EdgeBit, ModeBit, HbwBit, ErrorBit
<1>2. \A b \in Shared \cup VgrBit \cup MpoBit : Remains(b)
  BY <1>1
<1>3. OvenTalk' /\ ReaderTalk'
  BY <1>2 DEF NormalInv, Dialogues, OvenTalk, ReaderTalk, VgrBit, MpoBit, Remains
<1>4. Asking' /\ Job'
  BY <1>2, AskingStands
<1> QED BY <1>3, <1>4 DEF Dialogues

LEMMA SldKeepsNormal ==
  ASSUME Turn("SLD", "DSO"), SldMayFail = FALSE, SLDProgram
  PROVE  Dialogues' /\ Places' /\ Orders' /\ RackRight' /\ Records'
<1>1. /\ NormalInv /\ UNCHANGED <<bits, vgr, nfc, hbw, mpo, ord, wp, rack, act, bay, typ, state, button, cont>>
      /\ at' = at \/ at' = [p \in Piece |-> IF at[p] = "SLD" THEN ColourOf[p] ELSE at[p]]
      /\ prg = "SLD" /\ prg' = "DSO"
  BY DEF Turn, SLDProgram, SldInit, SldMove, SldInlet, SldMeasure, SldTimeout, SldEject
<1>2. /\ at \in [Piece -> Place] /\ Slot \cap (Station \cup Colour) = {} /\ ColourOf \in [Piece -> Colour]
      /\ \A b \in Bit : Remains(b)
  BY <1>1, PlantAssumption DEF NormalInv, TypeOK, Remains
<1>3. \A p \in Piece : at'[p] = at[p] \/ (at[p] = "SLD" /\ at'[p] \in Colour)
  BY <1>1, <1>2
<1>4. \A x \in Slot \cup {"belt", "gripper", "oven", "DSI", "DSO", "lost", "reject"} :
        \A p \in Piece : at'[p] = x <=> at[p] = x
  BY <1>2, <1>3 DEF Station, Colour
<1>5. \A x \in {"belt", "gripper", "oven", "DSI", "DSO", "lost", "reject"} : Held(x)' = Held(x)
  BY <1>4 DEF Held
<1>6. Places'
  <2>1. Single(Held("DSI"))' /\ Held("DSI")' = Held("DSI")
    BY <1>1, <1>5 DEF NormalInv, Places, Delivered, Single
  <2>2. \A c \in Colour : Held(c) \subseteq Held(c)'
    BY <1>3 DEF Held, Colour
  <2>3. Shared \subseteq Bit
    BY DEF Shared, Bit, VgrBit, MpoBit, SldBit, SetupBit, EdgeBit, ModeBit, HbwBit, ErrorBit
  <2> QED  BY <1>1, <1>2, <1>5, <2>1, <2>2, <2>3, PlacesMoved
<1>7. Shared \cup {"DSO_Occupied", "StartEndOrder", "HBW_Outsource"} \subseteq Bit
  BY DEF Shared, Bit, VgrBit, MpoBit, SldBit, SetupBit, EdgeBit, ModeBit, HbwBit, ErrorBit
<1>8. Orders'
  <2>1. Finishing' = Finishing
    BY <1>1, <1>3 DEF Finishing, Colour
  <2> QED  BY <1>1, <1>2, <1>5, <1>7, <2>1, OrdersStandMoved
<1>9. RackRight'
  BY <1>1, <1>2, <1>4, <1>7, RackStands
<1>10. Records'
  <2>1. \A p \in Piece : /\ \A x \in {"gripper", "belt", "oven"} : at'[p] = x <=> at[p] = x
                         /\ at'[p] \in {"SLD"} \cup Colour => at[p] \in {"SLD"} \cup Colour
                         /\ at'[p] = "DSO" => at[p] = "DSO"
    BY <1>3, <1>4
  <2> QED  BY <1>1, <1>2, <1>7, <2>1, RecordsStand
<1>11. Dialogues'
  <2>1. \A b \in Bit \ {"DSO_Occupied", "StartEndOrder"} : Remains(b)
    BY <1>2
  <2>2. vgr = 485 /\ ord = 20 => prg' \in {"NFC", "HBW", "MPO", "SLD", "DSO", "Order"}
    BY <1>1
  <2> QED  BY <1>1, <2>1, <2>2, TalksStand
<1> QED BY <1>6, <1>8, <1>9, <1>10, <1>11

LEMMA DsoKeepsNormal ==
  ASSUME Turn("DSO", "Order"), DSOProgram
  PROVE  Dialogues' /\ Places' /\ Orders' /\ RackRight' /\ Records'
<1>1. /\ NormalInv /\ UNCHANGED <<vgr, nfc, hbw, mpo, ord, wp, rack, act, bay, typ, button, at, cont>>
      /\ prg = "DSO" /\ prg' = "Order"
  BY DEF Turn, DSOProgram
<1>2. \A b \in Bit \ {"DSO_Occupied", "StartEndOrder"} : Remains(b)
  BY DEF DSOProgram, Switch, Shelf, TimerStart, Remains
<1>3. Shared \cup {"HBW_Outsource"} \subseteq Bit \ {"DSO_Occupied", "StartEndOrder"}
  BY DEF Shared, Bit, VgrBit, MpoBit, SldBit, SetupBit, EdgeBit, ModeBit, HbwBit, ErrorBit
<1>4. Dialogues'
  BY <1>1, <1>2, TalksStand
<1>5. Places' /\ RackRight' /\ Records'
  <2>1. InOven'
    BY <1>1 DEF NormalInv, Places, InOven, Held
  <2> QED  BY <1>1, <1>2, <1>3, <2>1, PlacesStand, RackStands, RecordsStand
<1>6. Orders'
  <2>1. OrderLife /\ OnShelf
    BY <1>1 DEF NormalInv, Orders
  <2>2. Held("DSO")' = Held("DSO") /\ Finishing' = Finishing
    BY <1>1 DEF Held, Finishing
  <2>3. (Single(Held("DSO"))' <=> Single(Held("DSO"))) /\ (Single(Finishing)' <=> Single(Finishing))
    BY <2>2 DEF Single
  <2>4. "DSO_Occupied" \in bits' <=> Held("DSO") # {}
    BY DEF DSOProgram, Switch, Shelf, TimerStart
\* The order is over.
  <2>5. CASE (Taken \/ TimerOn) /\ state' = "WAITING_FOR_ORDER" /\ "StartEndOrder" \notin bits'
    <3>1. Over /\ button = Blank
      BY <2>1, <2>5 DEF OnShelf, OrderLife, Taken, TimerOn, Over
    <3>2. OrderLife'
      BY <1>1, <2>1, <2>2, <2>3, <2>5, <3>1 DEF OrderLife, Unoccupied, Over, OrderSteps
    <3>3. OnShelf'
      BY <1>1, <2>1, <2>2, <2>3, <2>4, <2>5, <3>1 DEF OnShelf, Over
    <3> QED BY <3>2, <3>3 DEF Orders
  <2>6. CASE state' = state /\ ("StartEndOrder" \in bits' => "StartEndOrder" \in bits \/ state = "SHIPPED")
    <3>1. OrderLife'
      BY <1>1, <2>1, <2>2, <2>3, <2>6 DEF OrderLife, Unoccupied, Over
    <3>2. OnShelf'
      BY <1>1, <2>1, <2>2, <2>3, <2>4, <2>6 DEF OnShelf, Over
    <3> QED BY <3>1, <3>2 DEF Orders
  <2>7. \/ (Taken \/ TimerOn) /\ state' = "WAITING_FOR_ORDER" /\ "StartEndOrder" \notin bits'
        \/ state' = state /\ ("StartEndOrder" \in bits' => "StartEndOrder" \in bits \/ state = "SHIPPED")
    BY DEF DSOProgram, Switch, Shelf, TimerStart
  <2> QED BY <2>5, <2>6, <2>7
<1> QED BY <1>4, <1>5, <1>6

\* PRG_Order may pass on an order only while the warehouse has no other job.
LEMMA OrderFindsIdle ==
  ASSUME Turn("Order", "Ack"), ord = 10, button # Blank, "Ready_For_Outsource" \in bits
  PROVE  vgr \in {10, 70} /\ hbw \notin Searching \cup Bringing /\ "HBW_Storage" \notin bits
<1>1. Asking /\ Job /\ OrderLife /\ StorageAlone /\ ord = 10
  BY DEF Turn, NormalInv, Dialogues, Orders
<1>2. vgr \in {10, 70}
  BY <1>1 DEF Asking, Readiness, OrderLife, Unoccupied, OrderSteps
<1>3. bits \cap {"HBW_Storage", "HBW_Outsource"} = {}
  BY <1>1 DEF StorageAlone, Asking, OrderAsked
<1> QED BY <1>1, <1>2, <1>3 DEF Job

LEMMA OrderTaken ==
  ASSUME Turn("Order", "Ack"), OrderProgram, ord = 10, button # Blank
  PROVE  Dialogues' /\ Places' /\ Orders' /\ RackRight' /\ Records'
<1>1. /\ NormalInv /\ UNCHANGED <<vgr, nfc, hbw, mpo, wp, rack, act, bay, at, cont>> /\ prg' = "Ack" /\ prg = "Order"
      /\ typ' = button /\ state' = "ORDERED"
      /\ \/ /\ "Ready_For_Outsource" \in bits /\ bits' = bits \cup {"HBW_Outsource"} /\ ord' = 20 /\ button' = Blank
         \/ "Ready_For_Outsource" \notin bits /\ UNCHANGED <<ord, bits, button>>
  BY DEF Turn, OrderProgram, OrderInit, OrderTake, OrderClear, Switch
<1>2. "Ready_For_Outsource" \in bits =>
        vgr \in {10, 70} /\ hbw \notin Searching \cup Bringing /\ "HBW_Storage" \notin bits
  BY OrderFindsIdle
<1>3. \A b \in Bit \ {"HBW_Outsource"} : Remains(b)
  BY <1>1 DEF Remains
<1>4. /\ (Shared \ {"HBW_Outsource"}) \cup MpoBit \cup EdgeBit
           \cup {"MPO_Req_Discard", "MPO_Discards", "NFC_Start", "NFC_Start_First", "NFC_Completed"}
         \subseteq Bit \ {"HBW_Outsource"}
  BY DEF Shared, Bit, VgrBit, MpoBit, SldBit, SetupBit, EdgeBit, ModeBit, HbwBit, ErrorBit
<1>5. \A b \in (Shared \ {"HBW_Outsource"}) \cup MpoBit \cup EdgeBit
                 \cup {"MPO_Req_Discard", "MPO_Discards", "NFC_Start", "NFC_Start_First", "NFC_Completed"} : Remains(b)
  BY <1>3, <1>4
<1>6. /\ Asking /\ Job /\ OvenTalk /\ ReaderTalk /\ Places /\ OrderLife /\ OnShelf /\ RackRight /\ Records
      /\ button \in Colour \cup {Blank} /\ "HBW_Outsource" \notin bits
  BY <1>1 DEF NormalInv, TypeOK, Dialogues, Orders, Asking, OrderAsked
<1>7. /\ Remains("HBW_Storage") /\ Remains("lx_Storage") /\ Remains("HBW_PickedUp") /\ Remains("HBW_Discards")
      /\ Remains("Ready_For_Outsource") /\ Remains("DSO_Occupied") /\ Remains("StartEndOrder")
  BY <1>5 DEF Shared, EdgeBit
<1>8. Finishing' = Finishing /\ \A x \in Place : Held(x)' = Held(x)
  BY <1>1 DEF Finishing, Held
<1>9. Dialogues'
  <2>1. Untroubled'
    <3>1. \A b \in ErrorBit \cup SetupBit : b \notin bits'
      BY <1>5, <1>6 DEF Shared, Remains, Asking, Untroubled, ErrorBit, SetupBit, ModeBit
    <3> QED  BY <1>1, <1>6, <3>1 DEF Asking, Untroubled
  <2>2. Asking'
    BY <1>1, <1>2, <1>6, <1>7, <2>1 DEF Asking, StoreAsked, OrderAsked, OrderRuns, Reports, Readiness, Remains
  <2>3. Job'
    BY <1>1, <1>2, <1>6, <1>7 DEF Job, Remains, Asking, OrderAsked, Searching
  <2>4. OvenTalk' /\ ReaderTalk'
    BY <1>1, <1>5, <1>6 DEF OvenTalk, ReaderTalk, MpoBit, Remains
  <2> QED BY <2>2, <2>3, <2>4 DEF Dialogues
<1>10. Places'
  BY <1>1, <1>2, <1>6, <1>7 DEF Places, Gripped, Delivered, OnBelt, InOven, BayChosen, NoneLost, Held, Single, Remains
<1>11. OrderLife'
  <2>1. Single(Finishing)' <=> Single(Finishing)
    BY <1>8 DEF Single
  <2> QED
    BY <1>1, <1>2, <1>6, <1>8, <2>1 DEF OrderLife, Unoccupied, Over, OrderSteps, ForOrder, ToOven
<1>12. OnShelf'
  <2>1. "DSO_Occupied" \notin bits /\ Held("DSO") = {} /\ "StartEndOrder" \notin bits
    BY <1>6 DEF OnShelf, OrderLife
  <2> QED
    BY <1>1, <1>7, <2>1 DEF OnShelf, Single, Held, Remains
<1>13. RackRight'
  <2>1. RackTold'
    BY <1>1, <1>6 DEF RackRight, RackTold, SlotTrue, InFlux, Held
  <2>2. "HBW_Outsource" \in bits' => hbw \notin Searching \cup Bringing
    BY <1>1, <1>2, <1>6
  <2>3. SlotChosen' /\ ColourRight'
    BY <1>1, <1>6, <1>7, <2>2 DEF RackRight, SlotChosen, ColourRight, Searching, Remains
  <2>4. Stocked'
    BY <1>1, <1>6 DEF RackRight, Stocked, OfType
  <2> QED BY <2>1, <2>3, <2>4 DEF RackRight
<1>14. Records'
  BY <1>1, <1>2, <1>6 DEF Records, GripperRecord, BeltRecord, LaterRecords, Rec
<1> QED BY <1>9, <1>10, <1>11, <1>12, <1>13, <1>14 DEF Orders

LEMMA OrderCleared ==
  ASSUME Turn("Order", "Ack"), OrderProgram, ord = 20, "HBW_PickedUp" \in bits
  PROVE  Dialogues' /\ Places' /\ Orders' /\ RackRight' /\ Records'
<1>1. /\ NormalInv /\ UNCHANGED <<vgr, nfc, hbw, mpo, wp, rack, act, bay, at, cont, state, button>> /\ prg' = "Ack"
      /\ prg = "Order" /\ ord' = 0 /\ typ' = Blank /\ bits' = bits \ {"HBW_Outsource"}
  BY DEF Turn, OrderProgram, OrderInit, OrderTake, OrderClear, PickedUpOrDropped, Switch
<1>2. vgr = 485 /\ hbw = 190
  <2>1. vgr = 485
    BY <1>1 DEF NormalInv, Dialogues, Asking, Reports, OrderRuns, ForOrder
  <2>2. ~Parked /\ ~BeforeHBW
    BY <1>1 DEF NormalInv, Dialogues, Asking, Untroubled, Parked, SetupBit, ModeBit, BeforeHBW
  <2> QED  BY <1>1, <2>1, <2>2 DEF NormalInv, HandInv, PickUpSeen
<1>3. \A b : b # "HBW_Outsource" => Remains(b)
  BY <1>1 DEF Remains
<1>4. Asking /\ Job /\ OvenTalk /\ ReaderTalk /\ Places /\ OrderLife /\ OnShelf /\ RackRight /\ Records
  BY <1>1 DEF NormalInv, Dialogues, Orders
<1>5. Dialogues'
  <2>1. Asking'
    BY <1>1, <1>2, <1>4 DEF Asking, Untroubled, StoreAsked, OrderAsked, OrderRuns, Reports, Readiness, ForOrder
  <2>2. Job'
    BY <1>1, <1>2, <1>4 DEF Job, Searching, Bringing
  <2>3. OvenTalk' /\ ReaderTalk'
    BY <1>1, <1>4 DEF OvenTalk, ReaderTalk
  <2> QED BY <2>1, <2>2, <2>3 DEF Dialogues
<1>6. Places'
  BY <1>1, <1>2, <1>4 DEF Places, Gripped, Delivered, OnBelt, InOven, BayChosen, NoneLost, Held, Single, Bringing
<1>7. OrderLife' /\ OnShelf'
  <2>1. Finishing' = Finishing /\ Held("DSO")' = Held("DSO")
    BY <1>1 DEF Finishing, Held
  <2>2. (Single(Finishing)' <=> Single(Finishing)) /\ (Single(Held("DSO"))' <=> Single(Held("DSO")))
    BY <2>1 DEF Single
  <2>3. OrderLife'
    BY <1>1, <1>2, <1>4, <2>1, <2>2 DEF OrderLife, Unoccupied, Over, ForOrder, ToOven
  <2>4. OnShelf'
    BY <1>1, <1>4, <2>1, <2>2 DEF OnShelf, Over
  <2> QED BY <2>3, <2>4
<1>8. RackRight'
  <2>1. RackTold'
    BY <1>1, <1>4 DEF RackRight, RackTold, SlotTrue, InFlux, Held
  <2>2. SlotChosen' /\ ColourRight' /\ Stocked'
    BY <1>1, <1>2, <1>4 DEF RackRight, SlotChosen, ColourRight, Stocked, OfType, Bringing
  <2> QED BY <2>1, <2>2 DEF RackRight
<1>9. Records'
  BY <1>1, <1>2, <1>4 DEF Records, GripperRecord, BeltRecord, LaterRecords, Rec, Bringing
<1> QED BY <1>5, <1>6, <1>7, <1>8, <1>9 DEF Orders

\* A call that changes neither bits nor what robot and warehouse see.
LEMMA NormalStands ==
  ASSUME NormalInv,
         UNCHANGED <<bits, vgr, nfc, hbw, mpo, wp, rack, act, bay, at, cont, state, button, typ>>,
         ord' = ord \/ (ord # 20 /\ ord' # 20),
         prg # "NFC", vgr = 485 /\ ord' = 20 => prg' \in {"NFC", "HBW", "MPO", "SLD", "DSO", "Order"},
         prg' \in {"Order", "Ack", "IO"} => prg \in {"Order", "Ack", "IO"}
  PROVE  Dialogues' /\ Places' /\ Orders' /\ RackRight' /\ Records'
<1>1. /\ Asking /\ Job /\ OvenTalk /\ ReaderTalk /\ Places /\ OrderLife /\ OnShelf /\ RackRight /\ Records
      /\ (ord' = 20 <=> ord = 20)
  BY DEF NormalInv, Dialogues, Orders
<1>2. Asking' /\ Job' /\ OvenTalk' /\ ReaderTalk'
  BY <1>1 DEF Asking, Untroubled, StoreAsked, OrderAsked, OrderRuns, Reports, Readiness, Job, OvenTalk, ReaderTalk
<1>3. Places'
  BY <1>1 DEF Places, Gripped, Delivered, OnBelt, InOven, BayChosen, NoneLost, Held, Single
<1>4. OrderLife' /\ OnShelf'
  <2>1. Finishing' = Finishing /\ Held("DSO")' = Held("DSO")
    BY DEF Finishing, Held
  <2>2. (Single(Finishing)' <=> Single(Finishing)) /\ (Single(Held("DSO"))' <=> Single(Held("DSO")))
    BY <2>1 DEF Single
  <2> QED  BY <1>1, <2>1, <2>2 DEF OrderLife, Unoccupied, Over, OnShelf
<1>5. RackRight'
  <2>1. RackTold'
    BY <1>1 DEF RackRight, RackTold, SlotTrue, InFlux, Held
  <2>2. SlotChosen' /\ ColourRight' /\ Stocked'
    BY <1>1 DEF RackRight, SlotChosen, ColourRight, Stocked, OfType, Fetched, Held
  <2> QED BY <2>1, <2>2 DEF RackRight
<1>6. Records'
  BY <1>1 DEF Records, GripperRecord, BeltRecord, LaterRecords, Rec, Fetched, Held
<1> QED BY <1>2, <1>3, <1>4, <1>5, <1>6 DEF Dialogues, Orders

LEMMA OrderKeepsNormal ==
  ASSUME Turn("Order", "Ack"), OrderProgram
  PROVE  Dialogues' /\ Places' /\ Orders' /\ RackRight' /\ Records'
<1>1. CASE ord = 10 /\ button # Blank
  BY <1>1, OrderTaken
<1>2. CASE ord = 20 /\ "HBW_PickedUp" \in bits
  BY <1>2, OrderCleared
<1>3. CASE ~(ord = 10 /\ button # Blank) /\ ~(ord = 20 /\ "HBW_PickedUp" \in bits)
  <2>1. /\ NormalInv /\ prg = "Order" /\ prg' = "Ack" /\ HandInv
        /\ ord = 20 => "HBW_Outsource" \in bits
    BY DEF Turn, NormalInv, Dialogues, Asking, OrderAsked
  <2>2. /\ UNCHANGED <<bits, vgr, nfc, hbw, mpo, wp, rack, act, bay, at, cont, state, button, typ>>
        /\ ord' = ord \/ (ord # 20 /\ ord' # 20)
    BY <1>3, <2>1 DEF OrderProgram, OrderInit, OrderTake, OrderClear, PickedUpOrDropped
  <2>3. ~(vgr = 485 /\ ord' = 20)
    BY <1>3, <2>1, <2>2 DEF HandInv, PickUpStands
  <2> QED  BY <2>1, <2>2, <2>3, NormalStands
<1> QED BY <1>1, <1>2, <1>3

LEMMA AckKeepsNormal ==
  ASSUME Turn("Ack", "IO"), AckProgram
  PROVE  Dialogues' /\ Places' /\ Orders' /\ RackRight' /\ Records'
<1>1. /\ NormalInv /\ prg = "Ack" /\ prg' = "IO" /\ "AcknowledgeButton" \notin bits
      /\ ~(vgr = 485 /\ ord = 20)
  BY DEF Turn, NormalInv, Dialogues, Asking, Untroubled, SetupBit, OrderRuns, ForOrder
<1>2. UNCHANGED <<bits, vgr, nfc, hbw, mpo, ord, wp, rack, act, bay, at, cont, state, button, typ>>
  BY <1>1 DEF AckProgram
<1> QED  BY <1>1, <1>2, NormalStands

\* The people: a workpiece delivered or taken away.
LEMMA PeopleCarry ==
  ASSUME Turn("IO", "VGR"), NEW p \in Piece, Deliver(p) \/ Take(p),
         UNCHANGED <<vgr, nfc, hbw, mpo, sld, ord, wp, rack, act, bay, typ, state, cont>>
  PROVE  Dialogues' /\ Places' /\ Orders' /\ RackRight' /\ Records'
<1>1. /\ NormalInv /\ UNCHANGED <<bits, button>> /\ prg = "IO" /\ prg' = "VGR" /\ at \in [Piece -> Place]
      /\ ~(vgr = 485 /\ ord = 20)
  BY DEF Turn, Deliver, Take, NormalInv, TypeOK, Dialogues, Asking, OrderRuns, ForOrder
<1>2. /\ \A q \in Piece \ {p} : at'[q] = at[q]
      /\ \/ at[p] = "outside" /\ at'[p] = "DSI" /\ Held("DSI") = {}
         \/ at[p] = "DSO" /\ at'[p] \in {"outside", "gone"}
  BY <1>1 DEF Deliver, Take
<1>3. Slot \cap (Station \cup Colour) = {} /\ \A b \in Bit : Remains(b)
  BY <1>1, PlantAssumption DEF Remains
<1>4. \A x \in Slot \cup Colour \cup {"belt", "gripper", "oven", "SLD", "lost", "reject"} :
        \A q \in Piece : at'[q] = x <=> at[q] = x
  BY <1>2, <1>3 DEF Station, Colour
<1>5. \A x \in Slot \cup Colour \cup {"belt", "gripper", "oven", "SLD", "lost", "reject"} : Held(x)' = Held(x)
  BY <1>4 DEF Held
<1>6. Shared \cup {"HBW_Outsource", "DSO_Occupied", "StartEndOrder"} \subseteq Bit
  BY DEF Shared, Bit, VgrBit, MpoBit, SldBit, SetupBit, EdgeBit, ModeBit, HbwBit, ErrorBit
<1>7. Dialogues'
  <2>1. \A b \in Bit \ {"DSO_Occupied", "StartEndOrder"} : Remains(b)
    BY <1>3
  <2> QED  BY <1>1, <2>1, TalksStand
<1>8. Places'
  <2>1. Held("DSI") # {} => Held("DSI")' # {}
    BY <1>2 DEF Held
  <2>2. Single(Held("DSI"))'
    BY <1>1, <1>2 DEF NormalInv, Places, Delivered, Single, Held
  <2> QED  BY <1>1, <1>3, <1>5, <1>6, <2>1, <2>2, PlacesMoved
<1>9. RackRight'
  BY <1>1, <1>3, <1>4, <1>6, RackStands
<1>10. Records'
  <2>1. \A q \in Piece : /\ \A x \in {"gripper", "belt", "oven"} : at'[q] = x <=> at[q] = x
                         /\ at'[q] \in {"SLD"} \cup Colour => at[q] \in {"SLD"} \cup Colour
                         /\ at'[q] = "DSO" => at[q] = "DSO"
    <3>1. \A q \in Piece : at'[q] \in {"SLD"} \cup Colour => at[q] = at'[q]
      BY <1>4
    <3> QED  BY <1>2, <1>4, <3>1
  <2> QED  BY <1>1, <1>3, <1>6, <2>1, RecordsStand
<1>11. Orders'
  <2>1. OrderLife /\ OnShelf
    BY <1>1 DEF NormalInv, Orders
  <2>2. Finishing' = Finishing
    BY <1>1, <1>4 DEF Finishing
  <2>3. Held("DSO")' \subseteq Held("DSO")
    BY <1>2 DEF Held
  <2>4. (Single(Finishing)' <=> Single(Finishing)) /\ (Single(Held("DSO")) => Single(Held("DSO"))')
    BY <2>2, <2>3 DEF Single
  <2>5. OrderLife'
    BY <1>1, <2>1, <2>2, <2>4 DEF OrderLife, Unoccupied, Over
  <2>6. OnShelf'
    BY <1>1, <2>1, <2>3, <2>4 DEF OnShelf, Over
  <2> QED BY <2>5, <2>6 DEF Orders
<1> QED BY <1>7, <1>8, <1>9, <1>10, <1>11

\* The order button, pressed by the rules.
LEMMA PeopleOrder ==
  ASSUME Turn("IO", "VGR"), Discipline = Rules, NEW c \in Colour, PressOrder(c),
         UNCHANGED <<vgr, nfc, hbw, mpo, sld, ord, wp, rack, act, bay, typ, state, cont>>
  PROVE  Dialogues' /\ Places' /\ Orders' /\ RackRight' /\ Records'
<1>1. /\ NormalInv /\ UNCHANGED <<bits, at>> /\ prg = "IO" /\ prg' = "VGR" /\ button' = c
      /\ state = "WAITING_FOR_ORDER" /\ OfType(c) # {} /\ Held("DSO") = {} /\ ~(vgr = 485 /\ ord = 20)
  BY DEF Turn, PressOrder, MayOrder, Rules, NormalInv, Dialogues, Asking, OrderRuns, ForOrder
<1>2. \A b \in Bit : Remains(b)
  BY <1>1 DEF Remains
<1>3. Shared \cup {"HBW_Outsource"} \subseteq Bit
  BY DEF Shared, Bit, VgrBit, MpoBit, SldBit, SetupBit, EdgeBit, ModeBit, HbwBit, ErrorBit
<1>4. Dialogues' /\ Places' /\ Records'
  <2>1. InOven'
    BY <1>1 DEF NormalInv, Places, InOven, Held
  <2>2. \A b \in Bit \ {"DSO_Occupied", "StartEndOrder"} : Remains(b)
    BY <1>2
  <2>3. Dialogues'
    BY <1>1, <2>2, TalksStand
  <2> QED  BY <1>1, <1>2, <1>3, <2>1, <2>3, PlacesStand, RecordsStand
<1>5. Orders'
  <2>1. OrderLife /\ OnShelf /\ "DSO_Occupied" \notin bits /\ Unoccupied
    BY <1>1 DEF NormalInv, Orders, OnShelf, OrderLife, Over
  <2>2. Finishing' = Finishing /\ Held("DSO")' = Held("DSO")
    BY <1>1 DEF Finishing, Held
  <2>3. (Single(Finishing)' <=> Single(Finishing)) /\ (Single(Held("DSO"))' <=> Single(Held("DSO")))
    BY <2>2 DEF Single
  <2>4. OrderLife'
    BY <1>1, <2>1, <2>2, <2>3 DEF OrderLife, Unoccupied, Over
  <2>5. OnShelf'
    BY <1>1, <2>1, <2>2, <2>3 DEF OnShelf, Over
  <2> QED BY <2>4, <2>5 DEF Orders
<1>6. RackRight'
  <2>1. RackRight
    BY <1>1 DEF NormalInv
  <2>2. RackTold'
    BY <1>1, <2>1 DEF RackRight, RackTold, SlotTrue, InFlux, Held
  <2>3. SlotChosen' /\ ColourRight' /\ Stocked'
    BY <1>1, <2>1 DEF RackRight, SlotChosen, ColourRight, Stocked, OfType, Fetched, Held
  <2> QED BY <2>2, <2>3 DEF RackRight
<1> QED BY <1>4, <1>5, <1>6

LEMMA PeopleKeepNormal ==
  ASSUME Turn("IO", "VGR"), Calm, People
  PROVE  Dialogues' /\ Places' /\ Orders' /\ RackRight' /\ Records'
<1>1. UNCHANGED <<vgr, nfc, hbw, mpo, sld, ord, wp, rack, act, bay, typ, state, cont>> /\ Discipline = Rules
  BY DEF People, Calm
<1>2. CASE \E p \in Piece : Deliver(p) \/ Take(p)
  BY <1>1, <1>2, PeopleCarry
<1>3. CASE \E c \in Colour : PressOrder(c)
  BY <1>1, <1>3, PeopleOrder
<1>4. CASE UNCHANGED <<bits, button, at>>
  <2>1. NormalInv /\ prg = "IO" /\ prg' = "VGR" /\ ~(vgr = 485 /\ ord = 20)
    BY DEF Turn, NormalInv, Dialogues, Asking, OrderRuns, ForOrder
  <2> QED  BY <1>1, <1>4, <2>1, NormalStands
<1> QED BY <1>2, <1>3, <1>4 DEF People, Calm
-----------------------------------------------------------------------------
(* Normal operation as a whole.                                            *)

\* A step that changes nothing.
LEMMA NormalStutters ==
  ASSUME NormalInv, UNCHANGED allVars
  PROVE  Dialogues' /\ Places' /\ Orders' /\ RackRight' /\ Records'
<1>1. UNCHANGED <<bits, vgr, nfc, hbw, mpo, sld, ord, wp, rack, act, bay, typ, state, button, at, cont, prg>>
  BY DEF allVars, vars
<1>2. Dialogues /\ Places /\ Orders /\ RackRight /\ Records
  BY DEF NormalInv
<1>3. Dialogues' /\ Places'
  BY <1>1, <1>2 DEF Dialogues, Asking, Untroubled, StoreAsked, OrderAsked, OrderRuns, Reports, Readiness, Job, OvenTalk,
     ReaderTalk, Places, Gripped, Delivered, OnBelt, InOven, BayChosen, NoneLost, Held, Single
<1>4. Orders'
  BY <1>1, <1>2 DEF Orders, OrderLife, Unoccupied, Over, OnShelf, Finishing, Held, Single
<1>5. RackRight'
  BY <1>1, <1>2 DEF RackRight, RackTold, SlotTrue, InFlux, SlotChosen, Stocked, ColourRight, OfType, Fetched, Held
<1>6. Records'
  BY <1>1, <1>2 DEF Records, GripperRecord, BeltRecord, LaterRecords, Rec, Fetched, Held
<1> QED BY <1>3, <1>4, <1>5, <1>6

\* The calls of a scan, as the lemmas about them are stated.
LEMMA NormalSteps ==
  ASSUME Calm, NormalInv, [Next]_allVars
  PROVE  \/ UNCHANGED allVars
         \/ VgrTurn
         \/ HbwTurn
         \/ Turn("NFC", "HBW") /\ NFCProgram
         \/ Turn("MPO", "SLD") /\ MPOProgram
         \/ Turn("SLD", "DSO") /\ SLDProgram
         \/ Turn("DSO", "Order") /\ DSOProgram
         \/ Turn("Order", "Ack") /\ OrderProgram
         \/ Turn("Ack", "IO") /\ AckProgram
         \/ Turn("IO", "VGR") /\ People
<1>1. CASE Call("VGR", VGRProgram)
  BY <1>1, VgrCalled DEF Call, Successor, VgrTurn, NormalInv
<1>2. CASE Call("HBW", HBWProgram)
  BY <1>2, HbwCalled DEF Call, Successor, HbwTurn, NormalInv, Calm
<1>3. CASE ~Call("VGR", VGRProgram) /\ ~Call("HBW", HBWProgram)
  BY <1>3 DEF Next, Call, Successor, Turn, Restart, Calm
<1> QED BY <1>1, <1>2, <1>3

\* Every call keeps what goes with what.
LEMMA NormalKept == ASSUME Calm, NormalInv, [Next]_allVars PROVE NormalInv'
<1>1. TypeOK' /\ SlotKnown' /\ StorageAlone' /\ HandInv'
  BY TypesKept, AloneKept, HandKept DEF NormalInv, Calm
<1>2. CASE VgrTurn
  <2>1. Dialogues' /\ Places'
    BY <1>2, VgrKeepsAsking, VgrKeepsJob, VgrKeepsOvenTalk, VgrKeepsReaderTalk, VgrKeepsPlaces DEF Dialogues
  <2>2. Orders' /\ RackRight' /\ Records'
    BY <1>2, VgrKeepsOrderLife, VgrKeepsOnShelf, VgrKeepsRackRight, VgrKeepsRecords DEF Orders
  <2> QED  BY <1>1, <2>1, <2>2 DEF NormalInv
<1>3. CASE HbwTurn
  BY <1>1, <1>3, HbwKeepsTalks, HbwKeepsPlaces, HbwKeepsOrders, HbwKeepsRackRight, HbwKeepsRecords DEF NormalInv
<1>4. CASE ~VgrTurn /\ ~HbwTurn
  <2>1. Dialogues' /\ Places' /\ Orders' /\ RackRight' /\ Records'
    BY <1>4, NormalSteps, NormalStutters, NfcKeepsNormal, MpoKeepsNormal, SldKeepsNormal, DsoKeepsNormal,
       OrderKeepsNormal, AckKeepsNormal, PeopleKeepNormal DEF Calm
  <2> QED  BY <1>1, <2>1 DEF NormalInv
<1> QED BY <1>2, <1>3, <1>4

\* At the start the workpieces in stock lie in their slots, and the rack says
\* so.
LEMMA StockTold == Init => RackTold
<1> SUFFICES ASSUME Init, NEW s \in Slot PROVE SlotTrue(s)
  BY DEF RackTold
<1>1. ~InFlux(s)
  BY DEF Init, InFlux, Bringing, Returning
<1>2. /\ rack[s] = IF Stock[s] = NoPiece THEN FreeEntry
                    ELSE [id |-> Stock[s], type |-> ColourOf[Stock[s]], ts |-> 1]
      /\ Stock[s] \in Piece \cup {NoPiece} /\ Piece \cap {Blank, "0", NoPiece} = {}
  BY PlantAssumption DEF Init, NoPiece
<1>3. /\ rack[s].id # Blank
      /\ rack[s].type = IF rack[s].id \in Piece THEN ColourOf[rack[s].id] ELSE Blank
  BY <1>2, BlankIsNone DEF FreeEntry
<1>4. ASSUME NEW p \in Piece PROVE at[p] = s <=> rack[s].id = p
  <2>1. rack[s].id = p <=> Stock[s] = p
    BY <1>2 DEF FreeEntry
  <2>2. ASSUME NEW t \in Slot, Stock[t] = p PROVE at[p] = t
    <3>1. \A u \in Slot : Stock[u] = p => u = t
      BY <1>2, <2>2, PlantAssumption
    <3>2. at[p] = CHOOSE u \in Slot : Stock[u] = p
      BY <2>2 DEF Init
    <3> QED  BY <2>2, <3>1, <3>2
  <2>3. (\A t \in Slot : Stock[t] # p) => at[p] = "outside" /\ "outside" \notin Slot
    BY PlantAssumption DEF Init, Station
  <2> QED  BY <2>1, <2>2, <2>3
<1> QED  BY <1>1, <1>3, <1>4 DEF SlotTrue

LEMMA NormalAtStart == Init => NormalInv
<1> SUFFICES ASSUME Init PROVE NormalInv
  OBVIOUS
<1>1. /\ bits = {} /\ prg = "IO" /\ vgr = 0 /\ nfc = 0 /\ hbw = 0 /\ mpo = 0 /\ sld = 0 /\ ord = 0
      /\ state = "WAITING_FOR_ORDER" /\ button = Blank
  BY DEF Init
<1>2. \A p \in Piece : at[p] \in {"outside"} \cup Slot
  BY DEF Init
<1>3. Slot \cap (Station \cup Colour) = {}
  BY PlantAssumption
<1>4. \A x \in (Station \cup Colour) \ {"outside"} : Held(x) = {}
  BY <1>2, <1>3, BlankIsNone DEF Held, Colour
<1>5. Dialogues
  BY <1>1 DEF Dialogues, Asking, Untroubled, StoreAsked, OrderAsked, OrderRuns, Reports, Readiness, Job, OvenTalk,
     ReaderTalk, ForOrder, ForStorage, Opening, Searching, Bringing, Returning, ToOven
<1>6. Places
  BY <1>1, <1>4 DEF Places, Gripped, Delivered, OnBelt, InOven, BayChosen, NoneLost, Single, Station,
     HoldFinished, HoldOrder, HoldStore, Bringing, Returning
<1>7. Orders
  <2>1. Finishing = {} /\ Held("DSO") = {}
    BY <1>1, <1>2, <1>3, <1>4 DEF Finishing, Station, Colour, HoldFinished
  <2> QED
    BY <1>1, <2>1 DEF Orders, OrderLife, Unoccupied, Over, OnShelf, Single, OrderSteps, ForOrder, ToOven
<1>8. RackRight
  BY <1>1, StockTold DEF RackRight, SlotChosen, Stocked, ColourRight, Bringing
<1>9. Records
  BY <1>1, <1>2, <1>3 DEF Records, GripperRecord, BeltRecord, LaterRecords, Station, Colour, Bringing, Returning
<1> QED
  BY <1>5, <1>6, <1>7, <1>8, <1>9, InitTypes, AloneAtStart, HandAtStart DEF NormalInv

-----------------------------------------------------------------------------
(* What the invariant is for.                                              *)

\* In normal operation what the robot meets when it hands a part over is what
\* its step number says: the container under it at the warehouse belt (steps
\* 440 to 480 and 880 to 910 of PRG_VGR_Ablauf), a part in it or room for one,
\* and the oven with its feeder out (step 530).
THEOREM MeetsPartner == ASSUME Calm PROVE Spec => []HandoversMeet
<1>1. ASSUME NormalInv PROVE HandoversMeet
  <2>1. HandInv /\ Job /\ OvenTalk /\ Places /\ Asking
    BY <1>1 DEF NormalInv, Dialogues
  <2>2. GripperMeetsContainer
    BY <2>1 DEF HandInv, BeltWaits, GripperMeetsContainer, Reaching
  <2>3. OvenOpen
    BY <2>1 DEF OvenTalk, OvenOpen
  <2>4. vgr \in {450, 460, 470} => hbw = 180 /\ "HBW_Outsource" \in bits
    <3>1. vgr \in {450, 460, 470} => ord = 20 /\ "HBW_Outsource" \in bits /\ bits \cap {"HBW_Discards", "HBW_PickedUp"} = {}
      BY <2>1 DEF Asking, OrderAsked, OrderRuns, Reports, ForOrder
    <3>2. ~Parked
      BY <2>1 DEF Asking, Untroubled, Parked, SetupBit, ModeBit
    <3> QED  BY <2>1, <3>1, <3>2 DEF HandInv, BeltWaits, Reaching
  <2>5. vgr \in {890, 900} => hbw = 180 /\ "HBW_Storage" \in bits
    <3>1. vgr \in {890, 900} => "HBW_Storage" \in bits /\ bits \cap {"HBW_Discards", "HBW_PickedUp"} = {}
      BY <2>1 DEF HandInv, StorageStands, ForStorage, Asking, Reports
    <3>2. ~Parked
      BY <2>1 DEF Asking, Untroubled, Parked, SetupBit, ModeBit
    <3> QED  BY <2>1, <3>1, <3>2 DEF HandInv, BeltWaits, Reaching
  <2>6. ContainerFits
    BY <2>1, <2>4, <2>5 DEF ContainerFits, Places, OnBelt, Bringing
  <2> QED  BY <2>2, <2>3, <2>6 DEF HandoversMeet
<1> QED
  BY <1>1, NormalAtStart, NormalKept, PTL DEF Spec

\* In normal operation the records of PRG_HBW_Ablauf tell what is in the rack,
\* the workpiece registers name the part their station holds, and a part lifted
\* off the warehouse belt for an order has the ordered colour.
THEOREM RecordsTold == ASSUME Calm PROVE Spec => []RecordsTruthful
<1>1. ASSUME NormalInv PROVE RecordsTruthful
  <2>1. RackRight /\ Records /\ Dialogues /\ Places /\ HandInv
    BY <1>1 DEF NormalInv
  <2>2. RackTellsTruth
    <3> SUFFICES ASSUME NEW s \in Slot, ~InWork(s)
                 PROVE  /\ \A p \in Piece : at[p] = s <=> rack[s].id = p
                        /\ rack[s].id # Blank
                        /\ rack[s].id \in Piece => rack[s].type = ColourOf[rack[s].id]
      BY DEF RackTellsTruth
    <3>1. ~InFlux(s)
      BY DEF InFlux, InWork, Bringing, Returning
    <3> QED  BY <2>1, <3>1 DEF RackRight, RackTold, SlotTrue
  <2>3. RecordTravels
    BY <2>1 DEF RecordTravels, Records, GripperRecord, LaterRecords, Rec, HoldFinished
  <2>4. OrderedColour
    <3>1. vgr = 480 => hbw \in Bringing /\ "HBW_Outsource" \in bits
      <4>1. vgr = 480 => ord = 20 /\ "HBW_Outsource" \in bits /\ bits \cap {"HBW_Discards", "HBW_PickedUp"} = {}
        BY <2>1 DEF Dialogues, Asking, OrderAsked, OrderRuns, Reports, ForOrder
      <4>2. ~Parked
        BY <2>1 DEF Dialogues, Asking, Untroubled, Parked, SetupBit, ModeBit
      <4> QED  BY <2>1, <4>1, <4>2 DEF HandInv, BeltWaits, Reaching, Bringing
    <3> QED  BY <2>1, <3>1 DEF RackRight, ColourRight, Fetched, OrderedColour
  <2> QED  BY <2>2, <2>3, <2>4 DEF RecordsTruthful
<1> QED
  BY <1>1, NormalAtStart, NormalKept, PTL DEF Spec

\* In normal operation the warehouse takes out, of the parts with the ordered
\* colour, the one stored first (step 60), although it decides long before the
\* container leaves the rack.
THEOREM FirstInFirstOut == ASSUME Calm PROVE Spec => OldestFirst
<1> DEFINE Leaves == hbw = 100 /\ hbw' = 110 /\ "HBW_Outsource" \in bits
           Oldest60 == /\ rack[act].type = typ
                       /\ \A s \in OfType(typ) : rack[act].ts <= rack[s].ts
<1>1. ASSUME NormalInv, Leaves PROVE Oldest60
  BY <1>1 DEF NormalInv, RackRight, SlotChosen, OfType
<1>2. NormalInv /\ [Next]_allVars => [Leaves => Oldest60]_allVars
  BY <1>1
<1> QED
  BY <1>2, NormalAtStart, NormalKept, PTL DEF Spec, OldestFirst

\* In normal operation an order that PRG_Order has passed on stays in force
\* until its part hangs at the gripper (step 485), and an order ends only
\* after its part has been shipped.
THEOREM OrdersInForce == ASSUME Calm PROVE Spec => OrdersKept
<1> DEFINE Recalled == "HBW_Outsource" \in bits /\ "HBW_Outsource" \notin bits'
           Ended == state # "WAITING_FOR_ORDER" /\ state' = "WAITING_FOR_ORDER"
<1>1. ASSUME Calm, NormalInv, [Next]_allVars
      PROVE  (Recalled => vgr = 485) /\ (Ended => state = "SHIPPED")
  <2>0. /\ Asking /\ OnShelf /\ OrderLife /\ HandInv
        /\ "HBW_Outsource" \in bits => ord = 20
        /\ ord = 20 => vgr \in {10, 70, 485} \cup ForOrder
    BY <1>1 DEF NormalInv, Dialogues, Orders, Asking, OrderAsked, OrderRuns
  <2>1. CASE VgrTurn
    BY <2>0, <2>1 DEF VgrTurn, VgrCall, VgrBits, VgrRequests, VgrShows, ForOrder
  <2>2. CASE HbwTurn
    BY <2>2 DEF HbwTurn, HbwCall, HbwBits, HbwBit
  <2>3. CASE NFCProgram \/ MPOProgram \/ SLDProgram \/ AckProgram \/ People \/ UNCHANGED allVars
    <3>1. CASE NFCProgram \/ SLDProgram \/ AckProgram \/ UNCHANGED allVars
      BY <3>1 DEF NFCProgram, NfcStart, NfcDeleted, NfcWritten, NfcTimeout, NfcCompleted, SLDProgram, SldInit,
         SldMove, SldInlet, SldMeasure, SldTimeout, SldEject, AckProgram, Switch, allVars, vars
    <3>2. CASE MPOProgram
      BY <1>1, <3>2 DEF Calm, MPOProgram, MpoInit, MpoMove, MpoAwaitRequest, MpoOpen, MpoAccept, MpoRetract,
         MpoPassOn, MpoNoPart, MpoLostPart, Switch
    <3>3. CASE People
      BY <1>1, <3>3 DEF People, Calm, Deliver, Take, PressOrder
    <3> QED  BY <2>3, <3>1, <3>2, <3>3
  <2>4. CASE DSOProgram
    <3>1. ~Recalled
      BY <2>4 DEF DSOProgram, Switch, Shelf, TimerStart
    <3>2. Ended => Taken \/ TimerOn
      BY <2>4 DEF DSOProgram
    <3> QED  BY <2>0, <3>1, <3>2 DEF OnShelf, Over, Taken, TimerOn
  <2>5. CASE OrderProgram
    <3>1. ~Ended
      BY <2>5 DEF OrderProgram, OrderInit, OrderTake, OrderClear
    <3>2. Recalled => "HBW_PickedUp" \in bits
      BY <2>5 DEF OrderProgram, OrderInit, OrderTake, OrderClear, PickedUpOrDropped, Switch
    <3> QED  BY <2>0, <3>1, <3>2 DEF Asking, Reports, ForOrder
  <2> QED  BY <1>1, <2>1, <2>2, <2>3, <2>4, <2>5, NormalSteps
<1>2. ASSUME Calm, NormalInv, [Next]_allVars
      PROVE  [Recalled => vgr = 485]_allVars /\ [Ended => state = "SHIPPED"]_allVars
  BY <1>1, <1>2
<1>3. Spec => [][Recalled => vgr = 485]_allVars /\ [][Ended => state = "SHIPPED"]_allVars
  BY <1>2, NormalAtStart, NormalKept, PTL DEF Spec
<1> QED
  BY <1>3 DEF OrdersKept, OrderKept, OrderEndsShipped

-----------------------------------------------------------------------------
(* The programs implement the flow of the workpieces, leg by leg.          *)

\* The goal of a workpiece at place x, the robot in step v, the bits B.
GoalAt(x, v, B) ==
  CASE x = "gripper" -> IF v >= 1200 THEN "reject" ELSE IF v >= 600 THEN "rack" ELSE "DSO"
    [] x = "belt" -> IF B \cap {"HBW_Storage", "lx_Storage"} = {} THEN "DSO" ELSE "rack"
    [] x = "reject" -> "reject"
    [] x \in {"outside", "DSI"} \cup Slot -> "rack"
    [] OTHER -> "DSO"

LEMMA GoalOf ==
  ASSUME NEW v \in Nat, NEW B
  PROVE  /\ v < 600 => GoalAt("gripper", v, B) = "DSO"
         /\ v \in 600..999 => GoalAt("gripper", v, B) = "rack"
         /\ {"HBW_Storage", "lx_Storage"} \cap B = {} => GoalAt("belt", v, B) = "DSO"
         /\ {"HBW_Storage", "lx_Storage"} \cap B # {} => GoalAt("belt", v, B) = "rack"
         /\ \A x \in {"outside", "DSI"} : GoalAt(x, v, B) = "rack"
         /\ \A x \in Slot : GoalAt(x, v, B) = "rack"
         /\ \A x \in {"oven", "SLD", "DSO", "gone"} : GoalAt(x, v, B) = "DSO"
         /\ \A x \in Colour : GoalAt(x, v, B) = "DSO"
         /\ GoalAt("reject", v, B) = "reject"
<1>1. Slot \cap (Station \cup Colour) = {}
  BY PlantAssumption
<1>2. \A x \in Slot : GoalAt(x, v, B) = "rack"
  BY <1>1 DEF GoalAt, Station
<1>3. \A x \in {"outside", "DSI"} : GoalAt(x, v, B) = "rack"
  BY DEF GoalAt
<1>4. /\ \A x \in {"oven", "SLD", "DSO", "gone"} : GoalAt(x, v, B) = "DSO"
      /\ \A x \in Colour : GoalAt(x, v, B) = "DSO"
  BY <1>1 DEF GoalAt, Station, Colour
<1>5. /\ v < 600 => GoalAt("gripper", v, B) = "DSO"
      /\ v \in 600..999 => GoalAt("gripper", v, B) = "rack"
  BY <1>1 DEF GoalAt, Station
<1>6. /\ {"HBW_Storage", "lx_Storage"} \cap B = {} => GoalAt("belt", v, B) = "DSO"
      /\ {"HBW_Storage", "lx_Storage"} \cap B # {} => GoalAt("belt", v, B) = "rack"
      /\ GoalAt("reject", v, B) = "reject"
  BY <1>1 DEF GoalAt, Station
<1> QED  BY <1>2, <1>3, <1>4, <1>5, <1>6

LEMMA ErrandIsGoal ==
  ASSUME NEW p \in Piece
  PROVE  Errand(p) = GoalAt(at[p], vgr, bits) /\ Errand(p)' = GoalAt(at'[p], vgr', bits')
BY DEF Errand, GoalAt

\* The variables of the flow.
Course == <<at, [p \in Piece |-> Errand(p)]>>

LEMMA CourseStands ==
  ASSUME NormalInv, NormalInv', \A p \in Piece : at'[p] = at[p] /\ Errand(p)' = Errand(p)
  PROVE  UNCHANGED Course
<1>1. at \in [Piece -> Place] /\ at' \in [Piece -> Place]
  BY DEF NormalInv, TypeOK
<1>2. at' = at
  BY <1>1
<1>3. [p \in Piece |-> Errand(p)]' = [p \in Piece |-> Errand(p)]
  OBVIOUS
<1> QED  BY <1>2, <1>3 DEF Course

\* One workpiece travels a leg towards its goal.
LEMMA CourseTravel ==
  ASSUME NormalInv, NormalInv', NEW p \in Piece, NEW to \in Flow!Stop, at'[p] = to,
         to = "gone" \/ Held(to) = {},
         \A q \in Piece \ {p} : at'[q] = at[q], \A q \in Piece : Errand(q)' = Errand(q),
         <<at[p], to>> \in Flow!Leg[Errand(p)]
  PROVE  Flow!FlowNext
<1>1. at \in [Piece -> Place] /\ at' \in [Piece -> Place]
  BY DEF NormalInv, TypeOK
<1>2. at' = [at EXCEPT ![p] = to]
  BY <1>1
<1>3. [q \in Piece |-> Errand(q)]' = [q \in Piece |-> Errand(q)]
  OBVIOUS
<1>4. Flow!Free(to)
  BY DEF Flow!Free, Held
<1>5. Flow!Travel(p, to)
  BY <1>2, <1>3, <1>4 DEF Flow!Travel
<1> QED  BY <1>5 DEF Flow!FlowNext

\* One workpiece is ordered out of the rack.
LEMMA CourseOrder ==
  ASSUME NormalInv, NormalInv', NEW p \in Piece, at[p] \in Slot, at'[p] = "belt", Held("belt") = {},
         \A q \in Piece \ {p} : at'[q] = at[q] /\ Errand(q)' = Errand(q), Errand(p)' = "DSO"
  PROVE  Flow!FlowNext
<1>1. at \in [Piece -> Place] /\ at' \in [Piece -> Place]
  BY DEF NormalInv, TypeOK
<1>2. at' = [at EXCEPT ![p] = "belt"]
  BY <1>1
<1>3. [q \in Piece |-> Errand(q)]' = [[q \in Piece |-> Errand(q)] EXCEPT ![p] = "DSO"]
  OBVIOUS
<1>4. Flow!Free("belt")
  BY DEF Flow!Free, Held
<1>5. Flow!Order(p)
  BY <1>2, <1>3, <1>4 DEF Flow!Order
<1> QED  BY <1>5 DEF Flow!FlowNext

\* A shipped workpiece comes back.
LEMMA CourseBack ==
  ASSUME NormalInv, NormalInv', NEW p \in Piece, at[p] = "DSO", at'[p] = "outside",
         \A q \in Piece \ {p} : at'[q] = at[q] /\ Errand(q)' = Errand(q), Errand(p)' = "rack"
  PROVE  Flow!FlowNext
<1>1. at \in [Piece -> Place] /\ at' \in [Piece -> Place]
  BY DEF NormalInv, TypeOK
<1>2. at' = [at EXCEPT ![p] = "outside"]
  BY <1>1
<1>3. [q \in Piece |-> Errand(q)]' = [[q \in Piece |-> Errand(q)] EXCEPT ![p] = "rack"]
  OBVIOUS
<1>4. Flow!ComeBack(p)
  BY <1>2, <1>3 DEF Flow!ComeBack
<1> QED  BY <1>4 DEF Flow!FlowNext

\* A workpiece that the robot's call does not move keeps its goal: a change of
\* step keeps to the procedure, and the storage request is withdrawn only when
\* the warehouse has noted that it is to store.
LEMMA VgrKeepsGoal ==
  ASSUME VgrTurn, NormalInv', NEW p \in Piece, at'[p] = at[p]
  PROVE  Errand(p)' = Errand(p)
<1>1. /\ vgr \in Nat /\ vgr' \in Nat /\ at[p] \in Place /\ NoneLost
      /\ VgrRoute /\ VgrRequests /\ Remains("lx_Storage") /\ Asking /\ Job /\ Gripped /\ Gripped' /\ OnBelt /\ HandInv
      /\ StorageAlone /\ VgrGuards
  BY DEF VgrTurn, NormalInv, TypeOK, VgrStep, VgrCall, VgrBits, OwnBits, Remains, Dialogues, Places
<1>2. CASE at[p] = "gripper"
  <2>1. /\ vgr \in HoldFinished \cup HoldOrder \cup HoldStore
        /\ vgr' \in HoldFinished \cup HoldOrder \cup HoldStore
    BY <1>1, <1>2 DEF Gripped, Held
  <2>2. vgr \in HoldStore <=> vgr' \in HoldStore
    BY <1>1, <2>1 DEF VgrRoute, VgrRoutes, HoldFinished, HoldOrder, HoldStore
  <2>3. \A v \in HoldFinished \cup HoldOrder \cup HoldStore :
          IF v \in HoldStore THEN v \in 600..999 ELSE v < 600
    BY DEF HoldFinished, HoldOrder, HoldStore
  <2>4. (vgr < 600 /\ vgr' < 600) \/ (vgr \in 600..999 /\ vgr' \in 600..999)
    BY <2>1, <2>2, <2>3
  <2>5. GoalAt("gripper", vgr, bits) = GoalAt("gripper", vgr', bits')
    BY <1>1, <2>4, GoalOf
  <2> QED  BY <1>2, <2>5, ErrandIsGoal
<1>3. CASE at[p] = "belt"
  <2>1. p \in Held("belt") /\ hbw \in Bringing \cup Returning
    BY <1>1, <1>3 DEF OnBelt, Held
  <2>2. {"HBW_Storage", "lx_Storage"} \cap bits # {} <=> {"HBW_Storage", "lx_Storage"} \cap bits' # {}
    <3>1. CASE hbw \in Returning
      BY <1>1, <2>1, <3>1 DEF OnBelt, Remains
    <3>2. CASE hbw \in Bringing /\ "HBW_Storage" \in bits
      <4>1. vgr \in ForStorage /\ ~Edge(910, 920)
        BY <1>1, <3>2, WithdrawsNoticed DEF Asking, StoreAsked, Bringing
      <4> QED  BY <1>1, <3>2, <4>1 DEF VgrRequests, ForStorage
    <3>3. CASE hbw \in Bringing /\ "HBW_Storage" \notin bits
      <4>1. "HBW_Outsource" \in bits
        BY <1>1, <3>3 DEF Job
      <4> QED  BY <1>1, <3>3, <4>1 DEF VgrRequests, VgrGuards, Remains
    <3> QED  BY <2>1, <3>1, <3>2, <3>3
  <2> QED  BY <1>1, <1>3, <2>2, GoalOf, ErrandIsGoal
<1>4. CASE at[p] \notin {"gripper", "belt"}
  <2>1. \A x \in Place \ {"gripper", "belt"} : GoalAt(x, vgr, bits) = GoalAt(x, vgr', bits')
    BY DEF GoalAt
  <2> QED  BY <1>1, <1>4, <2>1, ErrandIsGoal
<1> QED BY <1>2, <1>3, <1>4

\* The robot's call.
LEMMA VgrTravels ==
  ASSUME VgrTurn, NormalInv'
  PROVE  Flow!FlowNext \/ UNCHANGED Course
<1>1. /\ NormalInv /\ vgr \in Nat /\ vgr' \in Nat
      /\ VgrPlaced /\ VgrRequests /\ Remains("lx_Storage") /\ Asking /\ Job /\ OvenTalk /\ OrderLife /\ OnShelf
      /\ Gripped /\ Delivered /\ OnBelt /\ InOven /\ BayChosen /\ HandInv
  BY VgrPlaces DEF VgrTurn, NormalInv, TypeOK, VgrStep, VgrCall, VgrBits, OwnBits, Remains, Dialogues, Places, Orders
<1>2. \A q \in Piece : at'[q] = at[q] => Errand(q)' = Errand(q)
  BY VgrKeepsGoal
<1>3. Slot \cap (Station \cup Colour) = {}
  BY PlantAssumption
\* How a leg is shown: from a place with one workpiece to an empty one.
<1>4. ASSUME NEW from \in (Station \cup Colour), NEW to \in Flow!Stop, Held(from) # {}, Single(Held(from)), Held(to) = {},
             \A q \in Piece : at'[q] = IF at[q] = from THEN to ELSE at[q],
             NEW g, <<from, to>> \in Flow!Leg[g], GoalAt(from, vgr, bits) = g, GoalAt(to, vgr', bits') = g
      PROVE  Flow!FlowNext
  <2>1. PICK p \in Piece : at[p] = from /\ \A q \in Piece \ {p} : at[q] # from
    BY <1>4 DEF Held, Single
  <2>2. at'[p] = to /\ \A q \in Piece \ {p} : at'[q] = at[q]
    BY <1>4, <2>1
  <2>3. Errand(p) = g /\ Errand(p)' = g
    BY <1>4, <2>1, <2>2, ErrandIsGoal
  <2>4. \A q \in Piece : Errand(q)' = Errand(q)
    BY <1>2, <2>2, <2>3
  <2> QED  BY <1>1, <1>4, <2>1, <2>2, <2>3, <2>4, CourseTravel
<1>5. {"gripper", "belt", "oven", "DSO", "DSI"} \cup Colour \subseteq Flow!Stop
  BY DEF Flow!Stop
<1>6. CASE Edge(150, 160)
  <2>1. /\ bay \in Colour /\ Held(bay) # {} /\ Held("gripper") = {}
    BY <1>1, <1>6 DEF BayChosen, Gripped, Edge, HoldFinished, HoldOrder, HoldStore
  <2>2. Single(Held(bay))
    BY <1>1, <2>1 DEF OrderLife, Single, Finishing, Held
  <2>3. \A q \in Piece : at'[q] = IF at[q] = bay THEN "gripper" ELSE at[q]
    BY <1>1, <1>6 DEF VgrPlaced, Edge
  <2>4. GoalAt(bay, vgr, bits) = "DSO" /\ GoalAt("gripper", vgr', bits') = "DSO"
    <3>1. \A x \in Colour : GoalAt(x, vgr, bits) = "DSO"
      <4>1. vgr \in Nat
        BY <1>1
      <4> QED  BY <4>1, GoalOf
    <3>2. GoalAt("gripper", vgr', bits') = "DSO"
      BY <1>1, <1>6, GoalOf DEF Edge
    <3> QED  BY <2>1, <3>1, <3>2
  <2>5. <<bay, "gripper">> \in Flow!Leg["DSO"]
    BY <2>1 DEF Flow!Leg
  <2> QED  BY <1>4, <1>5, <2>1, <2>2, <2>3, <2>4, <2>5
<1>7. CASE Edge(290, 310)
  <2>1. Held("gripper") # {} /\ Single(Held("gripper")) /\ \E p \in Finishing : TRUE
    BY <1>1, <1>7 DEF Gripped, Held, Edge, HoldFinished, Finishing
  <2>2. Held("DSO") = {}
    BY <1>1, <1>7, <2>1 DEF OnShelf, OrderLife, Over, Edge
  <2>3. \A q \in Piece : at'[q] = IF at[q] = "gripper" THEN "DSO" ELSE at[q]
    BY <1>1, <1>7 DEF VgrPlaced, Edge
  <2>4. GoalAt("gripper", vgr, bits) = "DSO" /\ GoalAt("DSO", vgr', bits') = "DSO"
    BY <1>1, <1>7, GoalOf DEF Edge
  <2>5. <<"gripper", "DSO">> \in Flow!Leg["DSO"] /\ "gripper" \in Station
    BY DEF Flow!Leg, Station
  <2> QED  BY <1>4, <1>5, <2>1, <2>2, <2>3, <2>4, <2>5
<1>8. CASE Edge(470, 480)
  <2>1. hbw = 180 /\ "HBW_Outsource" \in bits /\ "HBW_Storage" \notin bits /\ "lx_Storage" \notin bits
    BY <1>1, <1>8, AtTheBelt DEF Edge, Job, Returning
  <2>2. Held("belt") # {} /\ Single(Held("belt")) /\ Held("gripper") = {}
    BY <1>1, <1>8, <2>1 DEF OnBelt, Bringing, Gripped, Edge, HoldFinished, HoldOrder, HoldStore
  <2>3. \A q \in Piece : at'[q] = IF at[q] = "belt" THEN "gripper" ELSE at[q]
    BY <1>1, <1>8 DEF VgrPlaced, Edge
  <2>4. GoalAt("belt", vgr, bits) = "DSO" /\ GoalAt("gripper", vgr', bits') = "DSO"
    BY <1>1, <1>8, <2>1, GoalOf DEF Edge
  <2>5. <<"belt", "gripper">> \in Flow!Leg["DSO"] /\ "belt" \in Station
    BY DEF Flow!Leg, Station
  <2> QED  BY <1>4, <1>5, <2>2, <2>3, <2>4, <2>5
<1>9. CASE Edge(530, 540)
  <2>1. Held("gripper") # {} /\ Single(Held("gripper")) /\ Held("oven") = {}
    BY <1>1, <1>9 DEF Gripped, InOven, OvenTalk, Edge, HoldOrder
  <2>2. \A q \in Piece : at'[q] = IF at[q] = "gripper" THEN "oven" ELSE at[q]
    BY <1>1, <1>9 DEF VgrPlaced, Edge
  <2>3. GoalAt("gripper", vgr, bits) = "DSO" /\ GoalAt("oven", vgr', bits') = "DSO"
    BY <1>1, <1>9, GoalOf DEF Edge
  <2>4. <<"gripper", "oven">> \in Flow!Leg["DSO"] /\ "gripper" \in Station
    BY DEF Flow!Leg, Station
  <2> QED  BY <1>4, <1>5, <2>1, <2>2, <2>3, <2>4
<1>10. CASE Edge(640, 650)
  <2>1. Held("DSI") # {} /\ Single(Held("DSI")) /\ Held("gripper") = {}
    BY <1>1, <1>10 DEF Delivered, Gripped, Edge, HoldFinished, HoldOrder, HoldStore
  <2>2. \A q \in Piece : at'[q] = IF at[q] = "DSI" THEN "gripper" ELSE at[q]
    BY <1>1, <1>10 DEF VgrPlaced, Edge
  <2>3. GoalAt("DSI", vgr, bits) = "rack" /\ GoalAt("gripper", vgr', bits') = "rack"
    BY <1>1, <1>10, GoalOf DEF Edge
  <2>4. <<"DSI", "gripper">> \in Flow!Leg["rack"] /\ "DSI" \in Station
    BY DEF Flow!Leg, Station
  <2> QED  BY <1>4, <1>5, <2>1, <2>2, <2>3, <2>4
<1>11. CASE Edge(900, 910)
  <2>1. hbw = 180 /\ "HBW_Storage" \in bits /\ "HBW_Storage" \in bits'
    BY <1>1, <1>11, AtTheBelt DEF Edge, VgrRequests
  <2>2. Held("gripper") # {} /\ Single(Held("gripper")) /\ Held("belt") = {}
    BY <1>1, <1>11, <2>1 DEF OnBelt, Bringing, Gripped, Edge, HoldStore
  <2>3. \A q \in Piece : at'[q] = IF at[q] = "gripper" THEN "belt" ELSE at[q]
    BY <1>1, <1>11 DEF VgrPlaced, Edge
  <2>4. GoalAt("gripper", vgr, bits) = "rack" /\ GoalAt("belt", vgr', bits') = "rack"
    BY <1>1, <1>11, <2>1, GoalOf DEF Edge
  <2>5. <<"gripper", "belt">> \in Flow!Leg["rack"] /\ "gripper" \in Station
    BY DEF Flow!Leg, Station
  <2> QED  BY <1>4, <1>5, <2>2, <2>3, <2>4, <2>5
<1>12. CASE ~Edge(150, 160) /\ ~Edge(290, 310) /\ ~Edge(470, 480) /\ ~Edge(530, 540) /\ ~Edge(640, 650)
            /\ ~Edge(900, 910)
  <2>1. \A q \in Piece : at'[q] = at[q]
    BY <1>1, <1>12 DEF VgrPlaced
  <2> QED  BY <1>1, <1>2, <2>1, CourseStands
<1> QED BY <1>6, <1>7, <1>8, <1>9, <1>10, <1>11, <1>12

\* What the other calls do to the goals: they do not move the robot.
LEMMA GoalStands ==
  ASSUME NormalInv, vgr' = vgr, NEW p \in Piece, at'[p] = at[p],
         at[p] = "belt" => ({"HBW_Storage", "lx_Storage"} \cap bits' # {} <=> {"HBW_Storage", "lx_Storage"} \cap bits # {})
  PROVE  Errand(p)' = Errand(p)
<1>1. vgr \in Nat
  BY DEF NormalInv, TypeOK, VgrStep
<1>2. CASE at[p] = "belt"
  BY <1>1, <1>2, GoalOf, ErrandIsGoal
<1>3. CASE at[p] # "belt"
  BY <1>3, ErrandIsGoal DEF GoalAt
<1> QED BY <1>2, <1>3

\* The warehouse's call.
LEMMA HbwTravels ==
  ASSUME HbwTurn, NormalInv'
  PROVE  Flow!FlowNext \/ UNCHANGED Course
<1>1. /\ NormalInv /\ vgr \in Nat /\ vgr' = vgr /\ HbwPlaced /\ HbwBits /\ HbwGuards /\ OnBelt /\ Job /\ HandInv
      /\ Remains("HBW_Storage") /\ RackTold
      /\ HbwEdge(100, 110) \/ HbwEdge(250, 260) => act \in Slot /\ act \notin Station \cup Colour
  BY HbwPlaces DEF HbwTurn, NormalInv, TypeOK, VgrStep, HbwCall, HbwBits, HbwBit, Remains, Dialogues, Places, RackRight
<1>2. ASSUME NEW q \in Piece, at'[q] = at[q] PROVE Errand(q)' = Errand(q)
  <2>1. ASSUME at[q] = "belt"
        PROVE  {"HBW_Storage", "lx_Storage"} \cap bits' # {} <=> {"HBW_Storage", "lx_Storage"} \cap bits # {}
    <3>1. hbw \in Bringing \cup Returning
      BY <1>1, <2>1 DEF OnBelt, Held
    <3>2. CASE HbwEdge(180, 190)
      <4>1. vgr = 910
        BY <2>1, <3>2, HandedOver DEF Held
      <4>2. "HBW_Storage" \in bits
        BY <1>1, <4>1 DEF HandInv, StorageStands, ForStorage
      <4> QED  BY <1>1, <4>2 DEF Remains
    <3>3. CASE ~HbwEdge(180, 190)
      BY <1>1, <3>1, <3>3 DEF HbwBits, Remains, HbwEdge, Bringing, Returning
    <3> QED BY <3>2, <3>3
  <2> QED  BY <1>1, <1>2, <2>1, GoalStands
<1>3. CASE HbwEdge(100, 110) /\ Held(act) # {}
  <2>1. /\ act \in Slot /\ Held("belt") = {} /\ Single(Held(act)) /\ "HBW_Storage" \notin bits
    BY <1>1, <1>3, SlotFetched
  <2>2. PICK p \in Piece : at[p] = act /\ \A q \in Piece \ {p} : at[q] # act
    BY <1>3, <2>1 DEF Held, Single
  <2>3. at'[p] = "belt" /\ \A q \in Piece \ {p} : at'[q] = at[q]
    BY <1>1, <1>3, <2>2 DEF HbwPlaced, HbwEdge
  <2>4. {"HBW_Storage", "lx_Storage"} \cap bits' = {}
    BY <1>1, <1>3, <2>1 DEF HbwBits, Job, Remains, HbwEdge, Returning
  <2>5. Errand(p)' = "DSO"
    BY <1>1, <2>3, <2>4, GoalOf, ErrandIsGoal
  <2>6. \A q \in Piece \ {p} : Errand(q)' = Errand(q)
    BY <1>2, <2>3
  <2> QED  BY <1>1, <2>1, <2>2, <2>3, <2>5, <2>6, CourseOrder
<1>4. CASE HbwEdge(250, 260) /\ Held("belt") # {}
  <2>1. "lx_Storage" \in bits /\ Single(Held("belt"))
    BY <1>1, <1>4 DEF OnBelt, HbwEdge, Returning
  <2>2. PICK p \in Piece : at[p] = "belt" /\ \A q \in Piece \ {p} : at[q] # "belt"
    BY <1>4, <2>1 DEF Held, Single
  <2>3. at'[p] = act /\ act \in Slot /\ \A q \in Piece \ {p} : at'[q] = at[q]
    BY <1>1, <1>4, <2>2 DEF HbwPlaced, HbwEdge
  <2>4. Held(act) = {}
    BY <1>1, <1>4, <2>3 DEF RackTold, SlotTrue, InFlux, HbwEdge, Returning
  <2>5. Errand(p) = "rack"
    BY <1>1, <2>1, <2>2, GoalOf, ErrandIsGoal
  <2>6. Errand(p)' = "rack"
    <3>1. \A x \in Slot : GoalAt(x, vgr', bits') = "rack"
      BY <1>1, GoalOf
    <3> QED  BY <2>3, <3>1, ErrandIsGoal
  <2>7. \A q \in Piece : Errand(q)' = Errand(q)
    BY <1>2, <2>3, <2>5, <2>6
  <2>8. act \in Flow!Stop /\ <<at[p], act>> \in Flow!Leg[Errand(p)]
    BY <2>2, <2>3, <2>5 DEF Flow!Stop, Flow!Leg
  <2> QED  BY <1>1, <2>3, <2>4, <2>7, <2>8, CourseTravel
<1>5. CASE ~(HbwEdge(100, 110) /\ Held(act) # {}) /\ ~(HbwEdge(250, 260) /\ Held("belt") # {})
  <2>1. \A q \in Piece : at'[q] = at[q]
    BY <1>1, <1>5 DEF HbwPlaced, Held, HbwEdge
  <2> QED  BY <1>1, <1>2, <2>1, CourseStands
<1> QED BY <1>3, <1>4, <1>5

\* The oven passes its workpiece on to the sorting line's belt.
LEMMA MpoTravels ==
  ASSUME Turn("MPO", "SLD"), NormalInv', MpoMayFail = FALSE, MPOProgram
  PROVE  Flow!FlowNext \/ UNCHANGED Course
<1>1. /\ NormalInv /\ vgr' = vgr /\ vgr \in Nat /\ OrderLife
      /\ {"HBW_Storage", "lx_Storage"} \cap bits' = {"HBW_Storage", "lx_Storage"} \cap bits
      /\ at' = at \/ (Held("oven") # {} /\ Carry("oven", "SLD"))
  BY DEF Turn, NormalInv, TypeOK, VgrStep, Orders, MPOProgram, MpoNoPart, MpoLostPart, MpoInit, MpoMove,
     MpoAwaitRequest, MpoOpen, MpoAccept, MpoRetract, MpoPassOn, Switch
<1>2. \A q \in Piece : at'[q] = at[q] => Errand(q)' = Errand(q)
  BY <1>1, GoalStands
<1>3. CASE at' = at
  BY <1>1, <1>2, <1>3, CourseStands
<1>4. CASE Held("oven") # {} /\ Carry("oven", "SLD")
  <2>1. Single(Held("oven")) /\ Held("SLD") = {}
    BY <1>1, <1>4 DEF OrderLife, Single, Finishing, Held
  <2>2. PICK p \in Piece : at[p] = "oven" /\ \A q \in Piece \ {p} : at[q] # "oven"
    BY <1>4, <2>1 DEF Held, Single
  <2>3. at'[p] = "SLD" /\ \A q \in Piece \ {p} : at'[q] = at[q]
    BY <1>4, <2>2 DEF Carry
  <2>4. Errand(p) = "DSO" /\ Errand(p)' = "DSO"
    BY <1>1, <2>2, <2>3, GoalOf, ErrandIsGoal
  <2>5. \A q \in Piece : Errand(q)' = Errand(q)
    BY <1>2, <2>3, <2>4
  <2>6. "SLD" \in Flow!Stop /\ <<at[p], "SLD">> \in Flow!Leg[Errand(p)]
    BY <2>2, <2>4 DEF Flow!Stop, Flow!Leg
  <2> QED  BY <1>1, <2>1, <2>3, <2>5, <2>6, CourseTravel
<1> QED BY <1>1, <1>3, <1>4

\* The sorting line blows its workpiece into the bay of its colour.
LEMMA SldTravels ==
  ASSUME Turn("SLD", "DSO"), NormalInv', SldMayFail = FALSE, SLDProgram
  PROVE  Flow!FlowNext \/ UNCHANGED Course
<1>1. /\ NormalInv /\ UNCHANGED <<vgr, bits>> /\ vgr \in Nat /\ OrderLife
      /\ at' = at \/ at' = [p \in Piece |-> IF at[p] = "SLD" THEN ColourOf[p] ELSE at[p]]
  BY DEF Turn, NormalInv, TypeOK, VgrStep, Orders, SLDProgram, SldInit, SldMove, SldInlet, SldMeasure, SldTimeout,
     SldEject
<1>2. \A q \in Piece : at'[q] = at[q] => Errand(q)' = Errand(q)
  BY <1>1, GoalStands
<1>3. CASE \A q \in Piece : at'[q] = at[q]
  BY <1>1, <1>2, <1>3, CourseStands
<1>4. CASE ~(\A q \in Piece : at'[q] = at[q])
  <2>1. PICK p \in Piece : at[p] = "SLD" /\ at'[p] = ColourOf[p]
    BY <1>1, <1>4
  <2>2. ColourOf[p] \in Colour
    BY PlantAssumption
  <2>3. \A q \in Piece \ {p} : at[q] \notin {"SLD"} \cup Colour
    BY <1>1, <2>1 DEF OrderLife, Single, Finishing
  <2>4. Held(ColourOf[p]) = {} /\ \A q \in Piece \ {p} : at'[q] = at[q]
    BY <1>1, <2>1, <2>2, <2>3 DEF Held, Colour
  <2>5. Errand(p) = "DSO"
    BY <1>1, <2>1, GoalOf, ErrandIsGoal
  <2>6. Errand(p)' = "DSO"
    <3>1. \A x \in Colour : GoalAt(x, vgr, bits) = "DSO"
      <4>1. vgr \in Nat
        BY <1>1
      <4> QED  BY <4>1, GoalOf
    <3> QED  BY <1>1, <2>1, <2>2, <3>1, ErrandIsGoal
  <2>7. \A q \in Piece : Errand(q)' = Errand(q)
    BY <1>2, <2>4, <2>5, <2>6
  <2>8. ColourOf[p] \in Flow!Stop /\ <<at[p], ColourOf[p]>> \in Flow!Leg[Errand(p)]
    BY <2>1, <2>2, <2>5 DEF Flow!Stop, Flow!Leg
  <2> QED  BY <1>1, <2>1, <2>4, <2>7, <2>8, CourseTravel
<1> QED BY <1>3, <1>4

\* People bring workpieces to the input shelf and take them from the output
\* shelf.
LEMMA PeopleTravel ==
  ASSUME Turn("IO", "VGR"), NormalInv', Modes = {}, People
  PROVE  Flow!FlowNext \/ UNCHANGED Course
<1>1. NormalInv /\ UNCHANGED <<vgr, bits>> /\ vgr \in Nat /\ at \in [Piece -> Place]
  BY DEF Turn, NormalInv, TypeOK, VgrStep, People, Deliver, Take, PressOrder
<1>2. \A q \in Piece : at'[q] = at[q] => Errand(q)' = Errand(q)
  BY <1>1, GoalStands
<1>3. ASSUME NEW p \in Piece, Deliver(p) PROVE Flow!FlowNext
  <2>1. at[p] = "outside" /\ Held("DSI") = {} /\ at'[p] = "DSI" /\ \A q \in Piece \ {p} : at'[q] = at[q]
    BY <1>1, <1>3 DEF Deliver
  <2>2. Errand(p) = "rack" /\ Errand(p)' = "rack"
    BY <1>1, <2>1, GoalOf, ErrandIsGoal
  <2>3. \A q \in Piece : Errand(q)' = Errand(q)
    BY <1>2, <2>1, <2>2
  <2>4. "DSI" \in Flow!Stop /\ <<at[p], "DSI">> \in Flow!Leg[Errand(p)]
    BY <2>1, <2>2 DEF Flow!Stop, Flow!Leg
  <2> QED  BY <1>1, <2>1, <2>3, <2>4, CourseTravel
<1>4. ASSUME NEW p \in Piece, Take(p) PROVE Flow!FlowNext
  <2>1. at[p] = "DSO" /\ at'[p] \in {"outside", "gone"} /\ \A q \in Piece \ {p} : at'[q] = at[q]
    BY <1>1, <1>4 DEF Take
  <2>2. Errand(p) = "DSO" /\ (at'[p] = "gone" => Errand(p)' = "DSO") /\ (at'[p] = "outside" => Errand(p)' = "rack")
    BY <1>1, <2>1, GoalOf, ErrandIsGoal
  <2>3. CASE at'[p] = "outside"
    BY <1>1, <1>2, <2>1, <2>2, <2>3, CourseBack
  <2>4. CASE at'[p] = "gone"
    <3>1. \A q \in Piece : Errand(q)' = Errand(q)
      BY <1>2, <2>1, <2>2, <2>4
    <3>2. "gone" \in Flow!Stop /\ <<at[p], "gone">> \in Flow!Leg[Errand(p)]
      BY <2>1, <2>2 DEF Flow!Stop, Flow!Leg
    <3> QED  BY <1>1, <2>1, <2>4, <3>1, <3>2, CourseTravel
  <2> QED BY <2>1, <2>3, <2>4
<1>5. CASE at' = at
  BY <1>1, <1>2, <1>5, CourseStands
<1> QED BY <1>3, <1>4, <1>5 DEF People, PressOrder

\* The remaining calls move nothing.
LEMMA NothingTravels ==
  ASSUME NormalInv, NormalInv',
         UNCHANGED allVars \/ NFCProgram \/ DSOProgram \/ OrderProgram \/ AckProgram
  PROVE  UNCHANGED Course
<1>1. UNCHANGED <<vgr, at>> /\ {"HBW_Storage", "lx_Storage"} \cap bits' = {"HBW_Storage", "lx_Storage"} \cap bits
  <2>1. CASE UNCHANGED allVars
    BY <2>1 DEF allVars, vars
  <2>2. CASE NFCProgram
    BY <2>2 DEF NFCProgram, NfcStart, NfcDeleted, NfcWritten, NfcTimeout, NfcCompleted, Switch
  <2>3. CASE DSOProgram \/ AckProgram
    BY <2>3 DEF DSOProgram, AckProgram, Shelf, TimerStart, Switch
  <2>4. CASE OrderProgram
    BY <2>4 DEF OrderProgram, OrderInit, OrderTake, OrderClear, Switch
  <2> QED BY <2>1, <2>2, <2>3, <2>4
<1>2. \A q \in Piece : Errand(q)' = Errand(q)
  BY <1>1, GoalStands
<1> QED BY <1>1, <1>2, CourseStands

LEMMA CourseAtStart == Init => Flow!FlowInit
<1> SUFFICES ASSUME Init PROVE Flow!FlowInit
  OBVIOUS
<1>1. NormalInv /\ vgr \in Nat
  BY NormalAtStart DEF Init
<1>2. at \in [Piece -> {"outside"} \cup Slot]
  BY DEF Init
<1>3. \A p, q \in Piece : at[p] = at[q] /\ at[p] # "outside" => p = q
  <2>1. ASSUME NEW p \in Piece, at[p] # "outside" PROVE Stock[at[p]] = p
    <3>1. PICK s \in Slot : Stock[s] = p
      BY <2>1 DEF Init
    <3>2. at[p] = CHOOSE t \in Slot : Stock[t] = p
      BY <3>1 DEF Init
    <3> QED  BY <3>1, <3>2
  <2> QED  BY <2>1
<1>4. \A p \in Piece : Errand(p) = "rack"
  <2>1. \A x \in {"outside"} \cup Slot : GoalAt(x, vgr, bits) = "rack"
    BY <1>1, GoalOf
  <2> QED  BY <1>2, <2>1, ErrandIsGoal
<1> QED BY <1>2, <1>3, <1>4 DEF Flow!FlowInit

\* In normal operation the programs of the PLC together move the workpieces in
\* single file along the flow: every step of every program is one leg of one
\* workpiece into a free place, an order, or nothing the flow sees.
THEOREM FlowImplemented == ASSUME Calm PROVE Spec => SingleFile
<1>1. ASSUME NormalInv, NormalInv', [Next]_allVars PROVE Flow!FlowNext \/ UNCHANGED Course
  BY <1>1, NormalSteps, VgrTravels, HbwTravels, MpoTravels, SldTravels, PeopleTravel, NothingTravels DEF Calm
<1>2. NormalInv /\ NormalInv' /\ [Next]_allVars => [Flow!FlowNext]_<<at, [p \in Piece |-> Errand(p)]>>
  BY <1>1 DEF Course
<1> QED
  BY <1>2, NormalAtStart, NormalKept, CourseAtStart, PTL DEF Spec, SingleFile, Flow!FlowSpec
=============================================================================
