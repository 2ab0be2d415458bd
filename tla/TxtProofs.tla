------------------------------ MODULE TxtProofs ------------------------------
(***************************************************************************)
(* The composed TXT factory, whatever fails, is asked for or brought:      *)
(* types, and the talk between the robot and the rack, from which it       *)
(* follows that they meet and that the records are true.                   *)
(***************************************************************************)
EXTENDS TxtFactory, FiniteSetTheorems, SequenceTheorems, WellFoundedInduction, TLAPS

-----------------------------------------------------------------------------
(* The types of what the controllers keep and send.                        *)

Kinds == Colours \cup {"NONE"}
Flows == [uid : Nat, wp : Workpiece]
OrderRec == [uid : Nat, wp : Workpiece, state : OrderStates]
PickupRec == [uid : Nat, wp : Workpiece, state : PickupStates]
StoreRec == [uid : Nat, wp : Workpiece, state : StoreStates]
Jobs == [type : {"FETCH_CONTAINER", "FETCH_WP"}, flow : Flows]
Wishes == Kinds \cup Modes \cup {"pickup", "store"}

\* No message says RESETSTORAGE: the command tag is the subject of TxtRack.
ReqCodes == {"FETCHCONTAINER", "FETCH_WP"}
RackCodes == ReqCodes \cup {"STORE_WP", "STORECONTAINER"}
FaultCodes == {"CNT_NOT_AVAILABLE", "WP_NOT_AVAILABLE", "STORAGE_FAULT", "REQUEST_TIMEOUT",
               "TRANSPORT_FAULT", "INVALID_WP_TYPE", "WRONG_WP_TYPE"}
Codes == RackCodes \cup FaultCodes \cup Kinds \cup Modes
         \cup {"none", "PRODUCE", "STARTED", "PRODUCED", "SORTED", "FETCHED"}
Subjects == Topics("VGR") \cup {"vgr/do"}
Letters ==
  {m \in [topic : Subjects, code : Codes, flow : Flows] :
     /\ m.topic = "order" => m.code \in Kinds
     /\ m.topic = "wm" => m.code \in Modes
     /\ m.topic # "vgr/do" => m.code \notin RackCodes}

MailOK == mail \in [Clients -> Seq(Letters)]
RackOK == hbwQ \in Seq(Jobs) /\ hbwReq \in Flows
FlowOK == flow \in [order : OrderRec, pickup : PickupRec, store : StoreRec,
                    hbw : Workpiece, seen : Kinds]
WaitOK == wait \in [orders : Seq(OrderRec), pickups : Seq(PickupRec), stores : Seq(StoreRec),
                    sorted : Seq(OrderRec)]
BoardOK == board \in [1 .. MaxRequests -> OrderStates]
RobotOK ==
  /\ vgr \in VgrStates /\ raised \subseteq Marks
  /\ mode \in [now : Modes, wanted : Modes \cup {"UNDEFINED"}]
  /\ hist \in [Parts -> SUBSET HistoryIndex] /\ faults \in 0 .. MaxFaults
  /\ asked \in Seq(Wishes)
  /\ FlowOK /\ WaitOK /\ BoardOK
MpoOK == mpo \in MpoStates /\ mpoQ \in Seq(Flows) /\ mpoReq \in Flows
SldOK == sld \in SldStates /\ sldQ \in Seq(Flows) /\ sldReq \in Flows /\ seen \in Kinds
PlantOK ==
  /\ cell \in [Slots -> Parts \cup {NoUid}] /\ tray \in Slots \cup {NoSlot}
  /\ at \in [Parts -> Places] /\ tag \in [Parts -> Tags] /\ quit \in [Clients -> QuitStates]
Types == StorageTypeOK /\ PlantOK /\ MailOK /\ HbwTypeOK /\ RackOK /\ RobotOK /\ MpoOK /\ SldOK

LEMMA TypesEnough == Types => TxtTypeOK
BY DEF Types, TxtTypeOK, PlantTypeOK, PlantOK, MailOK, VgrTypeOK, RobotOK, FlowOK, BoardOK,
       OrderRec, PickupRec, StoreRec, StationsTypeOK, MpoOK, SldOK, Kinds

LEMMA Makings ==
  /\ EmptyWp \in Workpiece /\ Null \in Workpiece /\ NoFlow \in Flows
  /\ NoOrder \in OrderRec /\ NoPickup \in PickupRec /\ NoStore \in StoreRec
  /\ \A u \in Parts \cup {NoUid}, c \in Kinds, t \in {"NONE", "RAW", "PROCESSED", "REJECTED"} :
       Wp(u, c, t) \in Workpiece
BY DEF EmptyWp, Null, NoFlow, Workflow, Wp, Workpiece, Flows, Kinds, NoOrder, NoPickup, NoStore,
       OrderState, OrderRec, PickupRec, StoreRec, OrderStates, PickupStates, StoreStates

LEMMA Sendings ==
  /\ QuitMsg \in Letters /\ StoreMsg \in Letters
  /\ \A c \in Kinds : OrderMsg(c) \in Letters
  /\ \A p \in Parts : PickupMsg(p) \in Letters
  /\ \A wm \in Modes : ModeMsg(wm) \in Letters
  /\ \A f \in Flows :
       /\ \A code \in RackCodes \cup {"PRODUCE"} : VgrDo(code, f) \in Letters
       /\ SldAck("SORTED", f) \in Letters
       /\ \A code \in {"STARTED", "PRODUCED"} : MpoAck(code, f) \in Letters
       /\ \A code \in FaultCodes : MpoFaultMsg(code, f) \in Letters /\ SldFaultMsg(code, f) \in Letters
  /\ \A w \in Workpiece : HbwAck("FETCHED", w) \in Letters
                         /\ \A code \in FaultCodes : HbwFaultMsg(code, w) \in Letters
<1> USE DEF Letters, Subjects, Topics, Msg, Codes
<1>1. QuitMsg \in Letters /\ StoreMsg \in Letters
  BY Makings DEF QuitMsg, StoreMsg, RackCodes, ReqCodes
<1>2. \A c \in Kinds : OrderMsg(c) \in Letters
  BY Makings DEF OrderMsg, Kinds, Colours, RackCodes, ReqCodes
<1>3. ASSUME NEW p \in Parts PROVE PickupMsg(p) \in Letters
  <2>1. Workflow(0, Wp(p, "NONE", "NONE")) \in Flows
    BY Makings DEF Workflow, Flows, Kinds
  <2> QED BY <2>1 DEF PickupMsg, RackCodes, ReqCodes
<1>4. \A wm \in Modes : ModeMsg(wm) \in Letters
  BY Makings DEF ModeMsg, Modes, RackCodes, ReqCodes
<1>5. ASSUME NEW f \in Flows
      PROVE  /\ \A code \in RackCodes \cup {"PRODUCE"} : VgrDo(code, f) \in Letters
             /\ SldAck("SORTED", f) \in Letters
             /\ \A code \in {"STARTED", "PRODUCED"} : MpoAck(code, f) \in Letters
  BY DEF VgrDo, SldAck, MpoAck, RackCodes, ReqCodes
<1>6. ASSUME NEW f \in Flows, NEW code \in FaultCodes
      PROVE  MpoFaultMsg(code, f) \in Letters /\ SldFaultMsg(code, f) \in Letters
  BY DEF MpoFaultMsg, SldFaultMsg, FaultCodes, RackCodes, ReqCodes
<1>7. ASSUME NEW w \in Workpiece PROVE HbwAck("FETCHED", w) \in Letters
  <2>1. Workflow(0, w) \in Flows
    BY Makings DEF Workflow, Flows
  <2> QED BY <2>1 DEF HbwAck, RackCodes, ReqCodes
<1>8. ASSUME NEW w \in Workpiece, NEW code \in FaultCodes PROVE HbwFaultMsg(code, w) \in Letters
  <2>1. Workflow(0, IF Complete(w) THEN w ELSE EmptyWp) \in Flows
    BY Makings DEF Workflow, Flows
  <2> QED BY <2>1 DEF HbwFaultMsg, FaultCodes, RackCodes, ReqCodes
<1> QED BY <1>1, <1>2, <1>3, <1>4, <1>5, <1>6, <1>7, <1>8

\* Posting and receiving.
LEMMA PostOK ==
  ASSUME MailOK, NEW m \in Letters, Publish(m)
  PROVE  MailOK'
<1>1. \A c \in Clients : Post(mail, m)[c] \in Seq(Letters)
  BY DEF Post, MailOK
<1> QED BY <1>1 DEF Publish, Post, MailOK

LEMMA ReceiveOK ==
  ASSUME MailOK, NEW c \in Clients, NEW m \in Arrived(c), Received(c)
  PROVE  m \in Letters /\ MailOK' /\ mail[c] # <<>> /\ m = Head(mail[c])
<1>1. mail[c] \in Seq(Letters) /\ mail[c] # <<>> /\ m = Head(mail[c])
  BY DEF MailOK, Arrived
<1>2. m \in Letters /\ Tail(mail[c]) \in Seq(Letters)
  BY <1>1
<1> QED BY <1>1, <1>2 DEF MailOK, Received

\* What the robot reports keeps its type when the record does.
LEMMA Reports ==
  ASSUME FlowOK, BoardOK
  PROVE  /\ \A o \in OrderRec : ReportOrder(o) => FlowOK' /\ BoardOK'
         /\ \A o \in PickupRec : SetPickup(o) => FlowOK' /\ BoardOK'
         /\ \A o \in StoreRec : SetStore(o) => FlowOK' /\ BoardOK'
<1>1. ASSUME NEW o \in OrderRec, ReportOrder(o) PROVE FlowOK' /\ BoardOK'
  <2>1. o.state \in OrderStates
    BY DEF OrderRec
  <2> QED BY <1>1, <2>1 DEF ReportOrder, Show, FlowOK, BoardOK
<1>2. ASSUME NEW o \in PickupRec, SetPickup(o) PROVE FlowOK' /\ BoardOK'
  BY <1>2 DEF SetPickup, FlowOK, BoardOK
<1>3. ASSUME NEW o \in StoreRec, SetStore(o) PROVE FlowOK' /\ BoardOK'
  BY <1>3 DEF SetStore, FlowOK, BoardOK
<1> QED BY <1>1, <1>2, <1>3

-----------------------------------------------------------------------------
(* The storage: which slot is chosen, and the order of filling.            *)

\* Some number of a non-empty set of the first n is the least.
LEMMA Least ==
  ASSUME NEW n \in Nat, NEW S \in SUBSET (1 .. n), S # {}
  PROVE  \E x \in S : \A y \in S : x <= y
<1> DEFINE Below(x) == {y \in S : y < x}
           T == {Below(x) : x \in S}
<1>1. IsFiniteSet(S) /\ S \subseteq Int
  <2>1. IsFiniteSet(1 .. n)
    <3>1. 1 \in Int /\ n \in Int
      OBVIOUS
    <3> QED BY <3>1, FS_Interval
  <2>2. IsFiniteSet(S)
    BY <2>1, FS_Subset
  <2>3. S \subseteq Int
    OBVIOUS
  <2> QED BY <2>2, <2>3
<1>2. \A x \in S : IsFiniteSet(Below(x)) /\ Below(x) \subseteq S
  BY <1>1, FS_Subset
<1>3. T # {} /\ T \subseteq FiniteSubsetsOf(S)
  BY <1>2 DEF FiniteSubsetsOf
<1>4. PICK t \in T : \A u \in T : ~(<<u, t>> \in StrictSubsetOrdering(S))
  <2> HIDE DEF T
  <2> QED BY <1>3, FS_StrictSubsetOrderingWellFounded, WFMin
<1>5. PICK x \in S : t = Below(x)
  OBVIOUS
<1>6. ASSUME NEW y \in S, ~(x <= y) PROVE FALSE
  <2>1. x \in Int /\ y \in Int
    BY <1>1
  <2>2. Below(y) \subseteq Below(x) /\ y \in Below(x) /\ y \notin Below(y)
    <3>1. \A z \in S : z < y => z < x
      BY <1>1, <1>6, <2>1
    <3>2. y < x /\ ~(y < y)
      BY <1>6, <2>1
    <3> QED BY <3>1, <3>2
  <2>3. <<Below(y), Below(x)>> \in StrictSubsetOrdering(S)
    BY <2>2, <1>2 DEF StrictSubsetOrdering
  <2> QED BY <1>4, <1>5, <2>3
<1> QED BY <1>6

LEMMA FirstIsOne ==
  ASSUME NEW S \in SUBSET Slots, S # {}
  PROVE  First(S) \in S
<1>1. \E x \in S : \A y \in S : x <= y
  BY Least, TxtConstants DEF Slots
<1> QED BY <1>1 DEF First

Listed(s) == \E i \in DOMAIN filled : filled[i] = s
LEMMA OldestIsOne ==
  ASSUME filled \in Seq(Slots), NEW S \in SUBSET Slots, S # {}, \A s \in S : Listed(s)
  PROVE  OldestOf(S) \in S
<1> DEFINE Ages == {Age(s) : s \in S}
<1>1. \A s \in S : Age(s) \in 1 .. Len(filled)
  BY DEF Listed, Age
<1>2. Len(filled) \in Nat /\ Ages \in SUBSET (1 .. Len(filled)) /\ Ages # {}
  BY <1>1
<1>3. PICK x \in Ages : \A y \in Ages : x <= y
  <2> HIDE DEF Ages
  <2> QED BY <1>2, Least
<1>4. PICK s \in S : Age(s) = x
  OBVIOUS
<1>5. \A t \in S : Age(s) <= Age(t)
  BY <1>3, <1>4
<1> QED BY <1>5 DEF OldestOf

\* Taking a slot out of the order of filling keeps the others.
LEMMA NotAtOthers ==
  ASSUME filled \in Seq(Slots), NEW s
  PROVE  /\ NotAt(s) \in Seq(Slots)
         /\ \A t : t # s /\ Listed(t) => \E i \in DOMAIN NotAt(s) : NotAt(s)[i] = t
<1>1. CASE \A i \in DOMAIN filled : filled[i] # s
  BY <1>1 DEF NotAt, Listed
<1>2. CASE \E i \in DOMAIN filled : filled[i] = s
  <2> DEFINE n == Len(filled)  a == Age(s)
             q == [i \in 1 .. n - 1 |-> IF i < a THEN filled[i] ELSE filled[i + 1]]
  <2>1. n \in Nat /\ a \in 1 .. n /\ filled[a] = s /\ NotAt(s) = q /\ DOMAIN filled = 1 .. n
    BY <1>2 DEF Age, NotAt
  <2>2. \A i \in 1 .. n : filled[i] \in Slots
    OBVIOUS
  <2> HIDE DEF n, a
  <2>3. n - 1 \in Nat
    BY <2>1
  <2>4. q \in [1 .. n - 1 -> Slots]
    BY <2>1, <2>2
  <2>5. q \in Seq(Slots)
    BY <2>3, <2>4, SeqDef
  <2>6. ASSUME NEW t, t # s, Listed(t) PROVE \E i \in 1 .. n - 1 : q[i] = t
    <3>1. PICK j \in 1 .. n : filled[j] = t
      BY <2>1, <2>6 DEF Listed
    <3>2. CASE j < a
      <4>1. j \in 1 .. n - 1 /\ q[j] = t
        BY <2>1, <3>1, <3>2
      <4> QED BY <4>1
    <3>3. CASE j > a
      <4>1. j - 1 \in 1 .. n - 1 /\ ~(j - 1 < a) /\ (j - 1) + 1 = j
        BY <2>1, <3>1, <3>3
      <4>2. q[j - 1] = t
        BY <3>1, <4>1
      <4> QED BY <4>1, <4>2
    <3>4. j # a
      BY <2>1, <2>6, <3>1
    <3> QED BY <2>1, <3>2, <3>3, <3>4
  <2>7. DOMAIN q = 1 .. n - 1
    OBVIOUS
  <2> QED BY <2>1, <2>5, <2>6, <2>7
<1> QED BY <1>1, <1>2

\* What the calls of the storage do to its types.
LEMMA StorageCalls ==
  ASSUME StorageTypeOK
  PROVE  /\ \A w \in Workpiece : isValidPos(nextFetchPos) /\ store(w) => StorageTypeOK'
         /\ storeContainer => StorageTypeOK'
         /\ \A s \in Slots : TakeFrom(s) => StorageTypeOK'
         /\ NothingFetched => StorageTypeOK'
         /\ saveBegin => StorageTypeOK'
         /\ saveEnd => StorageTypeOK'
         /\ resetStorageState => StorageTypeOK'
<1> USE DEF StorageTypeOK, Shelf, Contents
<1>1. \A s : NotAt(s) \in Seq(Slots)
  BY NotAtOthers
<1>2. Null \in Workpiece /\ EmptyShelf \in Shelf
  BY Makings DEF EmptyShelf
<1>3. ASSUME NEW w \in Workpiece, isValidPos(nextFetchPos), store(w) PROVE StorageTypeOK'
  <2>1. filled' \in Seq(Slots)
    <3>1. nextFetchPos \in Slots /\ NotAt(nextFetchPos) \in Seq(Slots)
      BY <1>1, <1>3 DEF isValidPos
    <3>2. Append(NotAt(nextFetchPos), nextFetchPos) \in Seq(Slots)
      BY <3>1
    <3> QED BY <1>3, <3>2 DEF store
  <2> QED BY <1>3, <2>1 DEF store
<1>4. storeContainer => StorageTypeOK'
  BY <1>2 DEF storeContainer
<1>5. ASSUME NEW s \in Slots, TakeFrom(s) PROVE StorageTypeOK'
  BY <1>1, <1>2, <1>5 DEF TakeFrom
<1>6. NothingFetched => StorageTypeOK'
  BY DEF NothingFetched
<1>7. saveBegin => StorageTypeOK'
  BY <1>2 DEF saveBegin
<1>8. saveEnd => StorageTypeOK'
  BY DEF saveEnd
<1>9. resetStorageState => StorageTypeOK'
  BY <1>2 DEF resetStorageState
<1> QED BY <1>3, <1>4, <1>5, <1>6, <1>7, <1>8, <1>9

\* Whatever slot is fetched, it is one.
LEMMA FetchesOK ==
  ASSUME StorageTypeOK
  PROVE  /\ fetchContainer => StorageTypeOK'
         /\ \A w : fetch(w) => StorageTypeOK'
<1>1. Free \in SUBSET Slots /\ (Free # {} => First(Free) \in Slots)
  BY FirstIsOne DEF Free
<1>2. fetchContainer => StorageTypeOK'
  BY <1>1, StorageCalls DEF fetchContainer
<1>3. ASSUME NEW w, fetch(w) PROVE StorageTypeOK'
  BY <1>3, StorageCalls DEF fetch, isValidPos
<1> QED BY <1>2, <1>3

-----------------------------------------------------------------------------
(* The rack keeps all types.                                               *)

LEMMA HbwReceiveTypes ==
  ASSUME Types, HbwReceive
  PROVE  StorageTypeOK' /\ PlantOK' /\ MailOK' /\ HbwTypeOK' /\ RackOK'
<1> USE DEF Types
<1>1. PICK m \in Arrived("HBW") :
        /\ Received("HBW")
        /\ \/ m.topic = "ack" /\ requestQuit("HBW") /\ UNCHANGED <<hbwQ, hbwFlag>>
           \/ m.code = "FETCHCONTAINER" /\ requestVGRfetchContainer(m.flow) /\ UNCHANGED <<hbwFlag, quit>>
           \/ m.code = "FETCH_WP" /\ requestVGRfetch(m.flow) /\ UNCHANGED <<hbwFlag, quit>>
           \/ m.code = "STORE_WP" /\ HbwRaise("store") /\ UNCHANGED <<hbwQ, quit>>
           \/ m.code = "STORECONTAINER" /\ HbwRaise("storeContainer") /\ UNCHANGED <<hbwQ, quit>>
           \/ m.code = "RESETSTORAGE" /\ HbwRaise("reset") /\ UNCHANGED <<hbwQ, quit>>
        /\ UNCHANGED <<storage, cell, tray, at, tag, hbw, hbwReq>>
  BY DEF HbwReceive
<1>2. m \in Letters /\ MailOK'
  BY <1>1, ReceiveOK DEF Clients
<1>3. m.flow \in Flows
  BY <1>2 DEF Letters
<1>4. hbwQ' \in Seq(Jobs)
  <2>1. [type |-> "FETCH_CONTAINER", flow |-> m.flow] \in Jobs /\ [type |-> "FETCH_WP", flow |-> m.flow] \in Jobs
    BY <1>3 DEF Jobs
  <2> QED BY <1>1, <2>1 DEF RackOK, requestVGRfetchContainer, requestVGRfetch
<1>5. hbwFlag' \subseteq {"store", "storeContainer", "reset"}
  BY <1>1 DEF HbwTypeOK, HbwRaise
<1>6. PlantOK'
  BY <1>1 DEF PlantOK, requestQuit, QuitStates
<1>7. StorageTypeOK'
  BY <1>1 DEF StorageTypeOK, storage
<1> QED BY <1>1, <1>2, <1>4, <1>5, <1>6, <1>7 DEF HbwTypeOK, RackOK

LEMMA HbwStepTypes ==
  ASSUME Types, HbwStep
  PROVE  StorageTypeOK' /\ PlantOK' /\ MailOK' /\ HbwTypeOK' /\ RackOK'
<1> USE DEF Types
<1>1. StorageTypeOK'
  <2>1. hbwReq.wp \in Workpiece
    BY DEF RackOK, Flows
  <2>2. UNCHANGED storage => StorageTypeOK'
    BY DEF storage, StorageTypeOK
  <2>3. \/ UNCHANGED storage \/ resetStorageState \/ fetchContainer
        \/ (isValidPos(nextFetchPos) /\ store(hbwReq.wp))
        \/ saveBegin \/ saveEnd \/ fetch(hbwReq.wp) \/ storeContainer
    BY DEF HbwStep, HbwInit, HbwFault, HbwIdle, HbwFetchContainer, HbwBringContainer, HbwStoreWp,
           HbwReturnWp, HbwReturns, HbwStored, HbwFetchWp, HbwBringWp, HbwFetched, HbwFetchWpWait,
           HbwStoreContainer, HbwReturnContainer, HbwReturned
  <2> QED BY <2>1, <2>2, <2>3, StorageCalls, FetchesOK
<1>2. MailOK'
  <2>1. hbwReq.wp \in Workpiece /\ hbwReq \in Flows
    BY DEF RackOK, Flows
  <2>2. \/ UNCHANGED mail \/ Publish(HbwAck("FETCHED", hbwReq.wp))
        \/ \E code \in FaultCodes : Publish(HbwFaultMsg(code, hbwReq.wp))
    BY DEF HbwStep, HbwInit, HbwFault, HbwIdle, HbwFetchContainer, HbwBringContainer, HbwStoreWp,
           HbwReturnWp, HbwReturns, HbwStored, HbwFetchWp, HbwBringWp, HbwFetched, HbwFetchWpWait,
           HbwStoreContainer, HbwReturnContainer, HbwReturned, HbwQuiet, HbwTells, HbwFails, FaultCodes
  <2>3. HbwAck("FETCHED", hbwReq.wp) \in Letters
    BY <2>1, Sendings
  <2>4. \A code \in FaultCodes : HbwFaultMsg(code, hbwReq.wp) \in Letters
    BY <2>1, Sendings
  <2> QED BY <2>2, <2>3, <2>4, PostOK DEF MailOK
<1>3. PlantOK'
  <2>1. UNCHANGED <<cell, at, tag>>
    BY DEF HbwStep, HbwInit, HbwFault, HbwIdle, HbwFetchContainer, HbwBringContainer, HbwStoreWp,
           HbwReturnWp, HbwReturns, HbwStored, HbwFetchWp, HbwBringWp, HbwFetched, HbwFetchWpWait,
           HbwStoreContainer, HbwReturnContainer, HbwReturned, HbwKeeps
  <2>2. tray' \in {tray, NoSlot, nextFetchPos}
    BY DEF HbwStep, HbwInit, HbwFault, HbwIdle, HbwFetchContainer, HbwBringContainer, HbwStoreWp,
           HbwReturnWp, HbwReturns, HbwStored, HbwFetchWp, HbwBringWp, HbwFetched, HbwFetchWpWait,
           HbwStoreContainer, HbwReturnContainer, HbwReturned, OnBelt
  <2>3. UNCHANGED quit \/ ClearQuit("HBW") \/ QuitAtFault("HBW")
    BY DEF HbwStep, HbwInit, HbwFault, HbwIdle, HbwFetchContainer, HbwBringContainer, HbwStoreWp,
           HbwReturnWp, HbwReturns, HbwStored, HbwFetchWp, HbwBringWp, HbwFetched, HbwFetchWpWait,
           HbwStoreContainer, HbwReturnContainer, HbwReturned, HbwQuiet, HbwTells, HbwFails
  <2>4. quit' \in [Clients -> QuitStates]
    BY <2>3 DEF PlantOK, ClearQuit, QuitAtFault, QuitStates, Clients
  <2> QED BY <2>1, <2>2, <2>4 DEF PlantOK, StorageTypeOK
<1>4. HbwTypeOK'
  <2>1. hbw' \in HbwStates
    <3>1. hbwQ # <<>> => Head(hbwQ) \in Jobs
      BY DEF RackOK
    <3>2. \A j \in Jobs : j.type \in HbwStates
      BY DEF Jobs, HbwStates
    <3> QED BY <3>1, <3>2 DEF HbwStep, HbwInit, HbwFault, HbwIdle, HbwFetchContainer, HbwBringContainer,
           HbwStoreWp, HbwReturnWp, HbwReturns, HbwStored, HbwFetchWp, HbwBringWp, HbwFetched, HbwFetchWpWait,
           HbwStoreContainer, HbwReturnContainer, HbwReturned, HbwGoto, Begin, HbwFails, HbwTypeOK, HbwStates
  <2>2. hbwFlag' \subseteq hbwFlag
    BY DEF HbwStep, HbwInit, HbwFault, HbwIdle, HbwFetchContainer, HbwBringContainer, HbwStoreWp,
           HbwReturnWp, HbwReturns, HbwStored, HbwFetchWp, HbwBringWp, HbwFetched, HbwFetchWpWait,
           HbwStoreContainer, HbwReturnContainer, HbwReturned
  <2> QED BY <2>1, <2>2 DEF HbwTypeOK
<1>5. RackOK'
  <2>1. hbwQ' \in Seq(Jobs)
    <3>1. hbwQ # <<>> => Tail(hbwQ) \in Seq(Jobs)
      BY DEF RackOK
    <3>2. hbwQ' = hbwQ \/ (hbwQ # <<>> /\ hbwQ' = Tail(hbwQ))
      BY DEF HbwStep, HbwInit, HbwFault, HbwIdle, HbwFetchContainer, HbwBringContainer, HbwStoreWp,
           HbwReturnWp, HbwReturns, HbwStored, HbwFetchWp, HbwBringWp, HbwFetched, HbwFetchWpWait,
           HbwStoreContainer, HbwReturnContainer, HbwReturned, HbwKeeps
    <3> QED BY <3>1, <3>2 DEF RackOK
  <2>2. hbwReq' \in Flows
    <3>1. hbwQ # <<>> => Head(hbwQ).flow \in Flows
      <4>1. hbwQ # <<>> => Head(hbwQ) \in Jobs
        BY DEF RackOK
      <4> QED BY <4>1 DEF Jobs
    <3>2. \/ hbwReq' = hbwReq \/ (hbwQ # <<>> /\ hbwReq' = Head(hbwQ).flow)
          \/ \E s \in Slots : hbwReq' = [hbwReq EXCEPT !.wp = wp[s]]
      BY DEF HbwStep, HbwInit, HbwFault, HbwIdle, HbwFetchContainer, HbwBringContainer, HbwStoreWp,
           HbwReturnWp, HbwReturns, HbwStored, HbwFetchWp, HbwBringWp, HbwFetched, HbwFetchWpWait,
           HbwStoreContainer, HbwReturnContainer, HbwReturned, Begin, isValidPos
    <3> QED BY <3>1, <3>2 DEF RackOK, Flows, StorageTypeOK, Shelf
  <2> QED BY <2>1, <2>2 DEF RackOK
<1> QED BY <1>1, <1>2, <1>3, <1>4, <1>5
-----------------------------------------------------------------------------
(* So does the robot.                                                      *)

LEMMA Rewritten ==
  ASSUME FlowOK
  PROVE  /\ \A s \in OrderStates : OrderIs(s) \in OrderRec
         /\ \A s \in StoreStates : StoreIs(s) \in StoreRec
         /\ \A s \in PickupStates : [flow.pickup EXCEPT !.state = s] \in PickupRec
         /\ Flow(flow.order) \in Flows /\ Flow(flow.store) \in Flows /\ Flow(flow.pickup) \in Flows
         /\ \A u \in Nat : Workflow(u, flow.hbw) \in Flows
         /\ flow.order \in OrderRec /\ flow.store \in StoreRec /\ flow.pickup \in PickupRec
         /\ flow.hbw \in Workpiece /\ flow.seen \in Kinds /\ flow.order.uid \in Nat
BY DEF FlowOK, OrderIs, StoreIs, OrderRec, StoreRec, PickupRec, Flow, Workflow, Flows

\* The marks, stamps and places that an action may set.
LEMMA SetRight ==
  ASSUME RobotOK, PlantOK
  PROVE  /\ \A up \in SUBSET Marks : \A down : Turn(up, down) => raised' \subseteq Marks
         /\ \A stamps \in SUBSET HistoryIndex : \A u :
              Stamp(u, stamps) => hist' \in [Parts -> SUBSET HistoryIndex]
         /\ \A to \in Places : \A from : Move(from, to) => at' \in [Parts -> Places]
         /\ Misread => faults' \in 0 .. MaxFaults
<1>1. ASSUME NEW up \in SUBSET Marks, NEW down, Turn(up, down) PROVE raised' \subseteq Marks
  BY <1>1 DEF Turn, RobotOK
<1>2. ASSUME NEW stamps \in SUBSET HistoryIndex, NEW u, Stamp(u, stamps)
      PROVE  hist' \in [Parts -> SUBSET HistoryIndex]
  BY <1>2 DEF Stamp, RobotOK
<1>3. ASSUME NEW to \in Places, NEW from, Move(from, to) PROVE at' \in [Parts -> Places]
  BY <1>3 DEF Move, PlantOK
<1>4. Misread => faults' \in 0 .. MaxFaults
  BY TxtConstants DEF Misread, RobotOK
<1> QED BY <1>1, <1>2, <1>3, <1>4

\* The queues of requests: one more, or one less.
LEMMA Queues ==
  ASSUME WaitOK
  PROVE  /\ \A o \in OrderRec : Append(wait.orders, o) \in Seq(OrderRec)
                              /\ Append(wait.sorted, o) \in Seq(OrderRec)
         /\ \A o \in PickupRec : Append(wait.pickups, o) \in Seq(PickupRec)
         /\ \A o \in StoreRec : Append(wait.stores, o) \in Seq(StoreRec)
         /\ wait.orders # <<>> => Head(wait.orders) \in OrderRec /\ Tail(wait.orders) \in Seq(OrderRec)
         /\ wait.sorted # <<>> => Head(wait.sorted) \in OrderRec /\ Tail(wait.sorted) \in Seq(OrderRec)
         /\ wait.pickups # <<>> => Head(wait.pickups) \in PickupRec /\ Tail(wait.pickups) \in Seq(PickupRec)
         /\ wait.stores # <<>> => Head(wait.stores) \in StoreRec /\ Tail(wait.stores) \in Seq(StoreRec)
         /\ \A q \in Seq(OrderRec) : wait' = [wait EXCEPT !.orders = q] => WaitOK'
         /\ \A q \in Seq(OrderRec) : wait' = [wait EXCEPT !.sorted = q] => WaitOK'
         /\ \A q \in Seq(PickupRec) : wait' = [wait EXCEPT !.pickups = q] => WaitOK'
         /\ \A q \in Seq(StoreRec) : wait' = [wait EXCEPT !.stores = q] => WaitOK'
<1>1. /\ wait.orders \in Seq(OrderRec) /\ wait.sorted \in Seq(OrderRec)
      /\ wait.pickups \in Seq(PickupRec) /\ wait.stores \in Seq(StoreRec)
  BY DEF WaitOK
<1>2. /\ \A o \in OrderRec : Append(wait.orders, o) \in Seq(OrderRec)
                           /\ Append(wait.sorted, o) \in Seq(OrderRec)
      /\ \A o \in PickupRec : Append(wait.pickups, o) \in Seq(PickupRec)
      /\ \A o \in StoreRec : Append(wait.stores, o) \in Seq(StoreRec)
  BY <1>1
<1>3. /\ wait.orders # <<>> => Head(wait.orders) \in OrderRec /\ Tail(wait.orders) \in Seq(OrderRec)
      /\ wait.sorted # <<>> => Head(wait.sorted) \in OrderRec /\ Tail(wait.sorted) \in Seq(OrderRec)
      /\ wait.pickups # <<>> => Head(wait.pickups) \in PickupRec /\ Tail(wait.pickups) \in Seq(PickupRec)
      /\ wait.stores # <<>> => Head(wait.stores) \in StoreRec /\ Tail(wait.stores) \in Seq(StoreRec)
  BY <1>1
<1>4. /\ \A q \in Seq(OrderRec) : wait' = [wait EXCEPT !.orders = q] => WaitOK'
      /\ \A q \in Seq(OrderRec) : wait' = [wait EXCEPT !.sorted = q] => WaitOK'
      /\ \A q \in Seq(PickupRec) : wait' = [wait EXCEPT !.pickups = q] => WaitOK'
      /\ \A q \in Seq(StoreRec) : wait' = [wait EXCEPT !.stores = q] => WaitOK'
  BY DEF WaitOK
<1> QED BY <1>2, <1>3, <1>4

LEMMA VgrReceiveTypes ==
  ASSUME Types, VgrReceive
  PROVE  RobotOK' /\ PlantOK' /\ MailOK'
<1> USE DEF Types
<1>1. PICK m \in Arrived("VGR") :
        /\ Received("VGR")
        /\ \/ m.topic = "ack" /\ requestQuit("VGR") /\ UNCHANGED <<flow, wait, raised, mode, asked>>
           \/ m.topic = "order" /\ requestOrder(m.code) /\ UNCHANGED <<quit, flow, mode>>
           \/ m.topic = "pickup" /\ requestPickup(m.flow.wp.uid) /\ UNCHANGED <<quit, flow, mode>>
           \/ m.topic = "store" /\ storeWorkpieceFromDSOIntoHBW /\ UNCHANGED <<quit, flow, mode>>
           \/ m.topic = "wm" /\ requestWorkingModeChange(m.code) /\ UNCHANGED <<quit, flow, wait>>
           \/ m.topic = "mpo/ack" /\ Turn({"mpoStarted"}, {}) /\ UNCHANGED <<quit, flow, wait, mode, asked>>
           \/ m.topic = "mpo/fault" /\ requestMPOfault(m.flow) /\ UNCHANGED <<quit, wait, mode, asked>>
           \/ m.topic = "hbw/ack" /\ requestHBWfetched(m.flow.wp) /\ UNCHANGED <<quit, wait, mode, asked>>
           \/ m.topic = "hbw/fault" /\ Turn({"hbwFault"}, {}) /\ UNCHANGED <<quit, flow, wait, mode, asked>>
           \/ m.topic = "sld/ack" /\ requestSLDsorted(m.flow) /\ UNCHANGED <<quit, flow, mode, asked>>
           \/ m.topic = "sld/fault" /\ requestSLDfault(m.flow) /\ UNCHANGED <<quit, wait, mode, asked>>
        /\ UNCHANGED <<vgr, hist, board, faults>> /\ UNCHANGED <<cell, at, tag>> /\ UNCHANGED tray
  BY DEF VgrReceive, Handless, Elsewhere
<1>2. m \in Letters /\ MailOK'
  BY <1>1, ReceiveOK DEF Clients
<1>3. m.flow \in Flows /\ m.flow.wp \in Workpiece /\ m.flow.uid \in Nat /\ m.flow.wp.uid \in Parts \cup {NoUid}
      /\ (m.topic = "order" => m.code \in Kinds) /\ (m.topic = "wm" => m.code \in Modes)
  BY <1>2 DEF Letters, Flows, Workpiece
<1>4. raised' \subseteq Marks
  <2>1. raised' \subseteq raised \cup Marks
    BY <1>1 DEF Turn, requestOrder, requestPickup, storeWorkpieceFromDSOIntoHBW, requestWorkingModeChange,
           requestMPOfault, requestSLDfault, requestFault, requestHBWfetched, requestSLDsorted, Marks, HeadMarks
  <2> QED BY <2>1 DEF RobotOK
<1>5. asked' \in Seq(Wishes)
  <2>1. \/ asked' = asked
        \/ \E r \in Wishes : asked' = Append(asked, r)
    BY <1>1, <1>3 DEF requestOrder, requestPickup, storeWorkpieceFromDSOIntoHBW, requestWorkingModeChange,
           Asked, Wishes, requestSLDsorted
  <2> QED BY <2>1 DEF RobotOK
<1>6. FlowOK'
  <2>1. \/ flow' = flow \/ (\E o \in OrderRec : flow' = [flow EXCEPT !.order = o])
        \/ (\E w \in Workpiece : flow' = [flow EXCEPT !.hbw = w])
    <3>1. OrderState(m.flow.uid, m.flow.wp, "WAITING_FOR_ORDER") \in OrderRec
      BY <1>3 DEF OrderState, OrderRec, OrderStates
    <3> QED BY <1>1, <1>3, <3>1 DEF requestOrder, requestPickup, storeWorkpieceFromDSOIntoHBW,
           requestWorkingModeChange, requestMPOfault, requestSLDfault, requestFault, requestHBWfetched
  <2> QED BY <2>1 DEF RobotOK, FlowOK
<1>7. WaitOK'
  <2>1. Len(asked) + 1 \in Nat
    BY DEF RobotOK
  <2>2. CASE UNCHANGED wait
    BY <2>2 DEF RobotOK, WaitOK
  <2>3. CASE m.topic = "order" /\ requestOrder(m.code)
    <3>1. OrderState(Len(asked) + 1, Wp(NoUid, m.code, "RAW"), "ORDER_ACKNOWLEDGED") \in OrderRec
      BY <1>3, <2>1, <2>3, Makings DEF OrderState, OrderRec, OrderStates
    <3> QED BY <2>3, <3>1, Queues DEF requestOrder, RobotOK
  <2>4. CASE requestPickup(m.flow.wp.uid)
    <3>1. OrderState(0, Wp(m.flow.wp.uid, "NONE", "NONE"), "PICKUP_ACKNOWLEDGED") \in PickupRec
      BY <1>3, Makings DEF OrderState, PickupRec, PickupStates, Kinds
    <3> QED BY <2>4, <3>1, Queues DEF requestPickup, RobotOK
  <2>5. CASE storeWorkpieceFromDSOIntoHBW
    <3>1. OrderState(0, EmptyWp, "STORE_ACKNOWLEDGED") \in StoreRec
      BY Makings DEF OrderState, StoreRec, StoreStates
    <3> QED BY <2>5, <3>1, Queues DEF storeWorkpieceFromDSOIntoHBW, RobotOK
  <2>6. CASE requestSLDsorted(m.flow)
    <3>1. OrderState(m.flow.uid, m.flow.wp, "WAITING_FOR_ORDER") \in OrderRec
      BY <1>3 DEF OrderState, OrderRec, OrderStates
    <3>2. /\ WaitOK
          /\ \/ wait' = [wait EXCEPT !.sorted = wait.sorted]
             \/ wait' = [wait EXCEPT !.sorted = Append(wait.sorted, OrderState(m.flow.uid, m.flow.wp, "WAITING_FOR_ORDER"))]
      BY <2>6 DEF requestSLDsorted, RobotOK
    <3>3. wait.sorted \in Seq(OrderRec)
      BY <3>2 DEF WaitOK
    <3> QED BY <3>1, <3>2, <3>3, Queues
  <2> QED BY <1>1, <2>2, <2>3, <2>4, <2>5, <2>6
<1>8. mode' \in [now : Modes, wanted : Modes \cup {"UNDEFINED"}]
  <2>1. mode' = mode \/ \E wm \in Modes : mode' = [mode EXCEPT !.wanted = wm]
    BY <1>1, <1>3 DEF requestWorkingModeChange, requestOrder, requestPickup, storeWorkpieceFromDSOIntoHBW,
         requestSLDsorted
  <2> QED BY <2>1 DEF RobotOK
<1>9. PlantOK'
  BY <1>1 DEF PlantOK, requestQuit, QuitStates
<1>10. BoardOK'
  BY <1>1 DEF RobotOK, BoardOK
<1> QED BY <1>1, <1>2, <1>4, <1>5, <1>6, <1>7, <1>8, <1>9, <1>10 DEF RobotOK
-----------------------------------------------------------------------------
\* A step of the robot, one variable after the other.
LEMMA VgrStepParts ==
  ASSUME VgrStep
  PROVE  /\ UNCHANGED <<storage, hbwVars, tray, asked>>
         /\ raised' \subseteq raised \cup Marks
         /\ vgr' = vgr \/ vgr' \in VgrStates
         /\ UNCHANGED mode \/ VgrMode
         /\ UNCHANGED faults \/ Misread
         /\ UNCHANGED quit \/ ClearQuit("VGR") \/ QuitAtFault("VGR")
<1> USE DEF VgrStep, VgrHead, VgrInit, EnterIdle, EnterFault, VgrFault, IdleFault, IdleSorted, IdleDelivery,
        IdleOrder, IdlePickup, IdleStore, IdleErrors, FetchWpVgrOrder, VgrWaitFetched,
        MoveVgr2Mpo, ReleaseMpo, StartProduce, NfcProduced, MovePickupWait, MovePickup,
        DsiPickupDelivery, Pickup2Delivery, StoreFromDso, StartDelivery, ColorDetection,
        NfcRaw, NfcRejected, WrongColor, RecycleTrash, StoreWpVgr, StoreWp, OrderWp,
        FetchWpVgrPickup, VgrWaitFetchedPickup, Hbw2Pickup
<1>1. UNCHANGED mode \/ VgrMode
  BY DEF VgrMode, Desk
<1>2. UNCHANGED <<storage, hbwVars, tray, asked>>
  BY DEF VgrMode, Elsewhere, Desk, hbwVars
<1>3. raised' \subseteq raised \cup Marks
  BY DEF VgrMode, Turn, Marks, HeadMarks
<1>4. vgr' = vgr \/ vgr' \in VgrStates
  BY DEF VgrMode, Goto, VgrStates
<1>5. UNCHANGED faults \/ Misread
  BY DEF VgrMode
<1>6. UNCHANGED quit \/ ClearQuit("VGR") \/ QuitAtFault("VGR")
  BY DEF VgrMode, Calm
<1> QED BY <1>1, <1>2, <1>3, <1>4, <1>5, <1>6

\* What it tells, and whom it stamps.
LEMMA VgrTells ==
  ASSUME VgrStep
  PROVE  \/ UNCHANGED mail
         \/ \E code \in {"FETCH_WP", "PRODUCE"} : Publish(VgrDo(code, Flow(flow.order)))
         \/ Publish(VgrDo("STORECONTAINER", Workflow(flow.order.uid, flow.hbw)))
         \/ Publish(VgrDo("STORECONTAINER", Workflow(0, flow.hbw)))
         \/ Publish(VgrDo("STORE_WP", Workflow(0, flow.hbw)))
         \/ Publish(VgrDo("FETCHCONTAINER", Flow(flow.store)))
         \/ Publish(VgrDo("FETCH_WP", Flow(flow.pickup)))
         \/ Publish(OrderMsg(flow.store.wp.type))
BY DEF VgrStep, VgrHead, VgrMode, VgrInit, EnterIdle, EnterFault, VgrFault, IdleFault, IdleSorted,
       IdleDelivery, IdleOrder, IdlePickup, IdleStore, IdleErrors, FetchWpVgrOrder,
       VgrWaitFetched, MoveVgr2Mpo, ReleaseMpo, StartProduce, NfcProduced, MovePickupWait,
       MovePickup, DsiPickupDelivery, Pickup2Delivery, StoreFromDso, StartDelivery,
       ColorDetection, NfcRaw, NfcRejected, WrongColor, RecycleTrash, StoreWpVgr, StoreWp,
       OrderWp, FetchWpVgrPickup, VgrWaitFetchedPickup, Hbw2Pickup,
       In, Calm

\* What NFC_PRODUCED does with the workpiece in the bay.
LEMMA NfcTakes ==
  ASSUME NfcProduced
  PROVE  /\ \/ ReportOrder(OrderIs("WAITING_FOR_QA"))
            \/ \E p \in Held(Bay(flow.order.wp.type)), s \in {"QA_FAULT", "WAITING_FOR_QA"} :
                 ReportOrder([flow.order EXCEPT !.state = s, !.wp.uid = p])
         /\ UNCHANGED at \/ \E p \in Held(Bay(flow.order.wp.type)) : at' = [at EXCEPT ![p] = "gripper"]
         /\ \/ UNCHANGED tag
            \/ \E p \in Parts : tag' = [tag EXCEPT ![p] = [type |-> flow.order.wp.type, state |-> "PROCESSED"]]
         /\ \E u, v : hist' \in {hist, [hist EXCEPT ![u] = @ \cup {"SORTING"}],
                               [hist EXCEPT ![v] = @ \cup {"SHIPPING"}],
                               [[hist EXCEPT ![u] = @ \cup {"SORTING"}] EXCEPT ![v] = @ \cup {"SHIPPING"}]}
<1> DEFINE ordered == flow.order.wp.uid
           bay == Held(Bay(flow.order.wp.type))
           p == IF ordered \in bay THEN ordered ELSE CHOOSE q \in bay : TRUE
<1>1. bay # {} => p \in bay /\ p \in Parts
  BY DEF Held
<1>2. \/ ReportOrder(OrderIs("WAITING_FOR_QA"))
      \/ bay # {} /\ \E s \in {"QA_FAULT", "WAITING_FOR_QA"} :
                        ReportOrder([flow.order EXCEPT !.state = s, !.wp.uid = p])
  BY DEF NfcProduced
<1>3. UNCHANGED at \/ (bay # {} /\ at' = [at EXCEPT ![p] = "gripper"])
  BY DEF NfcProduced
<1>4. \/ UNCHANGED tag
      \/ bay # {} /\ tag' = [tag EXCEPT ![p] = [type |-> flow.order.wp.type, state |-> "PROCESSED"]]
  BY DEF NfcProduced
<1>5. hist' \in {hist, [hist EXCEPT ![ordered] = @ \cup {"SORTING"}],
                [hist EXCEPT ![p] = @ \cup {"SHIPPING"}],
                [[hist EXCEPT ![ordered] = @ \cup {"SORTING"}] EXCEPT ![p] = @ \cup {"SHIPPING"}]}
  BY DEF NfcProduced
<1> HIDE DEF ordered, p
<1> QED BY <1>1, <1>2, <1>3, <1>4, <1>5

LEMMA ReadIsPart == ReadUID = NoUid \/ (ReadUID \in Parts /\ ReadUID \in Held("gripper"))
BY DEF ReadUID, Held

LEMMA VgrStepTypes ==
  ASSUME Types, VgrStep,
         vgr = "COLOR_DETECTION" => flow.store.wp.uid \in Parts,
         vgr = "STORE_WP" => Held("gripper") # {}
  PROVE  RobotOK' /\ PlantOK' /\ MailOK'
<1> USE DEF Types
<1>p. RobotOK /\ PlantOK /\ FlowOK /\ WaitOK /\ BoardOK /\ MailOK
  BY DEF RobotOK
<1>1. MailOK'
  <2>1. /\ \A code \in {"FETCH_WP", "PRODUCE"} : VgrDo(code, Flow(flow.order)) \in Letters
        /\ VgrDo("STORECONTAINER", Workflow(flow.order.uid, flow.hbw)) \in Letters
        /\ VgrDo("STORECONTAINER", Workflow(0, flow.hbw)) \in Letters
        /\ VgrDo("STORE_WP", Workflow(0, flow.hbw)) \in Letters
        /\ VgrDo("FETCHCONTAINER", Flow(flow.store)) \in Letters
        /\ VgrDo("FETCH_WP", Flow(flow.pickup)) \in Letters
    BY <1>p, Rewritten, Sendings DEF RackCodes, ReqCodes
  <2>2. OrderMsg(flow.store.wp.type) \in Letters
    <3>1. flow.store.wp.type \in Kinds
      BY <1>p DEF FlowOK, StoreRec, Workpiece, Kinds
    <3> QED BY <3>1, Sendings
  <2> QED BY <1>p, <2>1, <2>2, VgrTells, PostOK DEF MailOK
<1>2. FlowOK' /\ BoardOK'
  <2>1. CASE UNCHANGED <<flow, board>>
    BY <1>p, <2>1 DEF FlowOK, BoardOK
  <2>2. CASE \E o \in OrderRec : ReportOrder(o)
    BY <1>p, <2>2, Reports
  <2>3. CASE \E o \in PickupRec : SetPickup(o)
    BY <1>p, <2>3, Reports
  <2>4. CASE \E o \in StoreRec : SetStore(o)
    BY <1>p, <2>4, Reports
  <2>5. CASE VgrHead
    <3>1. FlowOK'
      BY <1>p, <2>5 DEF VgrHead, FlowOK
    <3>2. \A u : Show(u, "ORDER_ACKNOWLEDGED") \in [1 .. MaxRequests -> OrderStates]
      BY <1>p DEF Show, BoardOK, OrderStates
    <3>3. board' = board \/ \E u : board' = Show(u, "ORDER_ACKNOWLEDGED")
      BY <2>5 DEF VgrHead
    <3> QED BY <1>p, <3>1, <3>2, <3>3 DEF BoardOK
  <2>6. CASE EnterIdle
    BY <1>p, <2>6, Makings DEF EnterIdle, FlowOK, BoardOK
  <2>7. CASE ColorDetection
    <3>1. ColourOf[flow.store.wp.uid] \in Kinds
      BY <2>7, TxtConstants DEF ColorDetection, In, Kinds
    <3>2. \/ \E c \in Kinds : flow' = [flow EXCEPT !.store.wp.type = c, !.store.state = "IDENTIFICATION", !.seen = c]
          \/ flow' = [flow EXCEPT !.store.state = "IDENTIFICATION", !.seen = "NONE"]
      BY <2>7, <3>1 DEF ColorDetection
    <3>3. \A c \in Kinds : [flow.store EXCEPT !.wp.type = c, !.state = "IDENTIFICATION"] \in StoreRec
      BY <1>p, Rewritten DEF StoreRec, Workpiece, Kinds, StoreStates
    <3>4. StoreIs("IDENTIFICATION") \in StoreRec /\ "NONE" \in Kinds
      BY <1>p, Rewritten DEF StoreStates, Kinds
    <3>5. \E r \in StoreRec, c \in Kinds : flow' = [flow EXCEPT !.store = r, !.seen = c]
      <4>1. CASE flow' = [flow EXCEPT !.store.state = "IDENTIFICATION", !.seen = "NONE"]
        <5>1. flow' = [flow EXCEPT !.store = StoreIs("IDENTIFICATION"), !.seen = "NONE"]
          BY <1>p, <4>1 DEF FlowOK, StoreIs
        <5> QED BY <3>4, <5>1
      <4>2. ASSUME NEW c \in Kinds,
                   flow' = [flow EXCEPT !.store.wp.type = c, !.store.state = "IDENTIFICATION", !.seen = c]
            PROVE  \E r \in StoreRec, d \in Kinds : flow' = [flow EXCEPT !.store = r, !.seen = d]
        <5> DEFINE r == [flow.store EXCEPT !.wp.type = c, !.state = "IDENTIFICATION"]
        <5>1. flow' = [flow EXCEPT !.store = r, !.seen = c]
          BY <1>p, <4>2 DEF FlowOK
        <5>2. r \in StoreRec
          BY <3>3
        <5> HIDE DEF r
        <5> QED BY <5>1, <5>2
      <4> QED BY <3>2, <4>1, <4>2
    <3>6. FlowOK'
      BY <1>p, <3>5 DEF FlowOK
    <3>7. UNCHANGED board
      BY <2>7 DEF ColorDetection
    <3> QED BY <1>p, <3>6, <3>7 DEF BoardOK
  <2>8. CASE VgrMode \/ VgrInit \/ EnterFault \/ VgrFault \/ IdleDelivery \/ IdleErrors \/ FetchWpVgrOrder
             \/ ReleaseMpo \/ DsiPickupDelivery \/ Pickup2Delivery \/ WrongColor \/ RecycleTrash \/ OrderWp
    BY <2>1, <2>8 DEF VgrMode, VgrInit, EnterFault, VgrFault, IdleDelivery, IdleErrors, FetchWpVgrOrder,
         ReleaseMpo, DsiPickupDelivery, Pickup2Delivery, WrongColor, RecycleTrash, OrderWp
  <2>9. CASE IdleFault \/ MoveVgr2Mpo \/ StartProduce \/ MovePickupWait \/ MovePickup
    <3>1. \E s \in OrderStates : ReportOrder(OrderIs(s))
      BY <2>9 DEF IdleFault, MoveVgr2Mpo, StartProduce, MovePickupWait, MovePickup, OrderStates
    <3> QED BY <1>p, <2>2, <3>1, Rewritten
  <2>10. CASE IdleSorted \/ IdleOrder
    <3>1. \E o \in OrderRec, s \in OrderStates : ReportOrder([o EXCEPT !.state = s])
      BY <1>p, <2>10, Queues DEF IdleSorted, SortedPending, IdleOrder, OrderStates
    <3>2. \A o \in OrderRec, s \in OrderStates : [o EXCEPT !.state = s] \in OrderRec
      BY DEF OrderRec
    <3> QED BY <2>2, <3>1, <3>2
  <2>11. CASE IdlePickup \/ FetchWpVgrPickup \/ Hbw2Pickup
    <3>1. \E o \in PickupRec, s \in PickupStates : SetPickup([o EXCEPT !.state = s])
      BY <1>p, <2>11, Queues, Rewritten DEF IdlePickup, PickupDue, FetchWpVgrPickup, Hbw2Pickup, PickupStates
    <3>2. \A o \in PickupRec, s \in PickupStates : [o EXCEPT !.state = s] \in PickupRec
      BY DEF PickupRec
    <3> QED BY <2>3, <3>1, <3>2
  <2>12. CASE IdleStore
    <3>1. \E o \in StoreRec, s \in StoreStates : SetStore([o EXCEPT !.state = s])
      BY <1>p, <2>12, Queues DEF IdleStore, StoreDue, StoreStates
    <3>2. \A o \in StoreRec, s \in StoreStates : [o EXCEPT !.state = s] \in StoreRec
      BY DEF StoreRec
    <3> QED BY <2>4, <3>1, <3>2
  <2>13. CASE VgrWaitFetched
    <3>1. \/ ReportOrder(OrderState(flow.order.uid, flow.hbw, "FETCHED_FROM_STORAGE"))
          \/ ReportOrder(OrderIs("ORDER_FAULT"))
      BY <2>13 DEF VgrWaitFetched
    <3>2. OrderState(flow.order.uid, flow.hbw, "FETCHED_FROM_STORAGE") \in OrderRec
      BY <1>p, Rewritten DEF OrderState, OrderRec, OrderStates
    <3>3. OrderIs("ORDER_FAULT") \in OrderRec
      BY <1>p, Rewritten DEF OrderStates
    <3> QED BY <2>2, <3>1, <3>2, <3>3
  <2>14. CASE NfcProduced
    <3>1. \/ \E s \in OrderStates : ReportOrder(OrderIs(s))
          \/ \E u \in Parts, s \in OrderStates : ReportOrder([flow.order EXCEPT !.state = s, !.wp.uid = u])
      BY <2>14, NfcTakes DEF OrderStates, Held
    <3>2. \A s \in OrderStates : OrderIs(s) \in OrderRec
      BY <1>p, Rewritten
    <3>3. \A u \in Parts, s \in OrderStates : [flow.order EXCEPT !.state = s, !.wp.uid = u] \in OrderRec
      BY <1>p, Rewritten DEF OrderRec, Workpiece
    <3> QED BY <2>2, <3>1, <3>2, <3>3
  <2>15. CASE StoreFromDso \/ NfcRejected
    <3>1. UNCHANGED <<flow, board>> \/ \E s \in StoreStates : SetStore(StoreIs(s))
      BY <2>15 DEF StoreFromDso, NfcRejected, StoreStates
    <3> QED BY <1>p, <2>1, <2>4, <3>1, Rewritten
  <2>16. CASE StartDelivery
    <3>1. \/ SetStore([NoStore EXCEPT !.state = "BAD_WORKPIECE"])
          \/ ReadUID \in Parts /\ SetStore(With([NoStore EXCEPT !.state = "STORE_ACKNOWLEDGED"],
                                    Wp(ReadUID, tag[ReadUID].type, tag[ReadUID].state)))
      BY <2>16, ReadIsPart DEF StartDelivery
    <3>2. [NoStore EXCEPT !.state = "BAD_WORKPIECE"] \in StoreRec
      BY Makings DEF StoreRec, StoreStates
    <3>3. ASSUME NEW p \in Parts
          PROVE  With([NoStore EXCEPT !.state = "STORE_ACKNOWLEDGED"], Wp(p, tag[p].type, tag[p].state)) \in StoreRec
      <4>1. Wp(p, tag[p].type, tag[p].state) \in Workpiece
        BY <1>p, Makings DEF PlantOK, Tags, Kinds
      <4> QED BY <4>1, Makings DEF With, StoreRec, StoreStates
    <3> QED BY <2>4, <3>1, <3>2, <3>3
  <2>17. CASE NfcRaw
    <3>1. UNCHANGED <<flow, board>> \/ SetStore([flow.store EXCEPT !.wp.state = "RAW"])
      BY <2>17 DEF NfcRaw
    <3>2. [flow.store EXCEPT !.wp.state = "RAW"] \in StoreRec
      BY <1>p, Rewritten DEF StoreRec, Workpiece
    <3> QED BY <2>1, <2>4, <3>1, <3>2
  <2>18. CASE StoreWpVgr
    <3>1. SetStore(StoreIs("STORING")) \/ SetStore([StoreIs("STORING") EXCEPT !.wp.type = flow.seen])
      BY <2>18 DEF StoreWpVgr
    <3>2. StoreIs("STORING") \in StoreRec
      BY <1>p, Rewritten DEF StoreStates
    <3>3. [StoreIs("STORING") EXCEPT !.wp.type = flow.seen] \in StoreRec
      BY <1>p, <3>2, Rewritten DEF StoreRec, Workpiece, Kinds
    <3> QED BY <2>4, <3>1, <3>2, <3>3
  <2>19. CASE StoreWp
    <3>1. \/ SetStore(StoreIs("STORE_FAULT"))
          \/ SetStore(With([flow.store EXCEPT !.state = "STORE_DONE"], flow.hbw))
      BY <2>19 DEF StoreWp
    <3>2. StoreIs("STORE_FAULT") \in StoreRec
      BY <1>p, Rewritten DEF StoreStates
    <3>3. With([flow.store EXCEPT !.state = "STORE_DONE"], flow.hbw) \in StoreRec
      BY <1>p, Rewritten DEF With, StoreRec, StoreStates
    <3> QED BY <2>4, <3>1, <3>2, <3>3
  <2>20. CASE VgrWaitFetchedPickup
    <3>1. \/ SetPickup(With(flow.pickup, flow.hbw))
          \/ SetPickup([flow.pickup EXCEPT !.state = "PICKUP_FAULT"])
      BY <2>20 DEF VgrWaitFetchedPickup
    <3>2. [flow.pickup EXCEPT !.state = "PICKUP_FAULT"] \in PickupRec
      BY <1>p, Rewritten DEF PickupStates
    <3>3. With(flow.pickup, flow.hbw) \in PickupRec
      BY <1>p, Rewritten DEF With, PickupRec
    <3> QED BY <2>3, <3>1, <3>2, <3>3
  <2> QED BY <2>5, <2>6, <2>7, <2>8, <2>9, <2>10, <2>11, <2>12, <2>13, <2>14, <2>15, <2>16, <2>17,
             <2>18, <2>19, <2>20 DEF VgrStep
<1>3. WaitOK'
  <2>1. \/ UNCHANGED wait
        \/ wait.sorted # <<>> /\ wait' = [wait EXCEPT !.sorted = Tail(@)]
        \/ wait.orders # <<>> /\ wait' = [wait EXCEPT !.orders = Tail(@)]
        \/ wait.pickups # <<>> /\ wait' = [wait EXCEPT !.pickups = Tail(@)]
        \/ wait.stores # <<>> /\ wait' = [wait EXCEPT !.stores = Tail(@)]
    BY DEF VgrStep, VgrHead, VgrMode, VgrInit, EnterIdle, EnterFault, VgrFault, IdleFault, IdleSorted,
       IdleDelivery, IdleOrder, IdlePickup, IdleStore, IdleErrors, FetchWpVgrOrder,
       VgrWaitFetched, MoveVgr2Mpo, ReleaseMpo, StartProduce, NfcProduced, MovePickupWait,
       MovePickup, DsiPickupDelivery, Pickup2Delivery, StoreFromDso, StartDelivery,
       ColorDetection, NfcRaw, NfcRejected, WrongColor, RecycleTrash, StoreWpVgr, StoreWp,
       OrderWp, FetchWpVgrPickup, VgrWaitFetchedPickup, Hbw2Pickup,
       Desk, SortedPending, PickupDue, StoreDue
  <2> QED BY <1>p, <2>1, Queues DEF WaitOK
<1>4. hist' \in [Parts -> SUBSET HistoryIndex]
  <2>1. \/ UNCHANGED hist \/ NfcProduced
        \/ \E u : \/ Stamp(u, {"OUTSOURCING"}) \/ Stamp(u, {"PROCESSING_OVEN"})
                 \/ Stamp(u, {"INSPECTION"}) \/ Stamp(u, {"WAREHOUSING"})
        \/ hist' = [hist EXCEPT ![ReadUID] = {"DELIVERY_RAW"}]
        \/ hist' = [hist EXCEPT ![ReadUID] = {}]
    BY DEF VgrStep, VgrHead, VgrMode, VgrInit, EnterIdle, EnterFault, VgrFault, IdleFault, IdleSorted,
       IdleDelivery, IdleOrder, IdlePickup, IdleStore, IdleErrors, FetchWpVgrOrder,
       VgrWaitFetched, MoveVgr2Mpo, ReleaseMpo, StartProduce, MovePickupWait, MovePickup,
       DsiPickupDelivery, Pickup2Delivery, StoreFromDso, StartDelivery, ColorDetection,
       NfcRaw, NfcRejected, WrongColor, RecycleTrash, StoreWpVgr, StoreWp, OrderWp,
       FetchWpVgrPickup, VgrWaitFetchedPickup, Hbw2Pickup
  <2>2. CASE NfcProduced
    <3>1. \A h \in [Parts -> SUBSET HistoryIndex], stamps \in SUBSET HistoryIndex : \A u :
             [h EXCEPT ![u] = @ \cup stamps] \in [Parts -> SUBSET HistoryIndex]
      OBVIOUS
    <3>2. {"SORTING"} \in SUBSET HistoryIndex /\ {"SHIPPING"} \in SUBSET HistoryIndex
      BY DEF HistoryIndex
    <3>3. hist \in [Parts -> SUBSET HistoryIndex]
      BY <1>p DEF RobotOK
    <3>4. PICK u, v : hist' \in {hist, [hist EXCEPT ![u] = @ \cup {"SORTING"}],
                               [hist EXCEPT ![v] = @ \cup {"SHIPPING"}],
                               [[hist EXCEPT ![u] = @ \cup {"SORTING"}] EXCEPT ![v] = @ \cup {"SHIPPING"}]}
      BY <2>2, NfcTakes
    <3> QED BY <3>1, <3>2, <3>3, <3>4
  <2>3. \A stamps \in SUBSET HistoryIndex : \A u : Stamp(u, stamps) => hist' \in [Parts -> SUBSET HistoryIndex]
    BY <1>p DEF Stamp, RobotOK
  <2> QED BY <1>p, <2>1, <2>2, <2>3 DEF RobotOK, HistoryIndex
<1>5. PlantOK'
  <2>1. quit' \in [Clients -> QuitStates]
    BY <1>p, VgrStepParts DEF PlantOK, ClearQuit, QuitAtFault, QuitStates
  <2>2. tray' = tray
    BY VgrStepParts
  <2>3. at' \in [Parts -> Places]
    <3>1. \/ UNCHANGED at \/ TakeFromTray \/ NfcProduced
          \/ \E from, to \in Places : Move(from, to)
      BY DEF VgrStep, VgrHead, VgrMode, VgrInit, EnterIdle, EnterFault, VgrFault, IdleFault, IdleSorted,
       IdleDelivery, IdleOrder, IdlePickup, IdleStore, IdleErrors, FetchWpVgrOrder,
       VgrWaitFetched, MoveVgr2Mpo, ReleaseMpo, StartProduce, MovePickupWait, MovePickup,
       DsiPickupDelivery, Pickup2Delivery, StoreFromDso, StartDelivery, ColorDetection,
       NfcRaw, NfcRejected, WrongColor, RecycleTrash, StoreWpVgr, StoreWp, OrderWp,
       FetchWpVgrPickup, VgrWaitFetchedPickup, Hbw2Pickup,
       Handless, Drops, PutOnTray, Places
    <3>2. CASE NfcProduced
      BY <1>p, <3>2, NfcTakes DEF PlantOK, Places
    <3> QED BY <1>p, <3>1, <3>2, SetRight DEF TakeFromTray, PlantOK, Places
  <2>4. cell' \in [Slots -> Parts \cup {NoUid}]
    <3>1. UNCHANGED cell \/ TakeFromTray \/ (vgr = "STORE_WP" /\ PutOnTray)
      BY DEF VgrStep, VgrHead, VgrMode, VgrInit, EnterIdle, EnterFault, VgrFault, IdleFault, IdleSorted,
       IdleDelivery, IdleOrder, IdlePickup, IdleStore, IdleErrors, FetchWpVgrOrder,
       VgrWaitFetched, MoveVgr2Mpo, ReleaseMpo, StartProduce, NfcProduced, MovePickupWait,
       MovePickup, DsiPickupDelivery, Pickup2Delivery, StoreFromDso, StartDelivery,
       ColorDetection, NfcRaw, NfcRejected, WrongColor, RecycleTrash, StoreWpVgr, StoreWp,
       OrderWp, FetchWpVgrPickup, VgrWaitFetchedPickup, Hbw2Pickup,
       In, Handless
    <3>2. Held("gripper") # {} => (CHOOSE p \in Held("gripper") : TRUE) \in Parts
      BY DEF Held
    <3> QED BY <1>p, <3>1, <3>2 DEF TakeFromTray, PutOnTray, PlantOK
  <2>5. tag' \in [Parts -> Tags]
    <3>1. UNCHANGED tag \/ NfcProduced \/ Written(flow.store.wp.type, "RAW") \/ Written("NONE", "REJECTED")
      BY DEF VgrStep, VgrHead, VgrMode, VgrInit, EnterIdle, EnterFault, VgrFault, IdleFault, IdleSorted,
       IdleDelivery, IdleOrder, IdlePickup, IdleStore, IdleErrors, FetchWpVgrOrder,
       VgrWaitFetched, MoveVgr2Mpo, ReleaseMpo, StartProduce, MovePickupWait, MovePickup,
       DsiPickupDelivery, Pickup2Delivery, StoreFromDso, StartDelivery, ColorDetection,
       NfcRaw, NfcRejected, WrongColor, RecycleTrash, StoreWpVgr, StoreWp, OrderWp,
       FetchWpVgrPickup, VgrWaitFetchedPickup, Hbw2Pickup,
       Handless
    <3>2. CASE NfcProduced
      <4>1. [type |-> flow.order.wp.type, state |-> "PROCESSED"] \in Tags
        BY <1>p DEF Tags, FlowOK, OrderRec, Workpiece
      <4> QED BY <1>p, <3>2, <4>1, NfcTakes DEF PlantOK
    <3>3. [type |-> flow.store.wp.type, state |-> "RAW"] \in Tags /\ [type |-> "NONE", state |-> "REJECTED"] \in Tags
      BY <1>p DEF Tags, FlowOK, StoreRec, Workpiece
    <3> QED BY <1>p, <3>1, <3>2, <3>3 DEF Written, PlantOK
  <2> QED BY <2>1, <2>2, <2>3, <2>4, <2>5, <1>p DEF PlantOK
<1>6. RobotOK'
  <2>1. mode' \in [now : Modes, wanted : Modes \cup {"UNDEFINED"}]
    BY <1>p, VgrStepParts DEF VgrMode, NextMode, RobotOK, Modes
  <2>2. faults' \in 0 .. MaxFaults
    BY <1>p, VgrStepParts, SetRight DEF RobotOK
  <2> QED BY <1>p, <1>2, <1>3, <1>4, <2>1, <2>2, VgrStepParts DEF RobotOK
<1> QED BY <1>1, <1>5, <1>6
-----------------------------------------------------------------------------
(* So do the stations and the people.                                      *)

RobotRests == UNCHANGED <<storage, hbwVars, tray, vgr, flow, wait, raised, mode, hist, board, asked>>

LEMMA StationParts ==
  ASSUME MpoRuns \/ SldRuns
  PROVE  /\ RobotRests /\ UNCHANGED <<cell, tag>>
         /\ UNCHANGED faults \/ Misread
         /\ \/ UNCHANGED at
            \/ \E from \in {"oven", "mpo", "sensor", "sorter"}, to \in {"gone", "mpo", "sensor", "sorter"} \cup Bays :
                 Move(from, to)
         /\ \E c \in {"MPO", "SLD"} : UNCHANGED quit \/ requestQuit(c) \/ ClearQuit(c) \/ QuitAtFault(c)
         /\ \/ UNCHANGED mail
            \/ \E c \in {"MPO", "SLD"} : \E m \in Arrived(c) : Received(c)
            \/ Publish(MpoAck("STARTED", mpoReq))
            \/ Publish(MpoAck("PRODUCED", [mpoReq EXCEPT !.wp.state = "PROCESSED"]))
            \/ \E code \in FaultCodes : Publish(MpoFaultMsg(code, mpoReq)) \/ Publish(SldFaultMsg(code, sldReq))
            \/ Publish(SldAck("SORTED", sldReq))
<1> USE DEF MpoRuns, MpoStep, MpoReceive, MpoInit, MpoEnterFault, MpoFault, MpoIdle, MpoStarted, MpoTimeout,
       MpoProcess, MpoEject, MpoTransport, SldRuns, SldStep, SldReceive, SldInit, SldEnterFault, SldFault,
       SldIdle, SldColorDetection, SldEject, SldSorted, MpoGoes, SldGoes, RobotAside, vgrVars, Elsewhere, Handless
<1>1. RobotRests /\ UNCHANGED <<cell, tag>>
  BY DEF RobotRests
<1>2. UNCHANGED faults \/ Misread
  OBVIOUS
<1>3. \/ UNCHANGED at
      \/ \E from \in {"oven", "mpo", "sensor", "sorter"}, to \in {"gone", "mpo", "sensor", "sorter"} \cup Bays :
           Move(from, to)
  <2>1. Bay(seen) \in Bays
    BY DEF Bay, Bays
  <2> QED BY <2>1
<1>4. \E c \in {"MPO", "SLD"} : UNCHANGED quit \/ requestQuit(c) \/ ClearQuit(c) \/ QuitAtFault(c)
  BY DEF Calm
<1>5. \/ UNCHANGED mail
      \/ \E c \in {"MPO", "SLD"} : \E m \in Arrived(c) : Received(c)
      \/ Publish(MpoAck("STARTED", mpoReq))
      \/ Publish(MpoAck("PRODUCED", [mpoReq EXCEPT !.wp.state = "PROCESSED"]))
      \/ \E code \in FaultCodes : Publish(MpoFaultMsg(code, mpoReq)) \/ Publish(SldFaultMsg(code, sldReq))
      \/ Publish(SldAck("SORTED", sldReq))
  BY DEF Calm, FaultCodes
<1> QED BY <1>1, <1>2, <1>3, <1>4, <1>5

LEMMA StationMail ==
  ASSUME Types, MpoRuns \/ SldRuns
  PROVE  \/ UNCHANGED mail
         \/ \E c \in {"MPO", "SLD"} : \E m \in Arrived(c) : Received(c)
         \/ \E m \in Letters : Publish(m) /\ m.topic \in {"mpo/ack", "mpo/fault", "sld/ack", "sld/fault"}
<1>1. mpoReq \in Flows /\ sldReq \in Flows /\ [mpoReq EXCEPT !.wp.state = "PROCESSED"] \in Flows
  BY DEF Types, MpoOK, SldOK, Flows, Workpiece
<1>2. /\ MpoAck("STARTED", mpoReq) \in Letters /\ SldAck("SORTED", sldReq) \in Letters
      /\ MpoAck("PRODUCED", [mpoReq EXCEPT !.wp.state = "PROCESSED"]) \in Letters
      /\ \A code \in FaultCodes : MpoFaultMsg(code, mpoReq) \in Letters /\ SldFaultMsg(code, sldReq) \in Letters
  BY <1>1, Sendings
<1>3. /\ \A code, f : MpoAck(code, f).topic = "mpo/ack" /\ SldAck(code, f).topic = "sld/ack"
      /\ \A code, f : MpoFaultMsg(code, f).topic = "mpo/fault" /\ SldFaultMsg(code, f).topic = "sld/fault"
  BY DEF MpoAck, SldAck, MpoFaultMsg, SldFaultMsg, Msg
<1> QED BY <1>2, <1>3, StationParts

LEMMA StationTypes ==
  ASSUME Types, MpoRuns \/ SldRuns
  PROVE  Types'
<1> USE DEF Types
<1>1. MailOK'
  BY StationMail, PostOK, ReceiveOK DEF MailOK, Clients
<1>2. RobotOK'
  <2>1. faults' \in 0 .. MaxFaults
    BY StationParts, SetRight DEF RobotOK
  <2> QED BY <2>1, StationParts DEF RobotRests, RobotOK, FlowOK, WaitOK, BoardOK
<1>3. StorageTypeOK' /\ HbwTypeOK' /\ RackOK'
  BY StationParts DEF RobotRests, StorageTypeOK, storage, HbwTypeOK, RackOK, hbwVars
<1>4. PlantOK'
  <2>1. at' \in [Parts -> Places]
    BY StationParts, SetRight DEF PlantOK, Places, Bays
  <2>2. quit' \in [Clients -> QuitStates]
    BY StationParts DEF PlantOK, requestQuit, ClearQuit, QuitAtFault, QuitStates
  <2> QED BY <2>1, <2>2, StationParts DEF PlantOK, RobotRests
<1>5. MpoOK'
  <2>1. CASE MpoReceive
    <3>1. PICK m \in Arrived("MPO") :
            /\ Received("MPO") /\ (UNCHANGED mpoQ \/ mpoQ' = Append(mpoQ, m.flow))
            /\ UNCHANGED <<mpo, mpoReq>>
      BY <2>1 DEF MpoReceive
    <3>2. m.flow \in Flows
      BY <3>1, ReceiveOK DEF Clients, Letters
    <3> QED BY <3>1, <3>2 DEF MpoOK
  <2>2. CASE MpoIdle
    <3>1. Head(mpoQ) \in Flows /\ Tail(mpoQ) \in Seq(Flows)
      BY <2>2 DEF MpoIdle, MpoOK
    <3> QED BY <2>2, <3>1 DEF MpoIdle, MpoOK, MpoStates
  <2>3. CASE MpoEject
    <3>1. [mpoReq EXCEPT !.wp.state = "PROCESSED"] \in Flows
      BY DEF MpoOK, Flows, Workpiece
    <3> QED BY <2>3, <3>1 DEF MpoEject, MpoOK, MpoStates
  <2>4. CASE SldRuns
    BY <2>4 DEF MpoOK, mpoVars, SldRuns, SldStep, SldReceive, SldInit, SldEnterFault, SldFault,
         SldIdle, SldColorDetection, SldEject, SldSorted, SldGoes
  <2>5. CASE MpoInit \/ MpoEnterFault \/ MpoFault \/ MpoStarted \/ MpoTimeout \/ MpoProcess \/ MpoTransport
    BY <2>5 DEF MpoOK, MpoStates, MpoInit, MpoEnterFault, MpoFault, MpoStarted, MpoTimeout, MpoProcess,
         MpoTransport, MpoGoes
  <2> QED BY <2>1, <2>2, <2>3, <2>4, <2>5 DEF MpoRuns, MpoStep
<1>6. SldOK'
  <2>1. CASE SldReceive
    <3>1. PICK m \in Arrived("SLD") :
            /\ Received("SLD") /\ (UNCHANGED sldQ \/ sldQ' = Append(sldQ, m.flow))
            /\ UNCHANGED <<sld, sldReq, seen>>
      BY <2>1 DEF SldReceive
    <3>2. m.flow \in Flows
      BY <3>1, ReceiveOK DEF Clients, Letters
    <3> QED BY <3>1, <3>2 DEF SldOK
  <2>2. CASE SldIdle
    <3>1. Head(sldQ) \in Flows /\ Tail(sldQ) \in Seq(Flows)
      BY <2>2 DEF SldIdle, SldOK
    <3> QED BY <2>2, <3>1 DEF SldIdle, SldOK, SldStates, Kinds
  <2>3. CASE SldColorDetection
    <3>1. getDetectedColor \subseteq Kinds
      BY TxtConstants DEF getDetectedColor, Held, Kinds
    <3> QED BY <2>3, <3>1 DEF SldColorDetection, SldOK, SldStates, Kinds
  <2>4. CASE MpoRuns
    BY <2>4 DEF SldOK, sldVars, MpoRuns, MpoStep, MpoReceive, MpoInit, MpoEnterFault, MpoFault, MpoIdle,
         MpoStarted, MpoTimeout, MpoProcess, MpoEject, MpoTransport, MpoGoes
  <2>5. CASE SldInit \/ SldEnterFault \/ SldFault \/ SldEject \/ SldSorted
    BY <2>5 DEF SldOK, SldStates, SldInit, SldEnterFault, SldFault, SldEject, SldSorted, SldGoes
  <2> QED BY <2>1, <2>2, <2>3, <2>4, <2>5 DEF SldRuns, SldStep
<1> QED BY <1>1, <1>2, <1>3, <1>4, <1>5, <1>6

LEMMA PeopleParts ==
  ASSUME Types, People
  PROVE  /\ UNCHANGED <<Controllers, quit, cell, tray, tag>>
         /\ \/ UNCHANGED at /\ \E m \in Letters : Publish(m) /\ m.topic \in {"ack", "order", "pickup", "store", "wm"}
            \/ UNCHANGED mail /\ is_DIN /\ \E p \in Held("outside") : at' = [at EXCEPT ![p] = "dsi"]
            \/ UNCHANGED mail /\ \E p \in Held("dso") : at' = [at EXCEPT ![p] = "gone"]
<1> DEFINE Topical(m) == m.topic \in {"ack", "order", "pickup", "store", "wm"}
<1>1. \A m : Asks(m) => UNCHANGED <<Controllers, quit, cell, tray, tag, at>> /\ Publish(m)
  BY DEF Asks
<1>2. CASE Customer \/ Acknowledges
  <2>1. PICK m \in Letters : Asks(m) /\ Topical(m)
    <3>1. /\ \A c \in Colours : OrderMsg(c) \in Letters /\ Topical(OrderMsg(c))
          /\ \A p \in Parts : PickupMsg(p) \in Letters /\ Topical(PickupMsg(p))
          /\ StoreMsg \in Letters /\ Topical(StoreMsg) /\ QuitMsg \in Letters /\ Topical(QuitMsg)
          /\ \A wm \in Modes : ModeMsg(wm) \in Letters /\ Topical(ModeMsg(wm))
      BY Sendings DEF Kinds, OrderMsg, PickupMsg, StoreMsg, ModeMsg, QuitMsg, Msg
    <3> HIDE DEF Topical
    <3> QED BY <1>2, <3>1 DEF Customer, Acknowledges
  <2> QED BY <1>1, <2>1
<1>3. CASE Brings \/ Takes
  BY <1>3 DEF Brings, Takes, Moves, Held
<1> QED BY <1>2, <1>3 DEF People

LEMMA PeopleTypes ==
  ASSUME Types, People
  PROVE  Types'
<1> USE DEF Types
<1>1. MailOK'
  BY PeopleParts, PostOK DEF MailOK
<1>2. at' \in [Parts -> Places]
  BY PeopleParts DEF PlantOK, Places
<1>3. PlantOK'
  BY PeopleParts, <1>2 DEF PlantOK
<1>4. /\ UNCHANGED storage /\ UNCHANGED hbwVars /\ UNCHANGED vgrVars /\ UNCHANGED stationVars
  BY PeopleParts DEF Controllers
<1>5. StorageTypeOK' /\ HbwTypeOK' /\ RackOK'
  BY <1>4 DEF storage, hbwVars, StorageTypeOK, HbwTypeOK, RackOK
<1>6. RobotOK'
  BY <1>4 DEF vgrVars, RobotOK, FlowOK, WaitOK, BoardOK
<1>7. MpoOK' /\ SldOK'
  BY <1>4 DEF stationVars, MpoOK, SldOK
<1> QED BY <1>1, <1>3, <1>5, <1>6, <1>7
-----------------------------------------------------------------------------
(* The inductive invariant of robot and rack.                              *)

\* The messages of a kind that are in a queue, and that there is one at most.
Of(s, S) == {s[i] : i \in {j \in DOMAIN s : s[j] \in S}}
Once(s, S) == \A i, j \in DOMAIN s : s[i] \in S /\ s[j] \in S => i = j
One(S) == \A x, y \in S : x = y
Requesting == {m \in Letters : m.code \in ReqCodes}
Storing == {m \in Letters : m.code = "STORE_WP"}
Returning == {m \in Letters : m.code = "STORECONTAINER"}
Answering == {m \in Letters : m.topic \in {"hbw/ack", "hbw/fault"}}
Sent == Of(mail["HBW"], Requesting)
Stores == Of(mail["HBW"], Storing)
Returns == Of(mail["HBW"], Returning)
Replies == Of(mail["VGR"], Answering)
EachOnce ==
  /\ Once(mail["HBW"], Requesting) /\ Once(mail["HBW"], Storing)
  /\ Once(mail["HBW"], Returning) /\ Once(mail["VGR"], Answering)
Fetched == {m \in Replies : m.topic = "hbw/ack"}
Heard == raised \cap {"hbwFetched", "hbwFault"}

\* The one request of a robot that waits is in one place: on its way, in the
\* queue of the rack, in its hands, or answered.
Waiting == {"VGR_WAIT_FETCHED", "VGR_WAIT_FETCHED_PICKUP", "STORE_WP"}
Begun == {"FETCH_CONTAINER", "BRING_CONTAINER", "FETCH_WP", "BRING_WP", "SAVE_FETCHED"}
OneRequest ==
  /\ EachOnce /\ Len(hbwQ) <= 1 /\ One(Heard)
  /\ vgr \notin Waiting => Sent = {} /\ hbwQ = <<>> /\ hbw \notin Begun /\ Replies = {} /\ Heard = {}
  /\ Sent # {} => hbwQ = <<>> /\ hbw \notin Begun /\ Replies = {} /\ Heard = {}
  /\ hbwQ # <<>> => hbw \notin Begun /\ Replies = {} /\ Heard = {}
  /\ hbw \in Begun => Replies = {} /\ Heard = {}
  /\ Replies # {} => Heard = {}

\* It asks for a container for the workpiece in the gripper, or for one that
\* is brought; and what is brought is what the rack says.
ForGripper(f) == f.wp.uid = flow.store.wp.uid
Brought == Fetched # {} \/ "hbwFetched" \in raised
StoreFits ==
  vgr = "STORE_WP" =>
    /\ \A m \in Sent : m.code = "FETCHCONTAINER" /\ ForGripper(m.flow)
    /\ hbwQ # <<>> => Head(hbwQ).type = "FETCH_CONTAINER" /\ ForGripper(Head(hbwQ).flow)
    /\ hbw \in Begun => hbw \in {"FETCH_CONTAINER", "BRING_CONTAINER"} /\ ForGripper(hbwReq)
    /\ Brought => hbw = "STORE_WP" /\ ForGripper(hbwReq) /\ cell[nextFetchPos] = NoUid
FetchFits ==
  vgr \in Waiting \ {"STORE_WP"} =>
    /\ \A m \in Sent : m.code = "FETCH_WP"
    /\ hbwQ # <<>> => Head(hbwQ).type = "FETCH_WP"
    /\ hbw \in Begun => hbw \in {"FETCH_WP", "BRING_WP", "SAVE_FETCHED"}
    /\ Brought => hbw = "FETCH_WP_WAIT"
Stocked == hbwReq.wp.uid \in Parts /\ cell[nextFetchPos] = hbwReq.wp.uid
AnswerFits ==
  /\ hbw \in {"BRING_WP", "SAVE_FETCHED"} \/ (hbw = "FETCH_WP_WAIT" /\ Brought) => Stocked
  /\ \A m \in Fetched : m.flow.wp.uid = hbwReq.wp.uid
  /\ "hbwFetched" \in raised => flow.hbw.uid = hbwReq.wp.uid

\* The word that ends a job comes once, while the rack waits for it, and what
\* it says is done by then.
OneClose ==
  /\ "reset" \notin hbwFlag
  /\ Stores # {} => hbw = "STORE_WP" /\ "store" \notin hbwFlag
  /\ Returns # {} => hbw = "FETCH_WP_WAIT" /\ "storeContainer" \notin hbwFlag
  /\ "store" \in hbwFlag => hbw \in {"STORE_WP", "RETURN_WP", "SAVE_STORED"}
  /\ "storeContainer" \in hbwFlag => hbw = "FETCH_WP_WAIT"
  /\ Brought => Stores = {} /\ Returns = {} /\ hbwFlag = {}
CloseTrue ==
  /\ Stores # {} \/ ("store" \in hbwFlag /\ hbw = "STORE_WP") => Stocked
  /\ Returns # {} \/ "storeContainer" \in hbwFlag \/ hbw = "STORE_CONTAINER" => cell[nextFetchPos] = NoUid

\* The container of the last fetch is empty on record as long as it is out.
Out == {"BRING_CONTAINER", "STORE_WP", "BRING_WP", "SAVE_FETCHED", "FETCH_WP_WAIT", "STORE_CONTAINER"}
SlotOut ==
  /\ hbw \in Out => nextFetchPos \in Slots /\ wp[nextFetchPos] = Null
  /\ hbw \in {"STORE_WP", "SAVE_FETCHED", "FETCH_WP_WAIT"} => tray = nextFetchPos

\* Memory and rack agree but for the container in hand, every record has its
\* storing time, and a workpiece is in one container at most.
InHand == {"STORE_WP", "BRING_WP", "SAVE_FETCHED", "FETCH_WP_WAIT"}
RackExact == \A s \in Slots :
  /\ wp[s] # Null => wp[s].uid \in Parts /\ cell[s] = wp[s].uid /\ Listed(s)
  /\ wp[s] = Null /\ ~(s = nextFetchPos /\ hbw \in InHand) => cell[s] = NoUid
CellsTrue ==
  /\ \A s, t \in Slots : cell[s] = cell[t] /\ cell[s] # NoUid => s = t
  /\ \A s \in Slots : cell[s] # NoUid => at[cell[s]] = "rack"

\* The robot holds one workpiece, and the one it is about to store is the one
\* whose tag it has read.
Loaded == {"MOVE_VGR2MPO", "RELEASE_MPO", "START_DELIVERY", "COLOR_DETECTION", "NFC_RAW",
           "NFC_REJECTED", "WRONG_COLOR", "RECYCLE_TRASH", "MOVE_PICKUP_WAIT", "STORE_WP_VGR",
           "STORE_WP", "HBW2PICKUP", "ENTER_FAULT"}
Identified == {"COLOR_DETECTION", "NFC_RAW", "STORE_WP_VGR", "STORE_WP"}
InGripper ==
  /\ One(Held("gripper")) /\ One(Held("dsi")) /\ One(Held("dso"))
  /\ vgr \notin Loaded => Held("gripper") = {}
  /\ vgr \in Identified => Held("gripper") = {flow.store.wp.uid}
  /\ vgr \in {"NFC_RAW", "STORE_WP_VGR"} => flow.store.wp.type # "NONE"
Talk == OneRequest /\ StoreFits /\ FetchFits /\ AnswerFits /\ OneClose /\ CloseTrue
Shelves == SlotOut /\ RackExact /\ CellsTrue
HandoverInv == Types /\ Talk /\ Shelves /\ InGripper

-----------------------------------------------------------------------------
(* Queues of messages.                                                     *)

LEMMA OfAppend ==
  ASSUME NEW T, NEW s \in Seq(T), NEW m \in T, NEW S
  PROVE  /\ Of(Append(s, m), S) = Of(s, S) \cup ({m} \cap S)
         /\ Once(s, S) /\ (m \in S => Of(s, S) = {}) => Once(Append(s, m), S)
<1>1. DOMAIN Append(s, m) = 1 .. Len(s) + 1 /\ DOMAIN s = 1 .. Len(s) /\ Len(s) \in Nat
  OBVIOUS
<1>2. Append(s, m)[Len(s) + 1] = m /\ \A i \in 1 .. Len(s) : Append(s, m)[i] = s[i]
  OBVIOUS
<1>3. 1 .. Len(s) + 1 = (1 .. Len(s)) \cup {Len(s) + 1}
  BY <1>1
<1>4. Of(Append(s, m), S) = Of(s, S) \cup ({m} \cap S)
  BY <1>1, <1>2, <1>3 DEF Of
<1>5. ASSUME Once(s, S), m \in S => Of(s, S) = {} PROVE Once(Append(s, m), S)
  <2>1. m \in S => \A i \in 1 .. Len(s) : s[i] \notin S
    BY <1>1, <1>5 DEF Of
  <2> QED BY <1>1, <1>2, <1>3, <1>5, <2>1 DEF Once
<1> QED BY <1>4, <1>5

LEMMA OfTail ==
  ASSUME NEW T, NEW s \in Seq(T), s # <<>>, NEW S, Once(s, S)
  PROVE  /\ Once(Tail(s), S)
         /\ Head(s) \in S => Of(s, S) = {Head(s)} /\ Of(Tail(s), S) = {}
         /\ Head(s) \notin S => Of(Tail(s), S) = Of(s, S)
<1>1. /\ Len(s) \in Nat /\ DOMAIN s = 1 .. Len(s) /\ Tail(s) \in Seq(T) /\ Len(Tail(s)) = Len(s) - 1
      /\ Len(s) > 0 /\ Head(s) = s[1]
  OBVIOUS
<1>2. DOMAIN Tail(s) = 1 .. Len(s) - 1 /\ \A i \in 1 .. Len(s) - 1 : Tail(s)[i] = s[i + 1] /\ i + 1 \in 1 .. Len(s)
  BY <1>1
<1>3. \A i \in 1 .. Len(s) : i = 1 \/ (i - 1 \in 1 .. Len(s) - 1 /\ Tail(s)[i - 1] = s[i])
  <2>1. ASSUME NEW i \in 1 .. Len(s), i # 1
        PROVE  i - 1 \in 1 .. Len(s) - 1 /\ (i - 1) + 1 = i
    BY <1>1, <2>1
  <2> QED BY <1>2, <2>1
<1>4. Once(Tail(s), S)
  <2>1. ASSUME NEW i \in 1 .. Len(s) - 1, NEW j \in 1 .. Len(s) - 1, s[i + 1] \in S, s[j + 1] \in S PROVE i = j
    <3>1. i + 1 = j + 1
      BY <1>1, <1>2, <2>1 DEF Once
    <3> QED BY <3>1
  <2> QED BY <1>1, <1>2, <2>1 DEF Once
<1>5. ASSUME Head(s) \in S PROVE Of(s, S) = {Head(s)} /\ Of(Tail(s), S) = {}
  <2>1. \A i \in 1 .. Len(s) : s[i] \in S => i = 1
    BY <1>1, <1>5 DEF Once
  <2>2. \A i \in 1 .. Len(s) - 1 : i + 1 # 1
    BY <1>1
  <2>3. 1 \in 1 .. Len(s)
    BY <1>1
  <2> QED BY <1>1, <1>2, <1>5, <2>1, <2>2, <2>3 DEF Of
<1>6. ASSUME Head(s) \notin S PROVE Of(Tail(s), S) = Of(s, S)
  <2>1. Of(Tail(s), S) \subseteq Of(s, S)
    BY <1>1, <1>2 DEF Of
  <2>2. ASSUME NEW i \in 1 .. Len(s), s[i] \in S PROVE s[i] \in Of(Tail(s), S)
    <3>1. i - 1 \in 1 .. Len(s) - 1 /\ Tail(s)[i - 1] = s[i]
      BY <1>1, <1>3, <1>6, <2>2
    <3> QED BY <1>2, <2>2, <3>1 DEF Of
  <2>3. Of(s, S) \subseteq Of(Tail(s), S)
    BY <1>1, <2>2 DEF Of
  <2> QED BY <2>1, <2>3
<1> QED BY <1>4, <1>5, <1>6

\* Whom a message concerns.
LEMMA Heeding ==
  ASSUME NEW m \in Letters
  PROVE  /\ m.code \in RackCodes => Heeds("HBW", m) /\ m \notin Answering
         /\ m \in Answering => Heeds("VGR", m) /\ m.code \notin RackCodes
<1>1. m.code \in RackCodes => m.topic = "vgr/do"
  BY DEF Letters
<1>2. m.topic = "vgr/do" /\ m.code \in RackCodes => Heeds("HBW", m)
  BY DEF Heeds, Topics, RackCodes, ReqCodes
<1>3. m.topic \in {"hbw/ack", "hbw/fault"} => Heeds("VGR", m)
  BY DEF Heeds, Topics
<1> QED BY <1>1, <1>2, <1>3 DEF Answering

LEMMA Posting ==
  ASSUME MailOK, EachOnce, NEW m \in Letters, Publish(m)
  PROVE  /\ Sent' = Sent \cup ({m} \cap Requesting) /\ Stores' = Stores \cup ({m} \cap Storing)
         /\ Returns' = Returns \cup ({m} \cap Returning) /\ Replies' = Replies \cup ({m} \cap Answering)
         /\ /\ m \in Requesting => Sent = {}
            /\ m \in Storing => Stores = {}
            /\ m \in Returning => Returns = {}
            /\ m \in Answering => Replies = {}
            => EachOnce'
<1> DEFINE H == mail["HBW"]  V == mail["VGR"]
<1>1. H \in Seq(Letters) /\ V \in Seq(Letters)
  BY DEF MailOK, Clients
<1>2. /\ mail'["HBW"] = IF Heeds("HBW", m) THEN Append(H, m) ELSE H
      /\ mail'["VGR"] = IF Heeds("VGR", m) THEN Append(V, m) ELSE V
  BY DEF Publish, Post, Clients
<1>3. ASSUME NEW S, m \in S => Heeds("HBW", m)
      PROVE  /\ Of(mail'["HBW"], S) = Of(H, S) \cup ({m} \cap S)
             /\ Once(H, S) /\ (m \in S => Of(H, S) = {}) => Once(mail'["HBW"], S)
  <2>1. CASE Heeds("HBW", m)
    <3> HIDE DEF H
    <3> QED BY <1>1, <1>2, <2>1, OfAppend
  <2>2. CASE ~Heeds("HBW", m)
    BY <1>2, <1>3, <2>2
  <2> QED BY <2>1, <2>2
<1>4. ASSUME NEW S, m \in S => Heeds("VGR", m)
      PROVE  /\ Of(mail'["VGR"], S) = Of(V, S) \cup ({m} \cap S)
             /\ Once(V, S) /\ (m \in S => Of(V, S) = {}) => Once(mail'["VGR"], S)
  <2>1. CASE Heeds("VGR", m)
    <3> HIDE DEF V
    <3> QED BY <1>1, <1>2, <2>1, OfAppend
  <2>2. CASE ~Heeds("VGR", m)
    BY <1>2, <1>4, <2>2
  <2> QED BY <2>1, <2>2
<1>5. /\ m \in Requesting \/ m \in Storing \/ m \in Returning => Heeds("HBW", m)
      /\ m \in Answering => Heeds("VGR", m)
  BY Heeding DEF Requesting, Storing, Returning, RackCodes
<1> HIDE DEF H, V
<1>6. /\ Of(mail'["HBW"], Requesting) = Of(H, Requesting) \cup ({m} \cap Requesting)
      /\ Of(mail'["HBW"], Storing) = Of(H, Storing) \cup ({m} \cap Storing)
      /\ Of(mail'["HBW"], Returning) = Of(H, Returning) \cup ({m} \cap Returning)
      /\ Of(mail'["VGR"], Answering) = Of(V, Answering) \cup ({m} \cap Answering)
  BY <1>3, <1>4, <1>5
<1>7. ASSUME /\ m \in Requesting => Of(H, Requesting) = {}
             /\ m \in Storing => Of(H, Storing) = {}
             /\ m \in Returning => Of(H, Returning) = {}
             /\ m \in Answering => Of(V, Answering) = {}
      PROVE  /\ Once(mail'["HBW"], Requesting) /\ Once(mail'["HBW"], Storing)
             /\ Once(mail'["HBW"], Returning) /\ Once(mail'["VGR"], Answering)
  <2>1. Once(H, Requesting) /\ Once(H, Storing) /\ Once(H, Returning) /\ Once(V, Answering)
    BY DEF EachOnce, H, V
  <2> QED BY <1>3, <1>4, <1>5, <1>7, <2>1
<1>8. Sent = Of(H, Requesting) /\ Stores = Of(H, Storing) /\ Returns = Of(H, Returning) /\ Replies = Of(V, Answering)
  BY DEF Sent, Stores, Returns, Replies, H, V
<1>9. /\ Sent' = Of(mail'["HBW"], Requesting) /\ Stores' = Of(mail'["HBW"], Storing)
      /\ Returns' = Of(mail'["HBW"], Returning) /\ Replies' = Of(mail'["VGR"], Answering)
  BY DEF Sent, Stores, Returns, Replies
<1>10. EachOnce' <=> /\ Once(mail'["HBW"], Requesting) /\ Once(mail'["HBW"], Storing)
                     /\ Once(mail'["HBW"], Returning) /\ Once(mail'["VGR"], Answering)
  BY DEF EachOnce
<1> QED BY <1>6, <1>7, <1>8, <1>9, <1>10

LEMMA Receiving ==
  ASSUME MailOK, EachOnce, NEW c \in Clients, NEW m \in Arrived(c), Received(c)
  PROVE  /\ EachOnce'
         /\ c # "HBW" => Sent' = Sent /\ Stores' = Stores /\ Returns' = Returns
         /\ c # "VGR" => Replies' = Replies
         /\ c = "HBW" =>
              /\ m \in Requesting => Sent = {m} /\ Sent' = {}
              /\ m \notin Requesting => Sent' = Sent
              /\ m \in Storing => Stores = {m} /\ Stores' = {}
              /\ m \notin Storing => Stores' = Stores
              /\ m \in Returning => Returns = {m} /\ Returns' = {}
              /\ m \notin Returning => Returns' = Returns
         /\ c = "VGR" =>
              /\ m \in Answering => Replies = {m} /\ Replies' = {}
              /\ m \notin Answering => Replies' = Replies
<1> DEFINE H == mail["HBW"]  V == mail["VGR"]
<1>1. H \in Seq(Letters) /\ V \in Seq(Letters) /\ mail[c] # <<>> /\ m = Head(mail[c])
  BY DEF MailOK, Clients, Arrived
<1>2. /\ c = "HBW" => mail'["HBW"] = Tail(H) /\ mail'["VGR"] = V
      /\ c = "VGR" => mail'["VGR"] = Tail(V) /\ mail'["HBW"] = H
      /\ c \notin {"HBW", "VGR"} => mail'["VGR"] = V /\ mail'["HBW"] = H
  BY DEF Received, MailOK, Clients
<1>3. c = "HBW" => m = Head(H) /\ H # <<>>
  BY <1>1
<1>4. c = "VGR" => m = Head(V) /\ V # <<>>
  BY <1>1
<1>5. /\ Sent = Of(H, Requesting) /\ Stores = Of(H, Storing) /\ Returns = Of(H, Returning) /\ Replies = Of(V, Answering)
      /\ Sent' = Of(mail'["HBW"], Requesting) /\ Stores' = Of(mail'["HBW"], Storing)
      /\ Returns' = Of(mail'["HBW"], Returning) /\ Replies' = Of(mail'["VGR"], Answering)
      /\ Once(H, Requesting) /\ Once(H, Storing) /\ Once(H, Returning) /\ Once(V, Answering)
      /\ EachOnce' <=> /\ Once(mail'["HBW"], Requesting) /\ Once(mail'["HBW"], Storing)
                       /\ Once(mail'["HBW"], Returning) /\ Once(mail'["VGR"], Answering)
  BY DEF Sent, Stores, Returns, Replies, EachOnce
<1> HIDE DEF H, V
<1>6. CASE c = "HBW"
  <2>1. ASSUME NEW S, Once(H, S)
        PROVE  /\ Once(Tail(H), S)
               /\ m \in S => Of(H, S) = {m} /\ Of(Tail(H), S) = {}
               /\ m \notin S => Of(Tail(H), S) = Of(H, S)
    BY <1>1, <1>3, <1>6, <2>1, OfTail
  <2>2. Once(Tail(H), Requesting) /\ Once(Tail(H), Storing) /\ Once(Tail(H), Returning)
    BY <1>5, <2>1
  <2>3. /\ m \in Requesting => Of(H, Requesting) = {m} /\ Of(Tail(H), Requesting) = {}
        /\ m \notin Requesting => Of(Tail(H), Requesting) = Of(H, Requesting)
        /\ m \in Storing => Of(H, Storing) = {m} /\ Of(Tail(H), Storing) = {}
        /\ m \notin Storing => Of(Tail(H), Storing) = Of(H, Storing)
        /\ m \in Returning => Of(H, Returning) = {m} /\ Of(Tail(H), Returning) = {}
        /\ m \notin Returning => Of(Tail(H), Returning) = Of(H, Returning)
    BY <1>5, <2>1
  <2> QED BY <1>2, <1>5, <1>6, <2>2, <2>3
<1>7. CASE c = "VGR"
  <2>1. /\ Once(Tail(V), Answering)
        /\ m \in Answering => Of(V, Answering) = {m} /\ Of(Tail(V), Answering) = {}
        /\ m \notin Answering => Of(Tail(V), Answering) = Of(V, Answering)
    BY <1>1, <1>4, <1>5, <1>7, OfTail
  <2> QED BY <1>2, <1>5, <1>7, <2>1
<1>8. CASE c \notin {"HBW", "VGR"}
  BY <1>2, <1>5, <1>8
<1> QED BY <1>6, <1>7, <1>8

-----------------------------------------------------------------------------
(* Steps that leave the talk, the shelves or the gripper alone.            *)

MailSame == EachOnce' /\ Sent' = Sent /\ Stores' = Stores /\ Returns' = Returns /\ Replies' = Replies

LEMMA Silence ==
  ASSUME MailOK, EachOnce
  PROVE  /\ UNCHANGED mail => MailSame
         /\ \A m \in Letters : Publish(m) /\ m.code \notin RackCodes
              /\ m.topic \notin {"hbw/ack", "hbw/fault"} => MailSame
         /\ \A c \in {"MPO", "SLD"} : \A m \in Arrived(c) : Received(c) => MailSame
         /\ \A m \in Arrived("VGR") : Received("VGR") /\ m.topic \notin {"hbw/ack", "hbw/fault"} => MailSame
<1>1. UNCHANGED mail => MailSame
  BY DEF MailSame, EachOnce, Sent, Stores, Returns, Replies
<1>2. ASSUME NEW m \in Letters, Publish(m), m.code \notin RackCodes, m.topic \notin {"hbw/ack", "hbw/fault"}
      PROVE  MailSame
  <2>1. m \notin Requesting /\ m \notin Storing /\ m \notin Returning /\ m \notin Answering
    BY <1>2 DEF Requesting, Storing, Returning, Answering, RackCodes
  <2> QED BY <1>2, <2>1, Posting DEF MailSame
<1>3. ASSUME NEW c \in {"MPO", "SLD"}, NEW m \in Arrived(c), Received(c) PROVE MailSame
  <2>1. c \in Clients /\ c # "HBW" /\ c # "VGR"
    BY DEF Clients
  <2> QED BY <1>3, <2>1, Receiving DEF MailSame
<1>4. ASSUME NEW m \in Arrived("VGR"), Received("VGR"), m.topic \notin {"hbw/ack", "hbw/fault"} PROVE MailSame
  <2>1. "VGR" \in Clients /\ m \notin Answering
    BY <1>4 DEF Clients, Answering
  <2> QED BY <1>4, <2>1, Receiving DEF MailSame
<1> QED BY <1>1, <1>2, <1>3, <1>4

RackSame == UNCHANGED <<hbw, hbwQ, hbwReq, hbwFlag, nextFetchPos, cell>>

LEMMA TalkKept ==
  ASSUME Talk, MailSame, RackSame, vgr' = vgr, Heard' = Heard,
         flow'.store.wp.uid = flow.store.wp.uid, flow'.hbw = flow.hbw
  PROVE  Talk'
<1> USE DEF Talk, MailSame, RackSame
<1>1. ("hbwFetched" \in raised') <=> ("hbwFetched" \in raised)
  BY DEF Heard
<1>2. Fetched' = Fetched /\ (Brought' <=> Brought)
  BY <1>1 DEF Fetched, Brought
<1>3. OneRequest'
  BY DEF OneRequest
<1>4. StoreFits'
  BY <1>2 DEF StoreFits, ForGripper
<1>5. FetchFits'
  BY <1>2 DEF FetchFits
<1>6. AnswerFits'
  BY <1>1, <1>2 DEF AnswerFits, Stocked
<1>7. OneClose'
  BY <1>2 DEF OneClose
<1>8. CloseTrue'
  BY DEF CloseTrue, Stocked
<1> QED BY <1>3, <1>4, <1>5, <1>6, <1>7, <1>8

\* A robot that does not wait has heard nothing.
LEMMA Resting ==
  ASSUME OneRequest, vgr \notin Waiting
  PROVE  /\ Sent = {} /\ hbwQ = <<>> /\ hbw \notin Begun /\ Replies = {} /\ Heard = {}
         /\ Fetched = {} /\ "hbwFetched" \notin raised /\ "hbwFault" \notin raised /\ ~Brought
BY DEF OneRequest, Fetched, Heard, Brought

LEMMA RestKept ==
  ASSUME Talk, MailSame, RackSame, vgr \notin Waiting, vgr' \notin Waiting, Heard' \subseteq Heard
  PROVE  Talk'
<1> USE DEF Talk, MailSame, RackSame
<1>1. Sent = {} /\ hbwQ = <<>> /\ hbw \notin Begun /\ Replies = {} /\ Heard = {}
  BY Resting
<1>2. Heard' = {} /\ Fetched' = {} /\ "hbwFetched" \notin raised' /\ ~Brought'
  BY <1>1 DEF Fetched, Heard, Brought
<1>3. OneRequest'
  BY <1>1, <1>2 DEF OneRequest, One
<1>4. StoreFits' /\ FetchFits'
  BY DEF StoreFits, FetchFits, Waiting
<1>5. AnswerFits'
  BY <1>1, <1>2 DEF AnswerFits, Begun
<1>6. OneClose'
  BY <1>2 DEF OneClose
<1>7. CloseTrue'
  BY DEF CloseTrue, Stocked
<1> QED BY <1>3, <1>4, <1>5, <1>6, <1>7

LEMMA ShelvesKept ==
  ASSUME Shelves, PlantOK, UNCHANGED <<storage, hbw, tray, cell>>,
         \A p \in Parts : at[p] = "rack" => at'[p] = "rack"
  PROVE  Shelves'
<1> USE DEF Shelves, storage
<1>1. SlotOut'
  BY DEF SlotOut
<1>2. RackExact'
  BY DEF RackExact, Listed
<1>3. CellsTrue'
  BY DEF CellsTrue, PlantOK
<1> QED BY <1>1, <1>2, <1>3

GripperSame == Held("gripper")' = Held("gripper") /\ Held("dsi")' = Held("dsi") /\ Held("dso")' = Held("dso")
LEMMA GripperKept ==
  ASSUME InGripper, GripperSame, vgr' = vgr, flow'.store.wp = flow.store.wp
  PROVE  InGripper'
BY DEF InGripper, GripperSame

LEMMA StationsKeep ==
  ASSUME HandoverInv, MpoRuns \/ SldRuns
  PROVE  HandoverInv'
<1> USE DEF HandoverInv
<1>1. Types'
  BY StationTypes
<1>2. RobotRests /\ UNCHANGED cell
  BY StationParts
<1>3. MailSame
  <2>1. MailOK /\ EachOnce
    BY DEF Types, Talk, OneRequest
  <2>2. \A m \in Letters : m.topic \in {"mpo/ack", "mpo/fault", "sld/ack", "sld/fault"} => m.code \notin RackCodes
    BY DEF Letters
  <2> QED BY <2>1, <2>2, StationMail, Silence
<1>4. Talk'
  BY <1>2, <1>3, TalkKept DEF RobotRests, RackSame, hbwVars, storage, Heard
<1>5. /\ GripperSame
      /\ \A p \in Parts : at[p] = "rack" => at'[p] = "rack"
  <2>1. CASE UNCHANGED at
    BY <2>1 DEF GripperSame, Held
  <2>2. CASE ~UNCHANGED at
    <3>1. PICK from \in {"oven", "mpo", "sensor", "sorter"}, to \in {"gone", "mpo", "sensor", "sorter"} \cup Bays :
            Move(from, to)
      BY <2>2, StationParts
    <3>2. from \notin {"gripper", "dsi", "dso", "rack"} /\ to \notin {"gripper", "dsi", "dso", "rack"}
      BY DEF Bays
    <3> QED BY <3>1, <3>2 DEF Move, GripperSame, Held
  <2> QED BY <2>1, <2>2
<1>6. Shelves'
  BY <1>2, <1>5, ShelvesKept DEF Types, RobotRests, hbwVars
<1>7. InGripper'
  BY <1>2, <1>5, GripperKept DEF RobotRests
<1> QED BY <1>1, <1>4, <1>6, <1>7

LEMMA PeopleKeep ==
  ASSUME HandoverInv, People
  PROVE  HandoverInv'
<1> USE DEF HandoverInv
<1>1. Types'
  BY PeopleTypes
<1>2. UNCHANGED <<Controllers, cell, tray>>
  BY PeopleParts
<1>3. MailSame
  <2>1. MailOK /\ EachOnce
    BY DEF Types, Talk, OneRequest
  <2>2. \A m \in Letters : m.topic \in {"ack", "order", "pickup", "store", "wm"} => m.code \notin RackCodes
    BY DEF Letters
  <2>3. UNCHANGED mail \/ \E m \in Letters : Publish(m) /\ m.topic \in {"ack", "order", "pickup", "store", "wm"}
    BY PeopleParts
  <2> QED BY <2>1, <2>2, <2>3, Silence
<1>4. Talk'
  BY <1>2, <1>3, TalkKept DEF Controllers, RackSame, hbwVars, storage, Heard, vgrVars
<1>5. /\ Held("gripper")' = Held("gripper") /\ One(Held("dsi")') /\ One(Held("dso")')
      /\ \A p \in Parts : at[p] = "rack" => at'[p] = "rack"
  <2>1. CASE UNCHANGED at
    BY <2>1 DEF InGripper, Held
  <2>2. CASE is_DIN /\ \E p \in Held("outside") : at' = [at EXCEPT ![p] = "dsi"]
    <3>1. PICK p \in Held("outside") : at' = [at EXCEPT ![p] = "dsi"]
      BY <2>2
    <3>2. p \in Parts /\ at[p] = "outside" /\ \A q \in Parts : at'[q] = IF q = p THEN "dsi" ELSE at[q]
      BY <3>1 DEF Held, Types, PlantOK
    <3>3. Held("gripper")' = Held("gripper") /\ Held("dso")' = Held("dso") /\ Held("dsi")' = {p}
      BY <2>2, <3>2 DEF Held, is_DIN
    <3> QED BY <3>2, <3>3 DEF One, InGripper
  <2>3. CASE \E p \in Held("dso") : at' = [at EXCEPT ![p] = "gone"]
    <3>1. PICK p \in Held("dso") : at' = [at EXCEPT ![p] = "gone"]
      BY <2>3
    <3>2. p \in Parts /\ at[p] = "dso" /\ \A q \in Parts : at'[q] = IF q = p THEN "gone" ELSE at[q]
      BY <3>1 DEF Held, Types, PlantOK
    <3>3. Held("gripper")' = Held("gripper") /\ Held("dso")' \subseteq Held("dso") /\ Held("dsi")' = Held("dsi")
      BY <3>2 DEF Held
    <3> QED BY <3>2, <3>3 DEF One, InGripper
  <2> QED BY <2>1, <2>2, <2>3, PeopleParts
<1>6. Shelves'
  BY <1>2, <1>5, ShelvesKept DEF Types, Controllers, hbwVars
<1>7. InGripper'
  BY <1>2, <1>5 DEF InGripper, Controllers, vgrVars
<1> QED BY <1>1, <1>4, <1>6, <1>7

-----------------------------------------------------------------------------
(* What the robot hears.                                                   *)

LEMMA VgrReceiveKeeps ==
  ASSUME HandoverInv, VgrReceive, UNCHANGED stationVars
  PROVE  HandoverInv'
<1> USE DEF HandoverInv
<1>1. PICK m \in Arrived("VGR") :
        /\ Received("VGR")
        /\ \/ m.topic = "ack" /\ requestQuit("VGR") /\ UNCHANGED <<flow, wait, raised, mode, asked>>
           \/ m.topic = "order" /\ requestOrder(m.code) /\ UNCHANGED <<quit, flow, mode>>
           \/ m.topic = "pickup" /\ requestPickup(m.flow.wp.uid) /\ UNCHANGED <<quit, flow, mode>>
           \/ m.topic = "store" /\ storeWorkpieceFromDSOIntoHBW /\ UNCHANGED <<quit, flow, mode>>
           \/ m.topic = "wm" /\ requestWorkingModeChange(m.code) /\ UNCHANGED <<quit, flow, wait>>
           \/ m.topic = "mpo/ack" /\ Turn({"mpoStarted"}, {}) /\ UNCHANGED <<quit, flow, wait, mode, asked>>
           \/ m.topic = "mpo/fault" /\ requestMPOfault(m.flow) /\ UNCHANGED <<quit, wait, mode, asked>>
           \/ m.topic = "hbw/ack" /\ requestHBWfetched(m.flow.wp) /\ UNCHANGED <<quit, wait, mode, asked>>
           \/ m.topic = "hbw/fault" /\ Turn({"hbwFault"}, {}) /\ UNCHANGED <<quit, flow, wait, mode, asked>>
           \/ m.topic = "sld/ack" /\ requestSLDsorted(m.flow) /\ UNCHANGED <<quit, flow, mode, asked>>
           \/ m.topic = "sld/fault" /\ requestSLDfault(m.flow) /\ UNCHANGED <<quit, wait, mode, asked>>
        /\ UNCHANGED <<vgr, hist, board, faults>> /\ UNCHANGED <<cell, at, tag>>
        /\ UNCHANGED storage /\ UNCHANGED hbwVars /\ UNCHANGED tray
  BY DEF VgrReceive, Handless, Elsewhere
<1>2. RobotOK' /\ PlantOK' /\ MailOK'
  BY VgrReceiveTypes
<1>3. Types'
  <2>1. StorageTypeOK' /\ HbwTypeOK' /\ RackOK' /\ MpoOK' /\ SldOK'
    BY <1>1 DEF Types, storage, hbwVars, stationVars, StorageTypeOK, HbwTypeOK, RackOK, MpoOK, SldOK
  <2> QED BY <1>2, <2>1 DEF Types
<1>4. Shelves'
  BY <1>1, ShelvesKept DEF Types, hbwVars
<1>5. flow'.store = flow.store /\ (m.topic # "hbw/ack" => flow'.hbw = flow.hbw)
  <2>1. \/ flow' = flow \/ (\E o : flow' = [flow EXCEPT !.order = o])
        \/ (m.topic = "hbw/ack" /\ flow' = [flow EXCEPT !.hbw = m.flow.wp])
    BY <1>1 DEF requestMPOfault, requestSLDfault, requestFault, requestHBWfetched
  <2> QED BY <2>1 DEF Types, RobotOK, FlowOK
<1>6. InGripper'
  BY <1>1, <1>5, GripperKept DEF GripperSame, Held
<1>7. m \in Letters /\ "VGR" \in Clients /\ MailOK /\ EachOnce /\ RackSame
  BY <1>1, ReceiveOK DEF Types, Talk, OneRequest, Clients, RackSame, storage, hbwVars
<1>8. CASE m.topic \notin {"hbw/ack", "hbw/fault"}
  <2>1. MailSame
    BY <1>1, <1>7, <1>8, Silence
  <2>2. Heard' = Heard
    BY <1>1, <1>8 DEF Heard, Turn, requestOrder, requestPickup, storeWorkpieceFromDSOIntoHBW,
         requestWorkingModeChange, requestMPOfault, requestSLDfault, requestFault, requestSLDsorted
  <2>3. Talk'
    BY <1>1, <1>5, <1>7, <1>8, <2>1, <2>2, TalkKept
  <2> QED BY <1>3, <1>4, <1>6, <2>3
<1>9. CASE m.topic \in {"hbw/ack", "hbw/fault"}
  <2>1. /\ Replies = {m} /\ Replies' = {} /\ Sent' = Sent /\ Stores' = Stores /\ Returns' = Returns /\ EachOnce'
    <3>1. m \in Answering
      BY <1>7, <1>9 DEF Answering
    <3> QED BY <1>1, <1>7, <3>1, Receiving
  <2>2. Fetched' = {}
    BY <2>1 DEF Fetched
  <2>3. Heard = {} /\ Sent = {} /\ hbwQ = <<>> /\ hbw \notin Begun /\ vgr \in Waiting
    BY <2>1 DEF Talk, OneRequest
  <2>4. /\ RackSame /\ vgr' = vgr /\ flow'.store = flow.store
    BY <1>1, <1>5, <1>7
  <2>5. CASE m.topic = "hbw/ack"
    <3>1. m \in Fetched /\ Brought
      BY <2>1, <2>5 DEF Fetched, Brought
    <3>2. flow'.hbw = m.flow.wp /\ raised' = raised \cup {"hbwFetched"}
      BY <1>1, <2>5 DEF requestHBWfetched, Turn, Types, RobotOK, FlowOK
    <3>3. Heard' = {"hbwFetched"} /\ "hbwFetched" \in raised' /\ Brought'
      BY <2>3, <3>2 DEF Heard, Brought
    <3>4. OneRequest'
      BY <2>1, <2>3, <2>4, <3>3 DEF Talk, OneRequest, RackSame, One
    <3>5. StoreFits'
      BY <2>1, <2>3, <2>4, <3>1, <3>3 DEF Talk, StoreFits, RackSame, ForGripper
    <3>6. FetchFits'
      BY <2>1, <2>3, <2>4, <3>1, <3>3 DEF Talk, FetchFits, RackSame
    <3>7. AnswerFits'
      BY <2>2, <2>3, <2>4, <3>1, <3>2 DEF Talk, AnswerFits, RackSame, Stocked, Begun
    <3>8. OneClose' /\ CloseTrue'
      BY <2>1, <2>4, <3>1 DEF Talk, OneClose, CloseTrue, RackSame, Stocked
    <3> QED BY <1>3, <1>4, <1>6, <3>4, <3>5, <3>6, <3>7, <3>8 DEF Talk
  <2>6. CASE m.topic = "hbw/fault"
    <3>1. Fetched = {} /\ "hbwFetched" \notin raised
      BY <2>1, <2>3, <2>6 DEF Fetched, Heard
    <3>2. raised' = raised \cup {"hbwFault"}
      BY <1>1, <2>6 DEF Turn
    <3>3. Heard' = {"hbwFault"} /\ "hbwFetched" \notin raised' /\ ~Brought'
      BY <2>2, <2>3, <3>1, <3>2 DEF Heard, Brought
    <3>4. OneRequest'
      BY <2>1, <2>3, <2>4, <3>3 DEF Talk, OneRequest, RackSame, One
    <3>5. StoreFits'
      BY <2>1, <2>3, <2>4, <3>3 DEF StoreFits, RackSame
    <3>6. FetchFits'
      BY <2>1, <2>3, <2>4, <3>3 DEF FetchFits, RackSame
    <3>7. AnswerFits'
      BY <2>2, <2>3, <2>4, <3>3 DEF AnswerFits, RackSame, Begun
    <3>8. OneClose' /\ CloseTrue'
      BY <2>1, <2>4, <3>3 DEF Talk, OneClose, CloseTrue, RackSame, Stocked
    <3> QED BY <1>3, <1>4, <1>6, <3>4, <3>5, <3>6, <3>7, <3>8 DEF Talk
  <2> QED BY <1>9, <2>5, <2>6
<1> QED BY <1>8, <1>9

-----------------------------------------------------------------------------
(* What the robot does without the rack.                                   *)

Alone ==
  \/ VgrInit \/ EnterIdle \/ EnterFault \/ VgrFault \/ IdleFault \/ IdleSorted
  \/ IdleDelivery \/ IdleOrder \/ IdlePickup \/ IdleStore \/ IdleErrors
  \/ MoveVgr2Mpo \/ ReleaseMpo \/ StartProduce \/ NfcProduced \/ MovePickupWait
  \/ MovePickup \/ DsiPickupDelivery \/ Pickup2Delivery \/ StoreFromDso
  \/ StartDelivery \/ ColorDetection \/ NfcRaw \/ NfcRejected \/ WrongColor
  \/ RecycleTrash \/ OrderWp \/ Hbw2Pickup
Asking == FetchWpVgrOrder \/ FetchWpVgrPickup \/ StoreWpVgr
Ending == VgrWaitFetched \/ VgrWaitFetchedPickup \/ StoreWp

LEMMA AloneParts ==
  ASSUME Alone
  PROVE  /\ vgr \notin Waiting /\ vgr' \notin Waiting /\ Heard' \subseteq Heard /\ UNCHANGED cell
         /\ \/ UNCHANGED mail \/ Publish(VgrDo("PRODUCE", Flow(flow.order)))
            \/ Publish(OrderMsg(flow.store.wp.type))
         /\ \/ UNCHANGED at \/ NfcProduced
            \/ \E from, to \in {"gripper", "dsi", "dso", "oven", "scrap", "gone"} : Move(from, to)
<1> USE DEF Alone, VgrInit, EnterIdle, EnterFault, VgrFault, IdleFault, IdleSorted, IdleDelivery,
        IdleOrder, IdlePickup, IdleStore, IdleErrors, MoveVgr2Mpo, ReleaseMpo, StartProduce,
        NfcProduced, MovePickupWait, MovePickup, DsiPickupDelivery, Pickup2Delivery,
        StoreFromDso, StartDelivery, ColorDetection, NfcRaw, NfcRejected, WrongColor,
        RecycleTrash, OrderWp, Hbw2Pickup
<1>1. vgr \notin Waiting
  BY DEF Waiting, In
<1>2. vgr' \notin Waiting
  BY DEF Waiting, Goto, In
<1>3. Heard' \subseteq Heard
  BY DEF Heard, Turn
<1>4. UNCHANGED cell
  BY DEF Handless
<1>5. \/ UNCHANGED mail \/ Publish(VgrDo("PRODUCE", Flow(flow.order)))
      \/ Publish(OrderMsg(flow.store.wp.type))
  BY DEF Calm
<1>6. \/ UNCHANGED at \/ NfcProduced
      \/ \E from, to \in {"gripper", "dsi", "dso", "oven", "scrap", "gone"} : Move(from, to)
  BY DEF Handless, Drops
<1> QED BY <1>1, <1>2, <1>3, <1>4, <1>5, <1>6

\* How the gripper fares: nothing moves, it lets go, it takes, or it holds the
\* workpiece that is being identified.
LEMMA AloneGrips ==
  ASSUME Alone
  PROVE  \/ UNCHANGED at /\ vgr' \notin Identified /\ (vgr' \in Loaded \/ vgr \notin Loaded)
         \/ vgr' \notin Identified /\ \E to \in {"gone", "oven", "scrap"} : Move("gripper", to)
         \/ vgr' \notin Identified /\ is_DOUT /\ Move("gripper", "dso")
         \/ /\ vgr \notin Loaded /\ vgr' = "START_DELIVERY"
            /\ \E from \in {"dsi", "dso"} : Move(from, "gripper")
         \/ NfcProduced \/ StartDelivery \/ ColorDetection \/ NfcRaw
<1> USE DEF Identified, Loaded, Goto, In, Handless
<1>1. CASE VgrInit \/ VgrFault \/ IdleFault \/ IdleSorted \/ IdleDelivery \/ IdleOrder \/ IdlePickup
           \/ IdleStore \/ IdleErrors \/ StartProduce \/ MovePickup \/ OrderWp
           \/ MoveVgr2Mpo \/ NfcRejected \/ RecycleTrash
  BY <1>1 DEF VgrInit, VgrFault, IdleFault, IdleSorted, IdleDelivery, IdleOrder, IdlePickup, IdleStore,
       IdleErrors, StartProduce, MovePickup, OrderWp, MoveVgr2Mpo, NfcRejected, RecycleTrash
<1>2. CASE EnterIdle \/ EnterFault \/ ReleaseMpo \/ WrongColor
  BY <1>2 DEF EnterIdle, EnterFault, ReleaseMpo, WrongColor, Drops
<1>3. CASE MovePickupWait \/ Hbw2Pickup
  BY <1>3 DEF MovePickupWait, Hbw2Pickup
<1>4. CASE DsiPickupDelivery \/ Pickup2Delivery \/ StoreFromDso
  BY <1>4 DEF DsiPickupDelivery, Pickup2Delivery, StoreFromDso
<1> QED BY <1>1, <1>2, <1>3, <1>4 DEF Alone

LEMMA AloneGripper ==
  ASSUME HandoverInv, Alone
  PROVE  InGripper'
<1> USE DEF HandoverInv
<1>p. PlantOK /\ FlowOK /\ at \in [Parts -> Places]
  BY DEF Types, RobotOK, PlantOK
<1>1. CASE UNCHANGED at /\ vgr' \notin Identified /\ (vgr' \in Loaded \/ vgr \notin Loaded)
  <2>1. GripperSame
    BY <1>1 DEF GripperSame, Held
  <2> QED BY <1>1, <2>1 DEF GripperSame, InGripper, Identified
<1>2. CASE vgr' \notin Identified /\ \E to \in {"gone", "oven", "scrap"} : Move("gripper", to)
  <2>1. Held("gripper")' = {} /\ Held("dsi")' = Held("dsi") /\ Held("dso")' = Held("dso")
    BY <1>2 DEF Held, Move
  <2> QED BY <1>2, <2>1 DEF InGripper, One, Identified
<1>3. CASE vgr' \notin Identified /\ is_DOUT /\ Move("gripper", "dso")
  <2>1. Held("gripper")' = {} /\ Held("dsi")' = Held("dsi") /\ Held("dso")' = Held("gripper")
    BY <1>3 DEF Held, Move, is_DOUT
  <2> QED BY <1>3, <2>1 DEF InGripper, One, Identified
<1>4. CASE vgr \notin Loaded /\ vgr' = "START_DELIVERY" /\ \E from \in {"dsi", "dso"} : Move(from, "gripper")
  <2>1. Held("gripper") = {}
    BY <1>4 DEF InGripper
  <2>2. PICK from \in {"dsi", "dso"} : Move(from, "gripper")
    BY <1>4
  <2>3. /\ Held("gripper")' = Held(from) /\ Held("dsi")' \subseteq Held("dsi") /\ Held("dso")' \subseteq Held("dso")
    BY <2>1, <2>2 DEF Held, Move
  <2>4. One(Held("gripper")') /\ One(Held("dsi")') /\ One(Held("dso")')
    BY <2>3 DEF InGripper, One
  <2>5. vgr' \in Loaded /\ vgr' \notin Identified
    BY <1>4 DEF Loaded, Identified
  <2> QED BY <2>4, <2>5 DEF InGripper, Identified
<1>5. CASE NfcProduced
  <2>1. Held("gripper") = {} /\ vgr' \in Loaded /\ vgr' \notin Identified
    BY <1>5 DEF NfcProduced, In, Goto, InGripper, Loaded, Identified
  <2>2. CASE UNCHANGED at
    BY <2>1, <2>2 DEF InGripper, Identified, Held
  <2>3. CASE ~UNCHANGED at
    <3>1. PICK p \in Held(Bay(flow.order.wp.type)) : at' = [at EXCEPT ![p] = "gripper"]
      BY <1>5, <2>3, NfcTakes
    <3>2. p \in Parts /\ at[p] \in Bays /\ \A q \in Parts : at'[q] = IF q = p THEN "gripper" ELSE at[q]
      BY <1>p, <3>1 DEF Held, Bay, Bays
    <3>3. Held("gripper")' = {p} /\ Held("dsi")' = Held("dsi") /\ Held("dso")' = Held("dso")
      BY <2>1, <3>2 DEF Held, Bays
    <3> QED BY <2>1, <3>3 DEF InGripper, Identified, One
  <2> QED BY <2>2, <2>3
<1>6. CASE StartDelivery
  <2>1. GripperSame
    BY <1>6 DEF GripperSame, Held, StartDelivery, Handless
  <2> DEFINE read == Wp(ReadUID, tag[ReadUID].type, tag[ReadUID].state)
  <2>2. \/ vgr' = "WRONG_COLOR"
        \/ /\ ReadUID # NoUid /\ flow' = [flow EXCEPT !.store = With([NoStore EXCEPT !.state = "STORE_ACKNOWLEDGED"], read)]
           /\ (vgr' = "STORE_WP_VGR" /\ read.type # "NONE") \/ vgr' = "COLOR_DETECTION"
    BY <1>6 DEF StartDelivery, Goto, SetStore
  <2>3. CASE vgr' = "WRONG_COLOR"
    BY <2>1, <2>3 DEF InGripper, GripperSame, Loaded, Identified
  <2>4. CASE vgr' # "WRONG_COLOR"
    <3>1. flow'.store.wp = read
      BY <1>p, <2>2, <2>4 DEF With, FlowOK
    <3>2. flow'.store.wp.uid = ReadUID /\ flow'.store.wp.type = read.type
      BY <3>1 DEF Wp
    <3>3. ReadUID \in Held("gripper")
      BY <2>2, <2>4, ReadIsPart
    <3>4. Held("gripper")' = {ReadUID}
      BY <2>1, <3>3 DEF InGripper, GripperSame, One
    <3>5. vgr' \in Loaded /\ (vgr' \in {"NFC_RAW", "STORE_WP_VGR"} => read.type # "NONE")
      BY <2>2, <2>4 DEF Loaded
    <3> HIDE DEF read
    <3> QED BY <2>1, <3>2, <3>4, <3>5 DEF InGripper, GripperSame
  <2> QED BY <2>3, <2>4
<1>7. CASE ColorDetection
  <2>1. GripperSame /\ Held("gripper") = {flow.store.wp.uid}
    BY <1>7 DEF GripperSame, Held, ColorDetection, Handless, In, InGripper, Identified
  <2>2. \/ vgr' = "NFC_REJECTED"
        \/ /\ vgr' = "NFC_RAW"
           /\ LET c == ColourOf[flow.store.wp.uid] IN
                flow' = [flow EXCEPT !.store.wp.type = c, !.store.state = "IDENTIFICATION", !.seen = c]
    BY <1>7 DEF ColorDetection, Goto
  <2>3. CASE vgr' = "NFC_REJECTED"
    BY <2>1, <2>3 DEF InGripper, GripperSame, Loaded, Identified
  <2>4. CASE vgr' = "NFC_RAW"
    <3>1. flow.store.wp.uid \in Parts
      BY <2>1 DEF Held
    <3>2. flow'.store.wp.uid = flow.store.wp.uid /\ flow'.store.wp.type = ColourOf[flow.store.wp.uid]
      <4>1. \A c : flow' = [flow EXCEPT !.store.wp.type = c, !.store.state = "IDENTIFICATION", !.seen = c]
                  => flow'.store.wp.uid = flow.store.wp.uid /\ flow'.store.wp.type = c
        <5>1. SUFFICES ASSUME NEW c PROVE
                LET f1 == [flow EXCEPT !.store.wp.type = c]
                    f2 == [f1 EXCEPT !.store.state = "IDENTIFICATION"]
                    f3 == [f2 EXCEPT !.seen = c]
                IN  f3.store.wp.uid = flow.store.wp.uid /\ f3.store.wp.type = c
          OBVIOUS
        <5> DEFINE f1 == [flow EXCEPT !.store.wp.type = c]
                   f2 == [f1 EXCEPT !.store.state = "IDENTIFICATION"]
        <5>2. f1.store.wp.uid = flow.store.wp.uid /\ f1.store.wp.type = c /\ DOMAIN f1 = DOMAIN flow
              /\ DOMAIN f1.store = DOMAIN flow.store
          BY <1>p DEF FlowOK, StoreRec, Workpiece
        <5> HIDE DEF f1
        <5>3. f2.store.wp = f1.store.wp /\ DOMAIN f2 = DOMAIN flow
          BY <1>p, <5>2 DEF FlowOK, StoreRec
        <5> HIDE DEF f2
        <5> QED BY <1>p, <5>2, <5>3 DEF FlowOK, f1, f2
      <4> QED BY <2>2, <2>4, <4>1
    <3>3. flow'.store.wp.type # "NONE"
      BY <3>1, <3>2, TxtConstants DEF Colours
    <3> QED BY <2>1, <2>4, <3>2, <3>3 DEF InGripper, GripperSame, Loaded
  <2> QED BY <2>2, <2>3, <2>4
<1>8. CASE NfcRaw
  <2>1. /\ GripperSame /\ Held("gripper") = {flow.store.wp.uid} /\ flow.store.wp.type # "NONE"
    BY <1>8 DEF GripperSame, Held, NfcRaw, In, InGripper, Identified
  <2>2. \/ vgr' \in {"WRONG_COLOR", "ENTER_FAULT"}
        \/ vgr' = "STORE_WP_VGR" /\ flow' = [flow EXCEPT !.store = [flow.store EXCEPT !.wp.state = "RAW"]]
    BY <1>8 DEF NfcRaw, Goto, SetStore
  <2>3. CASE vgr' \in {"WRONG_COLOR", "ENTER_FAULT"}
    BY <2>1, <2>3 DEF InGripper, GripperSame, Loaded, Identified
  <2>4. CASE vgr' = "STORE_WP_VGR"
    <3>1. flow'.store.wp.uid = flow.store.wp.uid /\ flow'.store.wp.type = flow.store.wp.type
      BY <1>p, <2>2, <2>4 DEF FlowOK, StoreRec, Workpiece
    <3> QED BY <2>1, <2>4, <3>1 DEF InGripper, GripperSame, Loaded
  <2> QED BY <2>2, <2>3, <2>4
<1> QED BY <1>1, <1>2, <1>3, <1>4, <1>5, <1>6, <1>7, <1>8, AloneGrips

LEMMA AloneKeeps ==
  ASSUME HandoverInv, Alone, VgrStep
  PROVE  Talk' /\ Shelves' /\ InGripper'
<1> USE DEF HandoverInv
<1>1. UNCHANGED storage /\ UNCHANGED hbwVars /\ UNCHANGED tray /\ UNCHANGED cell
  BY AloneParts, VgrStepParts
<1>2. MailSame
  <2>1. /\ VgrDo("PRODUCE", Flow(flow.order)) \in Letters /\ OrderMsg(flow.store.wp.type) \in Letters
    <3>1. FlowOK
      BY DEF Types, RobotOK
    <3>2. Flow(flow.order) \in Flows /\ flow.store.wp.type \in Kinds
      BY <3>1, Rewritten DEF StoreRec, Workpiece, Kinds
    <3> QED BY <3>2, Sendings
  <2>2. /\ \A f : VgrDo("PRODUCE", f).code = "PRODUCE" /\ VgrDo("PRODUCE", f).topic = "vgr/do"
        /\ \A c : OrderMsg(c).topic = "order"
    BY DEF VgrDo, OrderMsg, Msg
  <2>3. OrderMsg(flow.store.wp.type).code \notin RackCodes /\ "PRODUCE" \notin RackCodes
    BY <2>1, <2>2 DEF Letters, RackCodes, ReqCodes
  <2>4. MailOK /\ EachOnce
    BY DEF Types, Talk, OneRequest
  <2> QED BY <2>1, <2>2, <2>3, <2>4, AloneParts, Silence
<1>3. Talk'
  BY <1>1, <1>2, AloneParts, RestKept DEF RackSame, storage, hbwVars
<1>4. \A p \in Parts : at[p] = "rack" => at'[p] = "rack"
  <2>1. CASE NfcProduced
    <3>1. UNCHANGED at \/ \E p \in Held(Bay(flow.order.wp.type)) : at' = [at EXCEPT ![p] = "gripper"]
      BY <2>1, NfcTakes
    <3> QED BY <3>1 DEF Held, Bay, Types, PlantOK
  <2>2. CASE UNCHANGED at \/ \E from, to \in {"gripper", "dsi", "dso", "oven", "scrap", "gone"} : Move(from, to)
    BY <2>2 DEF Move
  <2> QED BY <2>1, <2>2, AloneParts
<1>5. Shelves'
  BY <1>1, <1>4, ShelvesKept DEF Types, hbwVars
<1>6. InGripper'
  BY AloneGripper
<1> QED BY <1>3, <1>5, <1>6

\* The head of the loop.
LEMMA HeadKeeps ==
  ASSUME HandoverInv, VgrHead \/ VgrMode
  PROVE  Talk' /\ Shelves' /\ InGripper'
<1> USE DEF HandoverInv
<1>1. /\ UNCHANGED <<vgr, flow, mail, at, cell, tray>> /\ UNCHANGED storage /\ UNCHANGED hbwVars
  BY DEF VgrHead, VgrMode, Calm, Handless, Elsewhere
<1>2. Heard' = Heard
  BY DEF VgrHead, VgrMode, Turn, Heard
<1>3. MailSame
  BY <1>1, Silence DEF Types, Talk, OneRequest
<1>4. Talk'
  BY <1>1, <1>2, <1>3, TalkKept DEF RackSame, storage, hbwVars
<1>5. Shelves'
  BY <1>1, ShelvesKept DEF Types, hbwVars
<1>6. InGripper'
  BY <1>1, GripperKept DEF GripperSame, Held
<1> QED BY <1>4, <1>5, <1>6

-----------------------------------------------------------------------------
(* The robot asks the rack, and ends what it has asked for.                *)

LEMMA AskKept ==
  ASSUME Talk, MailOK, RackSame, vgr \notin Waiting, vgr' \in Waiting, UNCHANGED raised,
         NEW m \in Letters, Publish(m), m.code \in ReqCodes,
         vgr' = "STORE_WP" => m.code = "FETCHCONTAINER" /\ m.flow.wp.uid = flow'.store.wp.uid,
         vgr' # "STORE_WP" => m.code = "FETCH_WP"
  PROVE  Talk'
<1> USE DEF Talk, RackSame
<1>1. /\ Sent = {} /\ hbwQ = <<>> /\ hbw \notin Begun /\ Replies = {} /\ Heard = {}
      /\ "hbwFetched" \notin raised /\ EachOnce
  BY Resting DEF OneRequest
<1>2. m \in Requesting /\ m \notin Storing /\ m \notin Returning /\ m \notin Answering
  <2>1. m.code \in RackCodes
    BY DEF RackCodes
  <2> QED BY <2>1, Heeding DEF Requesting, Storing, Returning, ReqCodes
<1>3. Sent' = {m} /\ Stores' = Stores /\ Returns' = Returns /\ Replies' = {} /\ EachOnce'
  <2>1. /\ Sent' = Sent \cup ({m} \cap Requesting) /\ Stores' = Stores \cup ({m} \cap Storing)
        /\ Returns' = Returns \cup ({m} \cap Returning) /\ Replies' = Replies \cup ({m} \cap Answering)
        /\ EachOnce'
    BY <1>1, <1>2, Posting
  <2> QED BY <1>1, <1>2, <2>1
<1>4. Heard' = {} /\ Fetched' = {} /\ ~Brought'
  BY <1>1, <1>3 DEF Heard, Fetched, Brought
<1>5. OneRequest'
  BY <1>1, <1>3, <1>4 DEF OneRequest, One
<1>6. StoreFits' /\ FetchFits'
  BY <1>1, <1>3, <1>4 DEF StoreFits, FetchFits, ForGripper
<1>7. AnswerFits' /\ OneClose' /\ CloseTrue'
  BY <1>1, <1>3, <1>4 DEF AnswerFits, OneClose, CloseTrue, Begun, Stocked
<1> QED BY <1>5, <1>6, <1>7

LEMMA AskingKeeps ==
  ASSUME HandoverInv, Asking, VgrStep
  PROVE  Talk' /\ Shelves' /\ InGripper'
<1> USE DEF HandoverInv
<1>p. FlowOK /\ MailOK /\ Talk /\ PlantOK
  BY DEF Types, RobotOK
<1>1. /\ UNCHANGED storage /\ UNCHANGED hbwVars /\ UNCHANGED tray
  BY VgrStepParts
<1>2. /\ \A code, f : VgrDo(code, f).code = code /\ VgrDo(code, f).flow = f
      /\ VgrDo("FETCH_WP", Flow(flow.order)) \in Letters /\ VgrDo("FETCH_WP", Flow(flow.pickup)) \in Letters
      /\ VgrDo("FETCHCONTAINER", Flow(flow.store)) \in Letters
  BY <1>p, Rewritten, Sendings DEF VgrDo, Msg, RackCodes, ReqCodes
<1>3. CASE FetchWpVgrOrder
  <2>1. /\ UNCHANGED <<cell, at, raised, flow>> /\ vgr = "FETCH_WP_VGR_ORDER" /\ vgr' = "VGR_WAIT_FETCHED"
        /\ Publish(VgrDo("FETCH_WP", Flow(flow.order)))
    BY <1>3 DEF FetchWpVgrOrder, Handless, In, Goto
  <2>2. Talk'
    BY <1>p, <1>1, <1>2, <2>1, AskKept DEF Waiting, RackSame, storage, hbwVars, ReqCodes
  <2>3. Shelves'
    BY <1>p, <1>1, <2>1, ShelvesKept DEF hbwVars
  <2>4. InGripper'
    BY <2>1 DEF InGripper, Held, Loaded, Identified
  <2> QED BY <2>2, <2>3, <2>4
<1>4. CASE FetchWpVgrPickup
  <2>1. /\ UNCHANGED <<cell, at, raised>> /\ vgr = "FETCH_WP_VGR_PICKUP" /\ vgr' = "VGR_WAIT_FETCHED_PICKUP"
        /\ Publish(VgrDo("FETCH_WP", Flow(flow.pickup)))
    BY <1>4 DEF FetchWpVgrPickup, Handless, In, Goto
  <2>2. Talk'
    BY <1>p, <1>1, <1>2, <2>1, AskKept DEF Waiting, RackSame, storage, hbwVars, ReqCodes
  <2>3. Shelves'
    BY <1>p, <1>1, <2>1, ShelvesKept DEF hbwVars
  <2>4. InGripper'
    BY <2>1 DEF InGripper, Held, Loaded, Identified
  <2> QED BY <2>2, <2>3, <2>4
<1>5. CASE StoreWpVgr
  <2>1. vgr = "STORE_WP_VGR" /\ flow.store.wp.type # "NONE" /\ Held("gripper") = {flow.store.wp.uid}
    BY <1>5 DEF StoreWpVgr, In, InGripper, Identified
  <2>2. /\ UNCHANGED <<cell, at, raised>> /\ vgr' = "STORE_WP"
        /\ Publish(VgrDo("FETCHCONTAINER", Flow(flow.store)))
        /\ flow' = [flow EXCEPT !.store = [StoreIs("STORING") EXCEPT !.wp.type = flow.seen]]
    BY <1>5, <2>1 DEF StoreWpVgr, Goto, SetStore
  <2>3. flow'.store.wp.uid = flow.store.wp.uid
    BY <1>p, <2>2 DEF StoreIs, FlowOK, StoreRec, Workpiece
  <2>4. Flow(flow.store).wp.uid = flow.store.wp.uid
    BY DEF Flow, Workflow
  <2>5. Talk'
    BY <1>p, <1>1, <1>2, <2>1, <2>2, <2>3, <2>4, AskKept DEF Waiting, RackSame, storage, hbwVars, ReqCodes
  <2>6. Shelves'
    BY <1>p, <1>1, <2>2, ShelvesKept DEF hbwVars
  <2>7. InGripper'
    BY <2>1, <2>2, <2>3 DEF InGripper, Held, Loaded
  <2> QED BY <2>5, <2>6, <2>7
<1> QED BY <1>3, <1>4, <1>5 DEF Asking

\* What the robot that has been told FETCHED knows.
LEMMA ToldFetched ==
  ASSUME Talk, "hbwFetched" \in raised
  PROVE  /\ vgr \in Waiting /\ Heard = {"hbwFetched"} /\ Brought
         /\ Sent = {} /\ hbwQ = <<>> /\ hbw \notin Begun /\ Replies = {} /\ Fetched = {}
         /\ Stores = {} /\ Returns = {} /\ hbwFlag = {} /\ flow.hbw.uid = hbwReq.wp.uid
         /\ vgr = "STORE_WP" => hbw = "STORE_WP" /\ ForGripper(hbwReq) /\ cell[nextFetchPos] = NoUid
         /\ vgr # "STORE_WP" => hbw = "FETCH_WP_WAIT" /\ Stocked
<1> USE DEF Talk
<1>1. "hbwFetched" \in Heard /\ Brought
  BY DEF Heard, Brought
<1>2. Heard = {"hbwFetched"}
  BY <1>1 DEF OneRequest, One
<1>3. Sent = {} /\ hbwQ = <<>> /\ hbw \notin Begun /\ Replies = {} /\ vgr \in Waiting
  BY <1>1 DEF OneRequest
<1>4. Fetched = {}
  BY <1>3 DEF Fetched
<1>5. Stores = {} /\ Returns = {} /\ hbwFlag = {}
  BY <1>1 DEF OneClose
<1>6. vgr = "STORE_WP" => hbw = "STORE_WP" /\ ForGripper(hbwReq) /\ cell[nextFetchPos] = NoUid
  BY <1>1 DEF StoreFits
<1>7. vgr # "STORE_WP" => hbw = "FETCH_WP_WAIT"
  BY <1>1, <1>3 DEF FetchFits
<1>8. vgr # "STORE_WP" => Stocked
  BY <1>1, <1>7 DEF AnswerFits
<1>9. flow.hbw.uid = hbwReq.wp.uid
  BY DEF AnswerFits
<1> QED BY <1>1, <1>2, <1>3, <1>4, <1>5, <1>6, <1>7, <1>8, <1>9

\* After a fault the robot goes its own way.
LEMMA GivesUp ==
  ASSUME HandoverInv, vgr \in Waiting, "hbwFault" \in raised, "hbwFetched" \notin raised,
         UNCHANGED <<mail, cell, at, tray>>, UNCHANGED storage, UNCHANGED hbwVars, vgr' = "ENTER_FAULT",
         raised' \subseteq raised, "hbwFault" \notin raised'
  PROVE  Talk' /\ Shelves' /\ InGripper'
<1> USE DEF HandoverInv
<1>1. Sent = {} /\ hbwQ = <<>> /\ hbw \notin Begun /\ Replies = {} /\ EachOnce
  <2>1. Heard # {}
    BY DEF Heard
  <2> QED BY <2>1 DEF Talk, OneRequest
<1>2. MailSame
  BY <1>1, Silence DEF Types
<1>3. Heard' = {} /\ Fetched' = {} /\ "hbwFetched" \notin raised' /\ ~Brought'
  BY <1>1, <1>2 DEF Heard, Fetched, Brought, MailSame
<1>4. RackSame
  BY DEF RackSame, storage, hbwVars
<1>5. OneRequest'
  BY <1>1, <1>2, <1>3, <1>4 DEF OneRequest, One, MailSame, RackSame
<1>6. StoreFits' /\ FetchFits'
  BY DEF StoreFits, FetchFits, Waiting
<1>7. AnswerFits'
  BY <1>1, <1>3, <1>4 DEF AnswerFits, Begun, RackSame
<1>8. OneClose' /\ CloseTrue'
  BY <1>2, <1>3, <1>4 DEF Talk, OneClose, CloseTrue, MailSame, RackSame, Stocked
<1>9. Shelves'
  BY ShelvesKept DEF Types, hbwVars
<1>10. InGripper'
  BY DEF InGripper, Held, Loaded, Identified
<1> QED BY <1>5, <1>6, <1>7, <1>8, <1>9, <1>10 DEF Talk

\* The robot has what it asked for: it takes it off the tray, or puts its own
\* workpiece down, and says so.
LEMMA Closes ==
  ASSUME HandoverInv, "hbwFetched" \in raised, vgr' \notin Waiting, Heard' = {},
         UNCHANGED storage, UNCHANGED hbwVars,
         NEW m \in Letters, Publish(m),
         \/ vgr = "STORE_WP" /\ m.code = "STORE_WP" /\ cell'[nextFetchPos] = hbwReq.wp.uid /\ hbwReq.wp.uid \in Parts
         \/ vgr # "STORE_WP" /\ m.code = "STORECONTAINER" /\ cell'[nextFetchPos] = NoUid
  PROVE  Talk'
<1> USE DEF HandoverInv, storage, hbwVars
<1>1. /\ Sent = {} /\ hbwQ = <<>> /\ hbw \notin Begun /\ Replies = {}
      /\ Stores = {} /\ Returns = {} /\ hbwFlag = {} /\ EachOnce /\ MailOK
      /\ vgr = "STORE_WP" => hbw = "STORE_WP"
      /\ vgr # "STORE_WP" => hbw = "FETCH_WP_WAIT"
  BY ToldFetched DEF Talk, OneRequest, Types
<1>2. m \notin Requesting /\ m \notin Answering
  BY Heeding DEF Requesting, ReqCodes, RackCodes
<1>3. /\ Sent' = {} /\ Replies' = {} /\ EachOnce'
      /\ vgr = "STORE_WP" => Stores' = {m} /\ Returns' = {}
      /\ vgr # "STORE_WP" => Stores' = {} /\ Returns' = {m}
  BY <1>1, <1>2, Posting DEF Storing, Returning
<1>4. Fetched' = {} /\ "hbwFetched" \notin raised' /\ ~Brought'
  BY <1>3 DEF Heard, Fetched, Brought
<1>5. OneRequest'
  BY <1>1, <1>3, <1>4 DEF OneRequest, One
<1>6. StoreFits' /\ FetchFits'
  BY DEF StoreFits, FetchFits, Waiting
<1>7. AnswerFits'
  BY <1>1, <1>4 DEF AnswerFits, Begun
<1>8. OneClose'
  BY <1>1, <1>3, <1>4 DEF OneClose
<1>9. CloseTrue'
  BY <1>1, <1>3 DEF CloseTrue, Stocked
<1> QED BY <1>5, <1>6, <1>7, <1>8, <1>9 DEF Talk

LEMMA TakesOff ==
  ASSUME HandoverInv, "hbwFetched" \in raised, TakeFromTray, vgr # "STORE_WP", vgr' \in Loaded \ Identified,
         vgr' \notin Waiting, Heard' = {}, UNCHANGED storage, UNCHANGED hbwVars, UNCHANGED tray,
         NEW m \in Letters, Publish(m), m.code = "STORECONTAINER"
  PROVE  Talk' /\ Shelves' /\ InGripper'
<1> USE DEF HandoverInv
<1>1. hbw = "FETCH_WP_WAIT" /\ Stocked /\ vgr \in Waiting
  BY ToldFetched
<1>2. nextFetchPos \in Slots /\ wp[nextFetchPos] = Null /\ tray = nextFetchPos
  BY <1>1 DEF Shelves, SlotOut, Out
<1>p. PlantOK
  BY DEF Types
<1>3. \A s \in Slots : cell'[s] = IF s = tray THEN NoUid ELSE cell[s]
  BY <1>p DEF PlantOK, TakeFromTray
<1>4. cell[tray] \in Parts /\ at[cell[tray]] = "rack"
  BY <1>1, <1>2, NoUidAssumption DEF Stocked, Shelves, CellsTrue
<1>5. \A p \in Parts : at'[p] = IF p = cell[tray] THEN "gripper" ELSE at[p]
  BY DEF TakeFromTray
<1>6. Talk'
  BY <1>2, <1>3, Closes
<1>7. SlotOut'
  BY DEF Shelves, SlotOut, storage, hbwVars
<1>8. RackExact'
  BY <1>1, <1>2, <1>3 DEF Shelves, RackExact, InHand, storage, hbwVars, Listed
<1>9. CellsTrue'
  BY <1>p, <1>2, <1>3, <1>4, <1>5 DEF Shelves, CellsTrue, PlantOK
<1>10. Held("gripper")' = {cell[tray]} /\ Held("dsi")' = Held("dsi") /\ Held("dso")' = Held("dso")
  <2>1. Held("gripper") = {}
    BY <1>1 DEF InGripper, Loaded, Waiting
  <2> QED BY <1>4, <1>5, <2>1 DEF Held
<1>11. InGripper'
  BY <1>10 DEF InGripper, One, Identified
<1> QED BY <1>6, <1>7, <1>8, <1>9, <1>11 DEF Shelves

LEMMA PutsDown ==
  ASSUME HandoverInv, "hbwFetched" \in raised, PutOnTray, vgr = "STORE_WP", vgr' \notin Loaded,
         vgr' \notin Waiting, Heard' = {}, UNCHANGED storage, UNCHANGED hbwVars, UNCHANGED tray,
         NEW m \in Letters, Publish(m), m.code = "STORE_WP"
  PROVE  Talk' /\ Shelves' /\ InGripper'
<1> USE DEF HandoverInv
<1> DEFINE p == flow.store.wp.uid
<1>1. hbw = "STORE_WP" /\ cell[nextFetchPos] = NoUid /\ hbwReq.wp.uid = p /\ Held("gripper") = {p}
  BY ToldFetched DEF ForGripper, InGripper, Identified
<1>2. nextFetchPos \in Slots /\ wp[nextFetchPos] = Null /\ tray = nextFetchPos
  BY <1>1 DEF Shelves, SlotOut, Out
<1>p. PlantOK
  BY DEF Types
<1>q. p \in Parts /\ at[p] = "gripper"
  BY <1>1 DEF Held
<1>3. \A s \in Slots : cell'[s] = IF s = tray THEN p ELSE cell[s]
  BY <1>p, <1>1 DEF PlantOK, PutOnTray
<1>4. \A q \in Parts : at'[q] = IF q = p THEN "rack" ELSE at[q]
  <2>1. \A q \in Parts : (at[q] = "gripper") <=> q = p
    BY <1>1, <1>q DEF Held
  <2> QED BY <2>1 DEF PutOnTray, Move
<1>5. \A s \in Slots : cell[s] # p
  BY <1>q, NoUidAssumption DEF Shelves, CellsTrue
<1> HIDE DEF p
<1>6. Talk'
  BY <1>1, <1>2, <1>3, <1>q, Closes
<1>7. SlotOut'
  BY DEF Shelves, SlotOut, storage, hbwVars
<1>8. RackExact'
  BY <1>1, <1>2, <1>3 DEF Shelves, RackExact, InHand, storage, hbwVars, Listed
<1>9. CellsTrue'
  <2>1. \A s, t \in Slots : cell'[s] = cell'[t] /\ cell'[s] # NoUid => s = t
    BY <1>2, <1>3, <1>5 DEF Shelves, CellsTrue
  <2>2. ASSUME NEW s \in Slots, cell'[s] # NoUid PROVE at'[cell'[s]] = "rack"
    <3>1. cell'[s] \in Parts
      BY <1>p, <1>3, <1>q, <2>2 DEF PlantOK
    <3> QED BY <1>3, <1>4, <2>2, <3>1 DEF Shelves, CellsTrue
  <2> QED BY <2>1, <2>2 DEF CellsTrue
<1>10. Held("gripper")' = {} /\ Held("dsi")' = Held("dsi") /\ Held("dso")' = Held("dso")
  <2>1. \A q \in Parts : at[q] = "gripper" => q = p
    BY <1>1 DEF Held
  <2> QED BY <1>q, <1>4, <2>1 DEF Held
<1>11. InGripper'
  BY <1>10 DEF InGripper, One, Identified, Loaded
<1> QED BY <1>6, <1>7, <1>8, <1>9, <1>11 DEF Shelves

LEMMA EndingKeeps ==
  ASSUME HandoverInv, Ending, VgrStep
  PROVE  Talk' /\ Shelves' /\ InGripper'
<1> USE DEF HandoverInv
<1>p. FlowOK
  BY DEF Types, RobotOK
<1>1. /\ UNCHANGED storage /\ UNCHANGED hbwVars /\ UNCHANGED tray
  BY VgrStepParts
<1>2. /\ \A code, f : VgrDo(code, f).code = code
      /\ VgrDo("STORECONTAINER", Workflow(flow.order.uid, flow.hbw)) \in Letters
      /\ VgrDo("STORECONTAINER", Workflow(0, flow.hbw)) \in Letters
      /\ VgrDo("STORE_WP", Workflow(0, flow.hbw)) \in Letters
  BY <1>p, Rewritten, Sendings DEF VgrDo, Msg, RackCodes, ReqCodes
<1>3. CASE VgrWaitFetched
  <2>1. vgr = "VGR_WAIT_FETCHED" /\ raised' = raised \ {"hbwFetched", "hbwFault"} /\ Heard' = {}
    BY <1>3 DEF VgrWaitFetched, In, Turn, Heard
  <2>2. CASE "hbwFetched" \in raised
    <3>1. /\ TakeFromTray /\ vgr' = "MOVE_VGR2MPO"
          /\ Publish(VgrDo("STORECONTAINER", Workflow(flow.order.uid, flow.hbw)))
      BY <1>3, <2>2 DEF VgrWaitFetched, Goto
    <3> QED BY <1>1, <1>2, <2>1, <2>2, <3>1, TakesOff DEF Loaded, Identified, Waiting
  <2>3. CASE "hbwFetched" \notin raised
    <3>1. "hbwFault" \in raised /\ vgr' = "ENTER_FAULT" /\ UNCHANGED <<mail, cell, at>>
      BY <1>3, <2>3 DEF VgrWaitFetched, Goto
    <3> QED BY <1>1, <2>1, <2>3, <3>1, GivesUp DEF Waiting
  <2> QED BY <2>2, <2>3
<1>4. CASE VgrWaitFetchedPickup
  <2>1. vgr = "VGR_WAIT_FETCHED_PICKUP" /\ raised' = raised \ {"hbwFetched", "hbwFault"} /\ Heard' = {}
    BY <1>4 DEF VgrWaitFetchedPickup, In, Turn, Heard
  <2>2. CASE "hbwFetched" \in raised
    <3>1. /\ TakeFromTray /\ vgr' = "HBW2PICKUP"
          /\ Publish(VgrDo("STORECONTAINER", Workflow(0, flow.hbw)))
      BY <1>4, <2>2 DEF VgrWaitFetchedPickup, Goto
    <3> QED BY <1>1, <1>2, <2>1, <2>2, <3>1, TakesOff DEF Loaded, Identified, Waiting
  <2>3. CASE "hbwFetched" \notin raised
    <3>1. "hbwFault" \in raised /\ vgr' = "ENTER_FAULT" /\ UNCHANGED <<mail, cell, at>>
      BY <1>4, <2>3 DEF VgrWaitFetchedPickup, Goto
    <3> QED BY <1>1, <2>1, <2>3, <3>1, GivesUp DEF Waiting
  <2> QED BY <2>2, <2>3
<1>5. CASE StoreWp
  <2>1. vgr = "STORE_WP"
    BY <1>5 DEF StoreWp, In
  <2>2. CASE "hbwFault" \notin raised
    <3>1. /\ "hbwFetched" \in raised /\ PutOnTray /\ Publish(VgrDo("STORE_WP", Workflow(0, flow.hbw)))
          /\ raised' = raised \ {"hbwFetched"} /\ vgr' \in {"ORDER_WP", "ENTER_IDLE"}
      BY <1>5, <2>2 DEF StoreWp, Turn, Goto
    <3>2. Heard' = {}
      BY <2>2, <3>1 DEF Heard
    <3> QED BY <1>1, <1>2, <2>1, <3>1, <3>2, PutsDown DEF Loaded, Waiting
  <2>3. CASE "hbwFault" \in raised
    <3>1. /\ vgr' = "ENTER_FAULT" /\ raised' = raised \ {"hbwFault"} /\ UNCHANGED <<mail, cell, at>>
      BY <1>5, <2>3 DEF StoreWp, Turn, Goto
    <3>2. "hbwFetched" \notin raised
      BY <2>3, ToldFetched DEF Heard
    <3> QED BY <1>1, <2>1, <2>3, <3>1, <3>2, GivesUp DEF Waiting
  <2> QED BY <2>2, <2>3
<1> QED BY <1>3, <1>4, <1>5 DEF Ending

LEMMA RobotKeeps ==
  ASSUME HandoverInv, VgrRuns
  PROVE  HandoverInv'
<1> USE DEF HandoverInv
<1>1. CASE VgrReceive
  BY <1>1, VgrReceiveKeeps DEF VgrRuns
<1>2. CASE VgrStep
  <2>1. Talk' /\ Shelves' /\ InGripper'
    <3>1. VgrHead \/ VgrMode \/ Alone \/ Asking \/ Ending
      BY <1>2 DEF VgrStep, Alone, Asking, Ending
    <3> QED BY <1>2, <3>1, AloneKeeps, HeadKeeps, AskingKeeps, EndingKeeps
  <2>2. RobotOK' /\ PlantOK' /\ MailOK'
    <3>1. vgr \in Identified => flow.store.wp.uid \in Held("gripper")
      BY DEF InGripper
    <3>2. /\ vgr = "COLOR_DETECTION" => flow.store.wp.uid \in Parts
          /\ vgr = "STORE_WP" => Held("gripper") # {}
      BY <3>1 DEF Identified, Held
    <3> QED BY <1>2, <3>2, VgrStepTypes
  <2>3. StorageTypeOK' /\ HbwTypeOK' /\ RackOK' /\ MpoOK' /\ SldOK'
    <3>1. UNCHANGED storage /\ UNCHANGED hbwVars /\ UNCHANGED stationVars
      BY <1>2, VgrStepParts DEF VgrRuns
    <3> QED BY <3>1 DEF Types, storage, hbwVars, stationVars, StorageTypeOK, HbwTypeOK, RackOK, MpoOK, SldOK
  <2> QED BY <2>1, <2>2, <2>3 DEF Types
<1> QED BY <1>1, <1>2 DEF VgrRuns

-----------------------------------------------------------------------------
(* What the rack hears.                                                    *)

RobotSame == UNCHANGED <<vgr, flow, raised, at, cell>>

LEMMA Reading ==
  ASSUME MailOK, EachOnce, NEW m \in Arrived("HBW"), Received("HBW")
  PROVE  /\ m \in Letters /\ EachOnce' /\ Replies' = Replies
         /\ m.code \in ReqCodes => Sent = {m} /\ Sent' = {} /\ Stores' = Stores /\ Returns' = Returns
         /\ m.code = "STORE_WP" => Sent' = Sent /\ Stores = {m} /\ Stores' = {} /\ Returns' = Returns
         /\ m.code = "STORECONTAINER" => Sent' = Sent /\ Stores' = Stores /\ Returns = {m} /\ Returns' = {}
         /\ m.topic = "ack" => Sent' = Sent /\ Stores' = Stores /\ Returns' = Returns
<1>1. m \in Letters /\ "HBW" \in Clients
  BY ReceiveOK DEF Clients
<1>2. m.topic = "ack" => m.code \notin RackCodes
  BY <1>1 DEF Letters
<1>3. /\ m.code \in ReqCodes => m \in Requesting /\ m \notin Storing /\ m \notin Returning
      /\ m.code = "STORE_WP" => m \notin Requesting /\ m \in Storing /\ m \notin Returning
      /\ m.code = "STORECONTAINER" => m \notin Requesting /\ m \notin Storing /\ m \in Returning
      /\ m.topic = "ack" => m \notin Requesting /\ m \notin Storing /\ m \notin Returning
  BY <1>1, <1>2 DEF Requesting, Storing, Returning, ReqCodes, RackCodes
<1> QED BY <1>1, <1>3, Receiving

\* A robot that has an answer, and a rack that has a request.
LEMMA RackTalk ==
  ASSUME Talk
  PROVE  /\ hbw \in Begun => /\ vgr \in Waiting /\ Sent = {} /\ hbwQ = <<>> /\ Replies = {} /\ Heard = {}
                             /\ Fetched = {} /\ "hbwFetched" \notin raised /\ ~Brought
         /\ Brought => hbw \in {"STORE_WP", "FETCH_WP_WAIT"}
         /\ hbw # "STORE_WP" => Stores = {}
         /\ hbw # "FETCH_WP_WAIT" => Returns = {} /\ "storeContainer" \notin hbwFlag
         /\ hbw \notin {"STORE_WP", "RETURN_WP", "SAVE_STORED"} => "store" \notin hbwFlag
<1> USE DEF Talk
<1>1. hbw \in Begun => /\ vgr \in Waiting /\ Sent = {} /\ hbwQ = <<>> /\ Replies = {} /\ Heard = {}
  BY DEF OneRequest
<1>2. hbw \in Begun => Fetched = {} /\ "hbwFetched" \notin raised /\ ~Brought
  BY <1>1 DEF Fetched, Heard, Brought
<1>3. Brought => hbw \in {"STORE_WP", "FETCH_WP_WAIT"}
  <2>1. Brought => vgr \in Waiting
    BY Resting DEF OneRequest
  <2> QED BY <2>1 DEF StoreFits, FetchFits
<1>4. /\ hbw # "STORE_WP" => Stores = {}
      /\ hbw # "FETCH_WP_WAIT" => Returns = {} /\ "storeContainer" \notin hbwFlag
      /\ hbw \notin {"STORE_WP", "RETURN_WP", "SAVE_STORED"} => "store" \notin hbwFlag
  BY DEF OneClose
<1> QED BY <1>1, <1>2, <1>3, <1>4

LEMMA HbwReceiveKeeps ==
  ASSUME HandoverInv, HbwReceive, RobotSame
  PROVE  Talk' /\ Shelves' /\ InGripper'
<1> USE DEF HandoverInv
<1>1. PICK m \in Arrived("HBW") :
        /\ Received("HBW")
        /\ \/ m.topic = "ack" /\ UNCHANGED <<hbwQ, hbwFlag>>
           \/ m.code = "FETCHCONTAINER" /\ requestVGRfetchContainer(m.flow) /\ UNCHANGED hbwFlag
           \/ m.code = "FETCH_WP" /\ requestVGRfetch(m.flow) /\ UNCHANGED hbwFlag
           \/ m.code = "STORE_WP" /\ HbwRaise("store") /\ UNCHANGED hbwQ
           \/ m.code = "STORECONTAINER" /\ HbwRaise("storeContainer") /\ UNCHANGED hbwQ
           \/ m.code = "RESETSTORAGE"
        /\ UNCHANGED storage /\ UNCHANGED <<cell, tray, at, tag, hbw, hbwReq>>
  BY DEF HbwReceive
<1>2. /\ m \in Letters /\ EachOnce' /\ Replies' = Replies /\ EachOnce /\ Fetched' = Fetched
      /\ m.code \in ReqCodes => Sent = {m} /\ Sent' = {} /\ Stores' = Stores /\ Returns' = Returns
      /\ m.code = "STORE_WP" => Sent' = Sent /\ Stores = {m} /\ Stores' = {} /\ Returns' = Returns
      /\ m.code = "STORECONTAINER" => Sent' = Sent /\ Stores' = Stores /\ Returns = {m} /\ Returns' = {}
      /\ m.topic = "ack" => Sent' = Sent /\ Stores' = Stores /\ Returns' = Returns
  <2>1. MailOK /\ EachOnce
    BY DEF Types, Talk, OneRequest
  <2> QED BY <1>1, <2>1, Reading DEF Fetched
<1>3. m.code # "RESETSTORAGE"
  BY <1>2 DEF Letters, Codes, RackCodes, ReqCodes, FaultCodes, Kinds, Colours, Modes
<1>4. Shelves' /\ InGripper'
  BY <1>1, ShelvesKept, GripperKept DEF Types, RobotSame, GripperSame, Held
<1>5. Heard' = Heard /\ (Brought' <=> Brought) /\ UNCHANGED <<vgr, flow, raised, cell, hbw, hbwReq, nextFetchPos>>
  BY <1>1, <1>2 DEF Heard, Brought, RobotSame, storage
<1>6. CASE m.topic = "ack" /\ UNCHANGED <<hbwQ, hbwFlag>>
  <2>1. MailSame /\ RackSame
    BY <1>2, <1>5, <1>6 DEF MailSame, RackSame
  <2> QED BY <1>4, <1>5, <2>1, TalkKept
<1>7. CASE /\ UNCHANGED hbwFlag
           /\ \/ m.code = "FETCHCONTAINER" /\ requestVGRfetchContainer(m.flow)
              \/ m.code = "FETCH_WP" /\ requestVGRfetch(m.flow)
  <2>1. Sent = {m} /\ Sent' = {} /\ Stores' = Stores /\ Returns' = Returns
    BY <1>2, <1>7 DEF ReqCodes
  <2>2. hbwQ = <<>> /\ hbw \notin Begun /\ Replies = {} /\ Heard = {} /\ vgr \in Waiting
    BY <2>1 DEF Talk, OneRequest
  <2>3. ~Brought /\ Fetched = {} /\ "hbwFetched" \notin raised
    BY <2>2 DEF Brought, Fetched, Heard
  <2> DEFINE job == [type |-> IF m.code = "FETCHCONTAINER" THEN "FETCH_CONTAINER" ELSE "FETCH_WP", flow |-> m.flow]
  <2>4. hbwQ' = <<job>>
    BY <1>7, <2>2 DEF requestVGRfetchContainer, requestVGRfetch
  <2>5. Len(hbwQ') = 1 /\ Head(hbwQ') = job /\ hbwQ' # <<>>
    BY <2>4
  <2>6. OneRequest'
    BY <1>2, <1>5, <2>1, <2>2, <2>5 DEF Talk, OneRequest
  <2>7. StoreFits'
    BY <1>5, <2>1, <2>2, <2>3, <2>5 DEF Talk, StoreFits, ForGripper
  <2>8. FetchFits'
    BY <1>5, <2>1, <2>2, <2>3, <2>5 DEF Talk, FetchFits
  <2>9. AnswerFits' /\ OneClose' /\ CloseTrue'
    BY <1>2, <1>5, <1>7, <2>1, <2>3 DEF Talk, AnswerFits, OneClose, CloseTrue, Stocked
  <2> QED BY <1>4, <2>6, <2>7, <2>8, <2>9 DEF Talk
<1>8. CASE /\ UNCHANGED hbwQ
           /\ \/ m.code = "STORE_WP" /\ HbwRaise("store")
              \/ m.code = "STORECONTAINER" /\ HbwRaise("storeContainer")
  <2>1. Sent' = Sent
    BY <1>2, <1>8
  <2>2. OneRequest' /\ StoreFits' /\ FetchFits' /\ AnswerFits'
    BY <1>2, <1>5, <1>8, <2>1 DEF Talk, OneRequest, StoreFits, FetchFits, AnswerFits, ForGripper, Stocked
  <2>3. CASE m.code = "STORE_WP"
    <3>1. Stores = {m} /\ Stores' = {} /\ Returns' = Returns /\ hbwFlag' = hbwFlag \cup {"store"}
      BY <1>2, <1>8, <2>3 DEF HbwRaise
    <3> QED BY <1>4, <1>5, <2>2, <3>1 DEF Talk, OneClose, CloseTrue, Stocked
  <2>4. CASE m.code = "STORECONTAINER"
    <3>1. Returns = {m} /\ Returns' = {} /\ Stores' = Stores /\ hbwFlag' = hbwFlag \cup {"storeContainer"}
      BY <1>2, <1>8, <2>4 DEF HbwRaise
    <3> QED BY <1>4, <1>5, <2>2, <3>1 DEF Talk, OneClose, CloseTrue, Stocked
  <2> QED BY <1>8, <2>3, <2>4
<1> QED BY <1>1, <1>3, <1>6, <1>7, <1>8

-----------------------------------------------------------------------------
(* What the rack does.                                                     *)

\* What no step of the rack changes, and what it changes only by a message.
LEMMA RackAlone ==
  ASSUME HandoverInv, RobotSame
  PROVE  /\ Heard' = Heard /\ InGripper' /\ CellsTrue'
         /\ EachOnce /\ MailOK /\ OneRequest
         /\ UNCHANGED mail => MailSame /\ Fetched' = Fetched /\ (Brought' <=> Brought)
<1> USE DEF HandoverInv
<1>1. Heard' = Heard /\ EachOnce /\ MailOK /\ OneRequest
  BY DEF Heard, RobotSame, Talk, OneRequest, Types
<1>2. InGripper'
  BY GripperKept DEF RobotSame, GripperSame, Held
<1>3. CellsTrue'
  BY DEF Shelves, CellsTrue, RobotSame
<1>4. UNCHANGED mail => MailSame /\ Fetched' = Fetched /\ (Brought' <=> Brought)
  BY <1>1, Silence DEF MailSame, Fetched, Brought, RobotSame
<1> QED BY <1>1, <1>2, <1>3, <1>4

\* Between two jobs, or on the way back from one.
LEMMA AsideKeeps ==
  ASSUME HandoverInv, RobotSame, UNCHANGED <<mail, hbwQ, hbwReq, wp, filled>>,
         hbw \notin Begun \cup {"STORE_WP", "FETCH_WP_WAIT"},
         hbw' \notin Begun \cup {"STORE_WP", "FETCH_WP_WAIT", "STORE_CONTAINER"},
         hbwFlag' \subseteq hbwFlag, "store" \in hbwFlag' => hbw' \in {"RETURN_WP", "SAVE_STORED"}
  PROVE  Talk' /\ Shelves' /\ InGripper'
<1> USE DEF HandoverInv, Talk, RobotSame
<1>1. /\ Heard' = Heard /\ InGripper' /\ CellsTrue' /\ MailSame /\ ~Brought' /\ ~Brought
      /\ Fetched = {} /\ Fetched' = {} /\ Stores = {} /\ Returns = {} /\ "storeContainer" \notin hbwFlag
      /\ "hbwFetched" \notin raised
  BY RackAlone, RackTalk DEF Brought
<1>2. OneRequest'
  BY <1>1 DEF OneRequest, MailSame
<1>3. StoreFits' /\ FetchFits'
  BY <1>1 DEF StoreFits, FetchFits, MailSame, ForGripper
<1>4. AnswerFits'
  BY <1>1 DEF AnswerFits, Begun
<1>5. OneClose' /\ CloseTrue'
  BY <1>1 DEF OneClose, CloseTrue, MailSame
<1>6. SlotOut'
  BY DEF SlotOut, Out, Begun
<1>7. RackExact'
  BY DEF RackExact, Shelves, InHand, Begun, Listed
<1> QED BY <1>1, <1>2, <1>3, <1>4, <1>5, <1>6, <1>7 DEF Shelves

Asides == HbwInit \/ HbwFault \/ HbwReturnWp \/ HbwStored \/ HbwStoreContainer \/ HbwReturnContainer \/ HbwReturned
LEMMA AsidesKeep ==
  ASSUME HandoverInv, Asides, RobotSame
  PROVE  Talk' /\ Shelves' /\ InGripper'
<1> USE DEF HandoverInv
<1>1. "store" \in hbwFlag => hbw \in {"STORE_WP", "RETURN_WP", "SAVE_STORED"}
  BY DEF Talk, OneClose
<1>2. CASE HbwInit \/ HbwFault
  BY <1>1, <1>2, AsideKeeps DEF HbwInit, HbwFault, HbwGoto, HbwKeeps, HbwQuiet, storage, Begun
<1>3. CASE HbwReturnWp \/ HbwReturnContainer
  BY <1>1, <1>3, AsideKeeps DEF HbwReturnWp, HbwReturnContainer, HbwReturns, saveBegin, HbwGoto, HbwKeeps, HbwQuiet, Begun
<1>4. CASE HbwStored \/ HbwReturned
  BY <1>1, <1>4, AsideKeeps DEF HbwStored, HbwReturned, saveEnd, HbwGoto, HbwKeeps, HbwQuiet, Begun
<1>5. CASE HbwStoreContainer
  <2>1. hbw = "STORE_CONTAINER" /\ nextFetchPos \in Slots /\ wp[nextFetchPos] = Null
    BY <1>5 DEF HbwStoreContainer, Shelves, SlotOut, Out
  <2>2. storeContainer /\ hbw' = "RETURN_CONTAINER" /\ UNCHANGED <<mail, hbwQ, hbwReq, hbwFlag>>
    BY <1>5, <2>1 DEF HbwStoreContainer, HbwGoto, HbwKeeps, isValidPos
  <2>3. UNCHANGED <<wp, filled>>
    BY <2>1, <2>2 DEF storeContainer, Types, StorageTypeOK, Shelf
  <2> QED BY <1>1, <2>1, <2>2, <2>3, AsideKeeps DEF Begun
<1> QED BY <1>2, <1>3, <1>4, <1>5 DEF Asides

\* The front request is taken up.
LEMMA IdleKeeps ==
  ASSUME HandoverInv, HbwIdle, RobotSame
  PROVE  Talk' /\ Shelves' /\ InGripper'
<1> USE DEF HandoverInv, RobotSame
<1>1. /\ hbw = "IDLE" /\ hbwQ # <<>> /\ hbw' = Head(hbwQ).type /\ hbwReq' = Head(hbwQ).flow /\ hbwQ' = Tail(hbwQ)
      /\ UNCHANGED <<mail, hbwFlag>> /\ UNCHANGED storage
  BY DEF HbwIdle, Begin, HbwGoto, HbwQuiet, Talk, OneClose
<1>2. hbwQ' = <<>> /\ hbw' \in {"FETCH_CONTAINER", "FETCH_WP"}
  <2>1. hbwQ \in Seq(Jobs) /\ Len(hbwQ) <= 1
    BY DEF Types, RackOK, Talk, OneRequest
  <2>2. Head(hbwQ) \in Jobs /\ Tail(hbwQ) = <<>>
    BY <1>1, <2>1
  <2> QED BY <1>1, <2>2 DEF Jobs
<1>3. vgr \in Waiting /\ Sent = {} /\ Replies = {} /\ Heard = {}
  BY <1>1 DEF Talk, OneRequest
<1>4. /\ Heard' = {} /\ InGripper' /\ CellsTrue' /\ MailSame /\ Fetched' = {} /\ ~Brought'
      /\ Stores = {} /\ Returns = {} /\ "storeContainer" \notin hbwFlag /\ "store" \notin hbwFlag
  BY <1>1, <1>3, RackAlone, RackTalk DEF Fetched, Brought, Heard
<1>5. OneRequest'
  BY <1>2, <1>3, <1>4 DEF OneRequest, MailSame, One
<1>6. StoreFits' /\ FetchFits'
  BY <1>1, <1>2, <1>3, <1>4 DEF Talk, StoreFits, FetchFits, MailSame, ForGripper
<1>7. AnswerFits'
  BY <1>2, <1>3, <1>4 DEF AnswerFits, Heard
<1>8. OneClose' /\ CloseTrue'
  BY <1>1, <1>2, <1>4 DEF Talk, OneClose, CloseTrue, MailSame
<1>9. SlotOut' /\ RackExact'
  BY <1>1, <1>2 DEF Shelves, SlotOut, RackExact, Out, InHand, storage, Listed
<1> QED BY <1>4, <1>5, <1>6, <1>7, <1>8, <1>9 DEF Talk, Shelves

\* A request that cannot be met is answered with a fault.
LEMMA FailsKeeps ==
  ASSUME HandoverInv, RobotSame, hbw \in {"FETCH_CONTAINER", "FETCH_WP"}, NothingFetched,
         NEW code \in FaultCodes, HbwFails(code), UNCHANGED <<hbwQ, hbwReq, hbwFlag>>
  PROVE  Talk' /\ Shelves' /\ InGripper'
<1> USE DEF HandoverInv, RobotSame
<1>1. /\ vgr \in Waiting /\ Sent = {} /\ hbwQ = <<>> /\ Replies = {} /\ Heard = {} /\ "hbwFetched" \notin raised
      /\ Stores = {} /\ Returns = {} /\ "storeContainer" \notin hbwFlag /\ "store" \notin hbwFlag
  BY RackTalk DEF Begun
<1>2. /\ Heard' = {} /\ InGripper' /\ CellsTrue' /\ EachOnce /\ MailOK
  BY <1>1, RackAlone
<1> DEFINE m == HbwFaultMsg(code, hbwReq.wp)
<1>3. m \in Letters /\ m \in Answering /\ m.topic = "hbw/fault"
  BY Sendings DEF Types, RackOK, Flows, Answering, HbwFaultMsg, Msg
<1>4. Publish(m) /\ hbw' = "FAULT" /\ nextFetchPos' = NoSlot /\ UNCHANGED <<wp, filled>>
  BY DEF HbwFails, HbwGoto, NothingFetched
<1> HIDE DEF m
<1>5. m \notin Requesting /\ m \notin Storing /\ m \notin Returning
  BY <1>3, Heeding DEF Requesting, Storing, Returning, RackCodes
<1>6. Sent' = {} /\ Stores' = {} /\ Returns' = {} /\ Replies' = {m} /\ EachOnce'
  <2>1. /\ Sent' = Sent \cup ({m} \cap Requesting) /\ Stores' = Stores \cup ({m} \cap Storing)
        /\ Returns' = Returns \cup ({m} \cap Returning) /\ Replies' = Replies \cup ({m} \cap Answering)
        /\ EachOnce'
    BY <1>1, <1>2, <1>3, <1>4, <1>5, Posting
  <2> QED BY <1>1, <1>3, <1>5, <2>1
<1>7. Fetched' = {} /\ ~Brought'
  BY <1>1, <1>3, <1>6 DEF Fetched, Brought
<1>8. OneRequest'
  BY <1>1, <1>2, <1>4, <1>6 DEF Talk, OneRequest, Begun, One
<1>9. StoreFits' /\ FetchFits' /\ AnswerFits'
  BY <1>1, <1>4, <1>6, <1>7 DEF StoreFits, FetchFits, AnswerFits, Begun
<1>10. OneClose' /\ CloseTrue'
  BY <1>1, <1>4, <1>6, <1>7 DEF Talk, OneClose, CloseTrue
<1>11. SlotOut' /\ RackExact'
  BY <1>4 DEF Shelves, SlotOut, RackExact, Out, InHand, Listed
<1> QED BY <1>2, <1>8, <1>9, <1>10, <1>11 DEF Talk, Shelves

\* A slot is emptied on record, and its container is fetched.
LEMMA TakesSlot ==
  ASSUME StorageTypeOK, RackExact, NEW s \in Slots, TakeFrom(s), UNCHANGED cell, hbw \notin InHand
  PROVE  /\ nextFetchPos' = s /\ wp'[s] = Null
         /\ \A t \in Slots \ {s} : /\ wp'[t] # Null => wp'[t].uid \in Parts /\ cell'[t] = wp'[t].uid /\ Listed(t)'
                                   /\ wp'[t] = Null => cell'[t] = NoUid
<1>1. nextFetchPos' = s /\ filled' = NotAt(s) /\ \A t \in Slots : wp'[t] = IF t = s THEN Null ELSE wp[t]
  BY DEF TakeFrom, StorageTypeOK, Shelf
<1>2. \A t \in Slots \ {s} : Listed(t) => Listed(t)'
  BY <1>1, NotAtOthers DEF StorageTypeOK, Listed
<1> QED BY <1>1, <1>2 DEF RackExact

LEMMA FetchContainerKeeps ==
  ASSUME HandoverInv, HbwFetchContainer, RobotSame
  PROVE  Talk' /\ Shelves' /\ InGripper'
<1> USE DEF HandoverInv, RobotSame
<1>1. hbw = "FETCH_CONTAINER" /\ UNCHANGED <<hbwQ, hbwReq, hbwFlag>>
  BY DEF HbwFetchContainer, HbwKeeps
<1>2. CASE Free = {}
  <2>1. NothingFetched /\ HbwFails("CNT_NOT_AVAILABLE")
    BY <1>2 DEF HbwFetchContainer, fetchContainer
  <2> QED BY <1>1, <2>1, FailsKeeps DEF FaultCodes
<1>3. CASE Free # {}
  <2>1. First(Free) \in Free /\ Free \subseteq Slots
    BY <1>3, FirstIsOne DEF Free
  <2>2. PICK s \in Slots : TakeFrom(s) /\ wp[s] = Null
    BY <1>3, <2>1 DEF HbwFetchContainer, fetchContainer, Free
  <2>3. hbw' = "BRING_CONTAINER" /\ UNCHANGED mail
    BY <1>3 DEF HbwFetchContainer, HbwGoto, HbwQuiet
  <2>4. /\ vgr \in Waiting /\ Sent = {} /\ hbwQ = <<>> /\ Replies = {} /\ Heard = {} /\ "hbwFetched" \notin raised
        /\ Stores = {} /\ Returns = {} /\ "storeContainer" \notin hbwFlag /\ "store" \notin hbwFlag
        /\ Fetched = {} /\ ~Brought
    BY <1>1, RackTalk DEF Begun
  <2>5. Heard' = {} /\ InGripper' /\ CellsTrue' /\ MailSame /\ Fetched' = {} /\ ~Brought'
    BY <2>3, <2>4, RackAlone
  <2>6. OneRequest'
    BY <1>1, <2>4, <2>5 DEF Talk, OneRequest, MailSame, One
  <2>7. StoreFits' /\ FetchFits'
    BY <1>1, <2>3, <2>4, <2>5 DEF Talk, StoreFits, FetchFits, MailSame, Begun, ForGripper
  <2>8. AnswerFits' /\ OneClose' /\ CloseTrue'
    BY <1>1, <2>3, <2>4, <2>5 DEF Talk, AnswerFits, OneClose, CloseTrue, MailSame
  <2>9. /\ nextFetchPos' = s /\ wp'[s] = Null
        /\ \A t \in Slots \ {s} : /\ wp'[t] # Null => wp'[t].uid \in Parts /\ cell'[t] = wp'[t].uid /\ Listed(t)'
                                  /\ wp'[t] = Null => cell'[t] = NoUid
    BY <1>1, <2>2, TakesSlot DEF Types, Shelves, InHand
  <2>10. cell'[s] = NoUid
    BY <1>1, <2>2 DEF Shelves, RackExact, InHand
  <2>11. SlotOut' /\ RackExact'
    BY <2>3, <2>9, <2>10 DEF SlotOut, RackExact
  <2> QED BY <2>5, <2>6, <2>7, <2>8, <2>11 DEF Talk, Shelves
<1> QED BY <1>2, <1>3

LEMMA FetchWpKeeps ==
  ASSUME HandoverInv, HbwFetchWp, RobotSame
  PROVE  Talk' /\ Shelves' /\ InGripper'
<1> USE DEF HandoverInv, RobotSame
<1> DEFINE s == FetchSlot(hbwReq.wp)
<1>1. hbw = "FETCH_WP" /\ UNCHANGED <<hbwQ, hbwFlag>>
  BY DEF HbwFetchWp, HbwKeeps
<1>2. CASE ~isValidPos(s)
  <2>1. NothingFetched /\ HbwFails("WP_NOT_AVAILABLE") /\ UNCHANGED hbwReq
    BY <1>2 DEF HbwFetchWp, fetch
  <2> QED BY <1>1, <2>1, FailsKeeps DEF FaultCodes
<1>3. CASE isValidPos(s)
  <2>1. s \in Slots /\ TakeFrom(s) /\ hbw' = "BRING_WP" /\ UNCHANGED mail /\ hbwReq' = [hbwReq EXCEPT !.wp = wp[s]]
    BY <1>3 DEF HbwFetchWp, fetch, isValidPos, HbwGoto, HbwQuiet
  <2>2. wp[s] # Null
    <3> DEFINE w == hbwReq.wp
    <3>1. ByUid(w) \in SUBSET Slots /\ \A t \in ByUid(w) : wp[t] # Null
      BY DEF ByUid
    <3>2. ByType(w) \in SUBSET Slots /\ \A t \in ByType(w) : wp[t] # Null /\ Listed(t)
      BY DEF ByType, Shelves, RackExact
    <3>3. NoSlot \notin Slots
      BY DEF NoSlot, Slots
    <3> HIDE DEF w
    <3>4. ByUid(w) # {} => First(ByUid(w)) \in ByUid(w)
      BY <3>1, FirstIsOne
    <3>5. ByType(w) # {} => OldestOf(ByType(w)) \in ByType(w)
      BY <3>2, OldestIsOne DEF Types, StorageTypeOK
    <3>6. FetchSlot(w) \in Slots => FetchSlot(w) \in ByUid(w) \cup ByType(w)
      BY <3>3, <3>4, <3>5 DEF FetchSlot
    <3> QED BY <2>1, <3>1, <3>2, <3>6 DEF w
  <2> HIDE DEF s
  <2>3. wp[s].uid \in Parts /\ cell[s] = wp[s].uid /\ hbwReq'.wp.uid = wp[s].uid
    BY <2>1, <2>2 DEF Shelves, RackExact, Types, RackOK, Flows
  <2>4. /\ vgr \in Waiting /\ Sent = {} /\ hbwQ = <<>> /\ Replies = {} /\ Heard = {} /\ "hbwFetched" \notin raised
        /\ Stores = {} /\ Returns = {} /\ "storeContainer" \notin hbwFlag /\ "store" \notin hbwFlag
        /\ Fetched = {} /\ ~Brought
    BY <1>1, RackTalk DEF Begun
  <2>5. Heard' = {} /\ InGripper' /\ CellsTrue' /\ MailSame /\ Fetched' = {} /\ ~Brought'
    BY <2>1, <2>4, RackAlone
  <2>6. OneRequest'
    BY <1>1, <2>4, <2>5 DEF Talk, OneRequest, MailSame, One
  <2>7. StoreFits' /\ FetchFits'
    BY <1>1, <2>1, <2>4, <2>5 DEF Talk, StoreFits, FetchFits, MailSame, Begun
  <2>8. /\ nextFetchPos' = s /\ wp'[s] = Null
        /\ \A t \in Slots \ {s} : /\ wp'[t] # Null => wp'[t].uid \in Parts /\ cell'[t] = wp'[t].uid /\ Listed(t)'
                                  /\ wp'[t] = Null => cell'[t] = NoUid
    BY <1>1, <2>1, TakesSlot DEF Types, Shelves, InHand
  <2>9. AnswerFits' /\ OneClose' /\ CloseTrue'
    BY <1>1, <2>1, <2>3, <2>4, <2>5, <2>8 DEF Talk, AnswerFits, OneClose, CloseTrue, MailSame, Stocked
  <2>10. SlotOut' /\ RackExact'
    BY <2>1, <2>8 DEF SlotOut, RackExact, InHand
  <2> QED BY <2>5, <2>6, <2>7, <2>9, <2>10 DEF Talk, Shelves
<1> QED BY <1>2, <1>3

\* The container stands on the belt, and the robot is told.
LEMMA TellsKeeps ==
  ASSUME HandoverInv, RobotSame, HbwBringContainer \/ HbwFetched
  PROVE  Talk' /\ Shelves' /\ InGripper'
<1> USE DEF HandoverInv, RobotSame
<1> DEFINE m == HbwAck("FETCHED", hbwReq.wp)
<1>1. /\ UNCHANGED <<hbwQ, hbwReq, hbwFlag, wp, filled, nextFetchPos>> /\ Publish(m)
      /\ \/ hbw = "BRING_CONTAINER" /\ hbw' = "STORE_WP" /\ tray' = nextFetchPos
         \/ hbw = "SAVE_FETCHED" /\ hbw' = "FETCH_WP_WAIT" /\ tray' = tray
  BY DEF HbwBringContainer, HbwFetched, HbwKeeps, HbwTells, OnBelt, HbwGoto, saveEnd, storage
<1>2. /\ vgr \in Waiting /\ Sent = {} /\ hbwQ = <<>> /\ Replies = {} /\ Heard = {} /\ "hbwFetched" \notin raised
      /\ Stores = {} /\ Returns = {} /\ "storeContainer" \notin hbwFlag /\ "store" \notin hbwFlag
  BY <1>1, RackTalk DEF Begun
<1>3. hbwFlag = {}
  BY <1>2 DEF Types, HbwTypeOK, Talk, OneClose
<1>4. m \in Letters /\ m \in Answering /\ m.topic = "hbw/ack" /\ m.flow.wp = hbwReq.wp
  BY Sendings DEF Types, RackOK, Flows, Answering, HbwAck, Workflow, Msg
<1> HIDE DEF m
<1>5. m \notin Requesting /\ m \notin Storing /\ m \notin Returning
  BY <1>4, Heeding DEF Requesting, Storing, Returning, RackCodes
<1>6. Heard' = {} /\ InGripper' /\ CellsTrue' /\ EachOnce /\ MailOK
  BY <1>2, RackAlone
<1>7. Sent' = {} /\ Stores' = {} /\ Returns' = {} /\ Replies' = {m} /\ EachOnce'
  <2>1. /\ Sent' = Sent \cup ({m} \cap Requesting) /\ Stores' = Stores \cup ({m} \cap Storing)
        /\ Returns' = Returns \cup ({m} \cap Returning) /\ Replies' = Replies \cup ({m} \cap Answering)
        /\ EachOnce'
    BY <1>1, <1>2, <1>4, <1>5, <1>6, Posting
  <2> QED BY <1>2, <1>4, <1>5, <2>1
<1>8. Fetched' = {m}
  BY <1>4, <1>7 DEF Fetched
<1>9. nextFetchPos \in Slots /\ wp[nextFetchPos] = Null
  BY <1>1 DEF Shelves, SlotOut, Out
<1>10. /\ hbw = "BRING_CONTAINER" => cell[nextFetchPos] = NoUid /\ (vgr = "STORE_WP" => ForGripper(hbwReq)) /\ vgr = "STORE_WP"
       /\ hbw = "SAVE_FETCHED" => Stocked /\ vgr # "STORE_WP"
  BY <1>2, <1>9 DEF Talk, StoreFits, FetchFits, AnswerFits, Shelves, RackExact, InHand, Begun
<1>11. OneRequest'
  BY <1>1, <1>2, <1>6, <1>7 DEF Talk, OneRequest, Begun, One
<1>12. StoreFits' /\ FetchFits'
  BY <1>1, <1>2, <1>7, <1>10 DEF StoreFits, FetchFits, Begun, ForGripper
<1>13. AnswerFits'
  BY <1>1, <1>2, <1>4, <1>8, <1>10 DEF AnswerFits, Stocked
<1>14. OneClose' /\ CloseTrue'
  BY <1>1, <1>2, <1>3, <1>7 DEF OneClose, CloseTrue
<1>15. SlotOut' /\ RackExact'
  BY <1>1, <1>9 DEF Shelves, SlotOut, RackExact, Out, InHand, Listed
<1> QED BY <1>6, <1>11, <1>12, <1>13, <1>14, <1>15 DEF Talk, Shelves

\* The record of the workpiece that the robot has put into the container.
LEMMA StoreWpKeeps ==
  ASSUME HandoverInv, HbwStoreWp, RobotSame
  PROVE  Talk' /\ Shelves' /\ InGripper'
<1> USE DEF HandoverInv, RobotSame
<1>1. hbw = "STORE_WP" /\ "store" \in hbwFlag /\ UNCHANGED <<hbwQ, hbwReq>>
  BY DEF HbwStoreWp, HbwKeeps
<1>2. nextFetchPos \in Slots /\ Stocked
  BY <1>1 DEF Shelves, SlotOut, Out, Talk, CloseTrue
<1>3. store(hbwReq.wp) /\ hbw' = "RETURN_WP" /\ UNCHANGED <<hbwFlag, mail>>
  BY <1>2 DEF HbwStoreWp, isValidPos, HbwGoto, HbwQuiet
<1>4. Stores = {} /\ Returns = {} /\ "storeContainer" \notin hbwFlag /\ ~Brought
  BY <1>1 DEF Talk, OneClose
<1>5. Heard' = Heard /\ InGripper' /\ CellsTrue' /\ MailSame /\ ~Brought'
  BY <1>3, <1>4, RackAlone
<1>6. OneRequest' /\ StoreFits' /\ FetchFits'
  BY <1>1, <1>3, <1>4, <1>5 DEF Talk, OneRequest, StoreFits, FetchFits, MailSame, Begun, ForGripper
<1>7. AnswerFits' /\ OneClose' /\ CloseTrue'
  BY <1>1, <1>3, <1>4, <1>5 DEF Talk, AnswerFits, OneClose, CloseTrue, MailSame, Brought, Fetched
<1>8. /\ UNCHANGED nextFetchPos
      /\ \A t \in Slots : wp'[t] = IF t = nextFetchPos THEN hbwReq.wp ELSE wp[t]
  BY <1>3 DEF store, Types, StorageTypeOK, Shelf
<1>9. \A t \in Slots : t = nextFetchPos \/ Listed(t) => Listed(t)'
  <2> DEFINE q == NotAt(nextFetchPos)
  <2>1. q \in Seq(Slots) /\ \A t : t # nextFetchPos /\ Listed(t) => \E i \in DOMAIN q : q[i] = t
    BY NotAtOthers DEF Types, StorageTypeOK
  <2>2. filled' = Append(q, nextFetchPos)
    BY <1>3 DEF store
  <2> HIDE DEF q
  <2>3. /\ DOMAIN q = 1 .. Len(q) /\ Len(q) \in Nat
        /\ DOMAIN Append(q, nextFetchPos) = 1 .. Len(q) + 1
        /\ \A i \in 1 .. Len(q) : Append(q, nextFetchPos)[i] = q[i]
        /\ Append(q, nextFetchPos)[Len(q) + 1] = nextFetchPos
    BY <1>2, <2>1
  <2>4. Len(q) + 1 \in 1 .. Len(q) + 1 /\ \A i \in 1 .. Len(q) : i \in 1 .. Len(q) + 1
    BY <2>3
  <2> QED BY <2>1, <2>2, <2>3, <2>4 DEF Listed
<1>10. SlotOut'
  BY <1>3 DEF SlotOut, Out
<1>11. RackExact'
  <2>1. hbwReq.wp # Null
    BY <1>2, NoUidAssumption DEF Stocked, Null, Wp
  <2> QED BY <1>1, <1>2, <1>3, <1>8, <1>9, <2>1 DEF Shelves, RackExact, Stocked, InHand
<1> QED BY <1>5, <1>6, <1>7, <1>10, <1>11 DEF Talk, Shelves

LEMMA BringWpKeeps ==
  ASSUME HandoverInv, HbwBringWp, RobotSame
  PROVE  Talk' /\ Shelves' /\ InGripper'
<1> USE DEF HandoverInv, RobotSame
<1>1. /\ hbw = "BRING_WP" /\ hbw' = "SAVE_FETCHED" /\ tray' = nextFetchPos
      /\ UNCHANGED <<hbwQ, hbwReq, hbwFlag, wp, filled, nextFetchPos, mail>>
  BY DEF HbwBringWp, HbwKeeps, HbwQuiet, HbwGoto, OnBelt, saveBegin
<1>2. /\ vgr \in Waiting /\ Sent = {} /\ hbwQ = <<>> /\ Replies = {} /\ Heard = {} /\ "hbwFetched" \notin raised
      /\ Stores = {} /\ Returns = {} /\ "storeContainer" \notin hbwFlag /\ "store" \notin hbwFlag
      /\ Fetched = {} /\ ~Brought
  BY <1>1, RackTalk DEF Begun
<1>3. Heard' = {} /\ InGripper' /\ CellsTrue' /\ MailSame /\ Fetched' = {} /\ ~Brought'
  BY <1>1, <1>2, RackAlone
<1>4. OneRequest'
  BY <1>1, <1>2, <1>3 DEF Talk, OneRequest, MailSame, One
<1>5. StoreFits' /\ FetchFits'
  BY <1>1, <1>2, <1>3 DEF Talk, StoreFits, FetchFits, MailSame, Begun
<1>6. AnswerFits' /\ OneClose' /\ CloseTrue'
  BY <1>1, <1>2, <1>3 DEF Talk, AnswerFits, OneClose, CloseTrue, MailSame, Stocked
<1>7. SlotOut' /\ RackExact'
  BY <1>1 DEF Shelves, SlotOut, RackExact, Out, InHand, Listed
<1> QED BY <1>3, <1>4, <1>5, <1>6, <1>7 DEF Talk, Shelves

LEMMA FetchWpWaitKeeps ==
  ASSUME HandoverInv, HbwFetchWpWait, RobotSame
  PROVE  Talk' /\ Shelves' /\ InGripper'
<1> USE DEF HandoverInv, RobotSame
<1>1. /\ hbw = "FETCH_WP_WAIT" /\ hbw' = "STORE_CONTAINER" /\ hbwFlag' = hbwFlag \ {"storeContainer"}
      /\ UNCHANGED <<hbwQ, hbwReq, mail>> /\ UNCHANGED storage /\ "storeContainer" \in hbwFlag
  BY DEF HbwFetchWpWait, HbwKeeps, HbwQuiet, HbwGoto
<1>2. Stores = {} /\ Returns = {} /\ "store" \notin hbwFlag /\ ~Brought /\ cell[nextFetchPos] = NoUid
  BY <1>1 DEF Talk, OneClose, CloseTrue
<1>3. Heard' = Heard /\ InGripper' /\ CellsTrue' /\ MailSame /\ ~Brought' /\ Fetched' = Fetched
  BY <1>1, <1>2, RackAlone
<1>4. OneRequest' /\ StoreFits' /\ FetchFits'
  BY <1>1, <1>2, <1>3 DEF Talk, OneRequest, StoreFits, FetchFits, MailSame, Begun, ForGripper
<1>5. AnswerFits' /\ OneClose' /\ CloseTrue'
  BY <1>1, <1>2, <1>3 DEF Talk, AnswerFits, OneClose, CloseTrue, MailSame, Brought, storage
<1>6. SlotOut' /\ RackExact'
  BY <1>1, <1>2 DEF Shelves, SlotOut, RackExact, Out, InHand, Listed, storage
<1> QED BY <1>3, <1>4, <1>5, <1>6 DEF Talk, Shelves

LEMMA RackKeeps ==
  ASSUME HandoverInv, HbwRuns
  PROVE  HandoverInv'
<1> USE DEF HandoverInv
<1>1. /\ UNCHANGED vgrVars /\ UNCHANGED stationVars /\ UNCHANGED <<cell, at>>
  BY DEF HbwRuns, HbwReceive, HbwStep, HbwInit, HbwFault, HbwIdle, HbwFetchContainer, HbwBringContainer,
         HbwStoreWp, HbwReturnWp, HbwReturns, HbwStored, HbwFetchWp, HbwBringWp, HbwFetched, HbwFetchWpWait,
         HbwStoreContainer, HbwReturnContainer, HbwReturned, HbwKeeps
<1>2. RobotSame /\ RobotOK' /\ MpoOK' /\ SldOK'
  BY <1>1 DEF Types, vgrVars, stationVars, RobotSame, RobotOK, FlowOK, WaitOK, BoardOK, MpoOK, SldOK
<1>3. CASE HbwReceive
  BY <1>2, <1>3, HbwReceiveTypes, HbwReceiveKeeps DEF Types
<1>4. CASE HbwStep
  <2>1. \/ Asides \/ HbwIdle \/ HbwFetchContainer \/ HbwFetchWp \/ HbwBringContainer \/ HbwFetched
        \/ HbwStoreWp \/ HbwBringWp \/ HbwFetchWpWait
    BY <1>4 DEF HbwStep, Asides
  <2>2. Talk' /\ Shelves' /\ InGripper'
    BY <1>2, <2>1, AsidesKeep, IdleKeeps, FetchContainerKeeps, FetchWpKeeps, TellsKeeps, StoreWpKeeps,
       BringWpKeeps, FetchWpWaitKeeps
  <2> QED BY <1>2, <1>4, <2>2, HbwStepTypes DEF Types
<1> QED BY <1>3, <1>4 DEF HbwRuns

-----------------------------------------------------------------------------
(* The invariant, and what follows from it.                                *)

LEMMA InitTypes == TxtInit => Types
<1> SUFFICES ASSUME TxtInit PROVE Types
  OBVIOUS
<1> USE DEF TxtInit
<1>1. StorageTypeOK
  <2>1. wp \in Shelf
    <3>1. ASSUME NEW s \in Slots PROVE wp[s] \in Workpiece
      <4>1. Stored[s] # NoUid => Stored[s] \in Parts /\ ColourOf[Stored[s]] \in Kinds
        BY TxtConstants DEF Kinds
      <4> QED BY <4>1, Makings DEF Raw
    <3> QED BY <3>1 DEF Shelf
  <2>2. filled \in Seq(Slots)
    <3>1. IsFiniteSet(Occupied)
      <4>1. IsFiniteSet(1 .. NSlots)
        BY TxtConstants, FS_Interval
      <4>2. Occupied \subseteq 1 .. NSlots
        BY DEF Occupied, Slots
      <4> QED BY <4>1, <4>2, FS_Subset
    <3>2. Cardinality(Occupied) \in Nat
      BY <3>1, FS_CardinalityType
    <3>3. filled \in [1 .. Cardinality(Occupied) -> Slots]
      BY DEF FillingOrders, Occupied
    <3> QED BY <3>2, <3>3, SeqDef
  <2> QED BY <2>1, <2>2 DEF StorageTypeOK, Contents
<1>2. PlantOK
  <2>1. \A p \in Parts : InRack(p) => ColourOf[p] \in Colours
    BY TxtConstants
  <2>2. tag \in [Parts -> Tags]
    BY <2>1 DEF Tags
  <2>3. at \in [Parts -> Places]
    BY DEF Places
  <2> QED BY <2>2, <2>3, TxtConstants DEF PlantOK, QuitStates
<1>3. MailOK /\ HbwTypeOK /\ RackOK /\ MpoOK /\ SldOK
  <2>1. NoFlow \in Flows
    BY Makings
  <2> QED BY <2>1 DEF MailOK, HbwTypeOK, HbwStates, RackOK, MpoOK, MpoStates, SldOK, SldStates, Kinds
<1>4. RobotOK
  <2>1. FlowOK
    BY Makings DEF FlowOK, Kinds
  <2>2. WaitOK
    BY DEF WaitOK
  <2>3. BoardOK
    BY DEF BoardOK, OrderStates
  <2>4. hist \in [Parts -> SUBSET HistoryIndex]
    BY DEF HistoryIndex
  <2> QED BY <2>1, <2>2, <2>3, <2>4, TxtConstants DEF RobotOK, VgrStates, Modes
<1> QED BY <1>1, <1>2, <1>3, <1>4 DEF Types

LEMMA InvHolds == TxtInit => HandoverInv
<1> SUFFICES ASSUME TxtInit PROVE Talk /\ Shelves /\ InGripper
  BY InitTypes DEF HandoverInv
<1> USE DEF TxtInit
<1>1. /\ Sent = {} /\ Stores = {} /\ Returns = {} /\ Replies = {} /\ EachOnce
  BY DEF Sent, Stores, Returns, Replies, EachOnce, Of, Once, Clients
<1>2. Heard = {} /\ Fetched = {} /\ ~Brought
  BY <1>1 DEF Heard, Fetched, Brought
<1>3. OneRequest
  BY <1>1, <1>2 DEF OneRequest, One, Begun
<1>4. StoreFits /\ FetchFits /\ AnswerFits /\ OneClose /\ CloseTrue
  BY <1>1, <1>2 DEF StoreFits, FetchFits, AnswerFits, OneClose, CloseTrue, Waiting
<1>5. SlotOut
  BY DEF SlotOut, Out
<1>6. RackExact
  <2>1. ASSUME NEW s \in Slots PROVE wp[s] # Null => wp[s].uid \in Parts /\ cell[s] = wp[s].uid /\ Listed(s)
    <3>1. CASE Stored[s] = NoUid
      BY <3>1
    <3>2. CASE Stored[s] # NoUid
      <4>1. Stored[s] \in Parts /\ wp[s].uid = Stored[s]
        BY <3>2, TxtConstants DEF Raw, Wp
      <4>2. Listed(s)
        BY <3>2 DEF FillingOrders, Occupied, Listed
      <4> QED BY <4>1, <4>2
    <3> QED BY <3>1, <3>2
  <2>2. ASSUME NEW s \in Slots, wp[s] = Null PROVE cell[s] = NoUid
    BY <2>2 DEF Raw, Wp, Null
  <2> QED BY <2>1, <2>2 DEF RackExact
<1>7. CellsTrue
  BY TxtConstants DEF CellsTrue, InRack
<1>8. InGripper
  BY DEF InGripper, One, Held, Loaded, Identified
<1> QED BY <1>3, <1>4, <1>5, <1>6, <1>7, <1>8 DEF Talk, Shelves

LEMMA InvKept == HandoverInv /\ [TxtNext]_txtVars => HandoverInv'
<1> SUFFICES ASSUME HandoverInv, [TxtNext]_txtVars PROVE HandoverInv'
  OBVIOUS
<1>1. CASE HbwRuns
  BY <1>1, RackKeeps
<1>2. CASE VgrRuns
  BY <1>2, RobotKeeps
<1>3. CASE MpoRuns \/ SldRuns
  BY <1>3, StationsKeep
<1>4. CASE People
  BY <1>4, PeopleKeep
<1>5. CASE UNCHANGED txtVars
  <2> USE <1>5 DEF HandoverInv, txtVars, storage, plant, hbwVars, vgrVars, stationVars
  <2>1. Types'
    BY DEF Types, StorageTypeOK, PlantOK, MailOK, HbwTypeOK, RackOK, RobotOK, FlowOK, WaitOK, BoardOK, MpoOK, SldOK
  <2>2. MailSame
    BY Silence DEF Types, Talk, OneRequest
  <2>3. Talk'
    BY <2>2, TalkKept DEF RackSame, Heard
  <2>4. Shelves' /\ InGripper'
    BY ShelvesKept, GripperKept DEF Types, GripperSame, Held
  <2> QED BY <2>1, <2>3, <2>4
<1> QED BY <1>1, <1>2, <1>3, <1>4, <1>5 DEF TxtNext

\* A robot told FETCHED, and the container it reaches into.
LEMMA InvMeets == HandoverInv => HandoverMeets
<1> SUFFICES ASSUME HandoverInv, "hbwFetched" \in raised
             PROVE  /\ vgr \in Waiting
                    /\ vgr # "STORE_WP" => tray \in Slots /\ flow.hbw.uid # NoUid /\ cell[tray] = flow.hbw.uid
                    /\ vgr = "STORE_WP" => tray \in Slots /\ cell[tray] = NoUid /\ Held("gripper") = {flow.hbw.uid}
  BY DEF HandoverMeets, Waiting
<1> USE DEF HandoverInv
<1>1. vgr \in Waiting /\ flow.hbw.uid = hbwReq.wp.uid /\ hbw \in {"STORE_WP", "FETCH_WP_WAIT"}
  BY ToldFetched
<1>2. nextFetchPos \in Slots /\ tray = nextFetchPos
  BY <1>1 DEF Shelves, SlotOut, Out
<1>3. vgr # "STORE_WP" => flow.hbw.uid # NoUid /\ cell[tray] = flow.hbw.uid
  BY <1>1, <1>2, ToldFetched, NoUidAssumption DEF Stocked
<1>4. vgr = "STORE_WP" => cell[tray] = NoUid /\ Held("gripper") = {flow.hbw.uid}
  BY <1>1, <1>2, ToldFetched DEF ForGripper, InGripper, Identified
<1> QED BY <1>1, <1>2, <1>3, <1>4

LEMMA InvTrue == HandoverInv => RackTrue
BY DEF HandoverInv, Shelves, RackExact, RackTrue

\* Whatever is brought, asked for, misread or acknowledged, the variables of
\* the four controllers, of the storage and of the plant keep their types.
THEOREM TxtTypesKept == TxtSpec => []TxtTypeOK
<1>1. HandoverInv => TxtTypeOK
  BY TypesEnough DEF HandoverInv
<1> QED BY <1>1, InvHolds, InvKept, PTL DEF TxtSpec

\* The robot that acts on FETCHED finds on the belt the container it was
\* promised: with the workpiece that the rack has named to it, or, when it
\* stores, empty, and the workpiece in its gripper is the one named.
THEOREM TheyMeet == TxtSpec => []HandoverMeets
BY InvHolds, InvKept, InvMeets, PTL DEF TxtSpec

\* A slot with a record holds the workpiece of that record, at every moment
\* of every job, and not only when the rack is at rest.
THEOREM RecordsHold == TxtSpec => []RackTrue
BY InvHolds, InvKept, InvTrue, PTL DEF TxtSpec
=============================================================================
