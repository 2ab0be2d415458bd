----------------------------- MODULE RackProofs ------------------------------
(***************************************************************************)
(* The storage of the rack, first on its own: whatever legal calls are     *)
(* made of it, no workpiece is recorded twice.  Then with the controller   *)
(* that calls it, its robot and its restarts: the calls are legal, the     *)
(* records true, and a restart forgets one workpiece at most.              *)
(***************************************************************************)
EXTENDS TxtRack, FiniteSetTheorems, SequenceTheorems, WellFoundedInduction, TLAPS

\* What the proof needs of the types: the contents of memory and file are
\* shelves, and the file keeps its fields.
ShelvesOK ==
  /\ wp \in Shelf /\ file.wp \in Shelf
  /\ DOMAIN file = {"wp", "filled", "torn"}
RecordsInv == ShelvesOK /\ Distinct(wp) /\ Distinct(file.wp)

\* Emptying a slot keeps a shelf a shelf without doubles.
LEMMA TakeKeepsDistinct ==
  ASSUME NEW shelf \in Shelf, NEW s, Distinct(shelf)
  PROVE  /\ [shelf EXCEPT ![s] = Null] \in Shelf
         /\ Distinct([shelf EXCEPT ![s] = Null])
<1>1. Null \in Workpiece
  BY DEF Null, Wp, Workpiece, Colours
<1>2. [shelf EXCEPT ![s] = Null] \in Shelf
  BY <1>1 DEF Shelf
<1>3. \A t \in Slots : [shelf EXCEPT ![s] = Null][t] # Null
        => [shelf EXCEPT ![s] = Null][t] = shelf[t]
  BY DEF Shelf
<1>4. Distinct([shelf EXCEPT ![s] = Null])
  BY <1>3 DEF Distinct
<1> QED BY <1>2, <1>4

\* Writing a workpiece that no slot records keeps it so, too.
LEMMA StoreKeepsDistinct ==
  ASSUME NEW shelf \in Shelf, NEW s \in Slots, NEW w \in Workpiece,
         Distinct(shelf), w.uid \notin Recorded(shelf)
  PROVE  /\ [shelf EXCEPT ![s] = w] \in Shelf
         /\ Distinct([shelf EXCEPT ![s] = w])
<1> DEFINE new == [shelf EXCEPT ![s] = w]
<1>1. new \in Shelf /\ new[s] = w /\ \A t \in Slots \ {s} : new[t] = shelf[t]
  BY DEF Shelf
<1>2. \A t \in Slots : shelf[t] # Null => shelf[t].uid # w.uid
  BY DEF Recorded
<1>3. ASSUME NEW t \in Slots, NEW u \in Slots, new[t] # Null, new[u] # Null,
             new[t].uid = new[u].uid
      PROVE  t = u
  <2>1. CASE t = s /\ u # s
    BY <1>1, <1>2, <1>3, <2>1
  <2>2. CASE t # s /\ u = s
    BY <1>1, <1>2, <1>3, <2>2
  <2>3. CASE t # s /\ u # s
    BY <1>1, <1>3, <2>3 DEF Distinct
  <2> QED BY <2>1, <2>2, <2>3
<1>4. Distinct(new)
  BY <1>3 DEF Distinct
<1> QED BY <1>1, <1>4

LEMMA EmptyIsDistinct == EmptyShelf \in Shelf /\ Distinct(EmptyShelf)
<1>1. Null \in Workpiece
  BY DEF Null, Wp, Workpiece, Colours
<1> QED BY <1>1 DEF EmptyShelf, Shelf, Distinct

LEMMA StorageStarts == StorageInit => RecordsInv
BY DEF StorageInit, RecordsInv, ShelvesOK, Distinct

\* fetch, fetchByType and fetchContainer: whichever slot they choose.
LEMMA FetchKeeps ==
  ASSUME RecordsInv, (\E s : TakeFrom(s)) \/ NothingFetched
  PROVE  RecordsInv'
<1>1. CASE NothingFetched
  BY <1>1 DEF RecordsInv, ShelvesOK, NothingFetched, Distinct
<1>2. CASE \E s : TakeFrom(s)
  <2>1. PICK s : TakeFrom(s)
    BY <1>2
  <2>2. wp' \in Shelf /\ Distinct(wp')
    BY <2>1, TakeKeepsDistinct DEF TakeFrom, RecordsInv, ShelvesOK
  <2> QED BY <2>1, <2>2 DEF TakeFrom, RecordsInv, ShelvesOK, Distinct
<1> QED BY <1>1, <1>2

LEMMA StorageStepKeeps == RecordsInv /\ [StorageNext]_storage => RecordsInv'
<1> SUFFICES ASSUME RecordsInv, [StorageNext]_storage PROVE RecordsInv'
  OBVIOUS
<1>1. ASSUME NEW w \in Workpiece, EmptySlotFetched, w.uid \notin Recorded(wp), store(w)
      PROVE  RecordsInv'
  <2>1. nextFetchPos \in Slots
    BY <1>1 DEF EmptySlotFetched, isValidPos
  <2>2. wp' \in Shelf /\ Distinct(wp')
    BY <1>1, <2>1, StoreKeepsDistinct DEF store, RecordsInv, ShelvesOK
  <2> QED BY <1>1, <2>2 DEF store, RecordsInv, ShelvesOK, Distinct
<1>2. ASSUME NEW w \in Workpiece, fetch(w) PROVE RecordsInv'
  BY <1>2, FetchKeeps DEF fetch
<1>3. CASE EmptySlotFetched /\ storeContainer
  <2>1. wp' \in Shelf /\ Distinct(wp')
    BY <1>3, TakeKeepsDistinct DEF storeContainer, RecordsInv, ShelvesOK
  <2> QED BY <1>3, <2>1 DEF storeContainer, RecordsInv, ShelvesOK, Distinct
<1>4. CASE fetchContainer
  BY <1>4, FetchKeeps DEF fetchContainer
<1>5. CASE saveBegin
  BY <1>5, EmptyIsDistinct DEF saveBegin, RecordsInv, ShelvesOK, Distinct
<1>6. CASE saveEnd
  BY <1>6 DEF saveEnd, RecordsInv, ShelvesOK, Distinct
<1>7. CASE resetStorageState
  BY <1>7, EmptyIsDistinct DEF resetStorageState, RecordsInv, ShelvesOK, Distinct
<1>8. CASE loadStorageState
  <2>1. wp' = file.wp /\ file'.wp = file.wp /\ DOMAIN file' = DOMAIN file
    BY <1>8 DEF loadStorageState, RecordsInv, ShelvesOK
  <2> QED BY <2>1 DEF RecordsInv, ShelvesOK, Distinct
<1>9. CASE UNCHANGED storage
  BY <1>9 DEF storage, RecordsInv, ShelvesOK, Distinct
<1> QED BY <1>1, <1>2, <1>3, <1>4, <1>5, <1>6, <1>7, <1>8, <1>9 DEF StorageNext

\* No workpiece is recorded in two slots, neither in memory nor in the storage
\* file (TxtHighBayWarehouseStorage::store, fetch, saveStorageState and
\* loadStorageState), as long as store is called the way the rack controller
\* calls it.
THEOREM OneRecord == StorageSpec => []RecordedOnce
<1>1. RecordsInv => RecordedOnce
  BY DEF RecordsInv, RecordedOnce
<1> QED BY <1>1, StorageStarts, StorageStepKeeps, PTL DEF StorageSpec

-----------------------------------------------------------------------------
(* The inductive invariant of the rack with its robot.                     *)

ReqCodes == {"FETCHCONTAINER", "FETCH_WP"}
CloseCodes == {"STORE_WP", "STORECONTAINER"}
AnswerCodes == {"FETCHED", "CNT_NOT_AVAILABLE", "WP_NOT_AVAILABLE", "STORAGE_FAULT"}
Flows == [uid : Nat, wp : Workpiece]
Jobs == [type : {"FETCH_CONTAINER", "FETCH_WP"}, flow : Flows]
HbwMail == [topic : {"vgr/do"}, code : ReqCodes \cup CloseCodes \cup {"RESETSTORAGE"}, flow : Flows]
VgrMail == [topic : {"hbw/ack"}, code : {"FETCHED"}, flow : Flows]
           \cup [topic : {"hbw/fault"}, code : AnswerCodes \ {"FETCHED"}, flow : Flows]
Box(c) == mail[c]
MailOK ==
  /\ Box("HBW") \in Seq(HbwMail \cup {QuitMsg}) /\ Box("VGR") \in Seq(VgrMail \cup {QuitMsg})
  /\ DOMAIN mail = Clients
HandsOK ==
  /\ hbw \in HbwStates /\ hbwQ \in Seq(Jobs) /\ hbwReq \in Flows
  /\ hbwFlag \subseteq {"store", "storeContainer", "reset"} /\ robot \in {"idle", "storing", "fetching"}
PlantOK ==
  /\ cell \in [Slots -> Parts \cup {NoUid}] /\ at \in [Parts -> Places] /\ tray \in Slots \cup {NoSlot}

\* Where the messages with these codes stand in a queue.
Coded(s, codes) == {i \in DOMAIN s : s[i].code \in codes}
One(S) == \A i, j \in S : i = j

\* The one request of a robot that waits is in one place: on its way, in the
\* queue of the rack, in its hands, or answered.
Sent == Coded(Box("HBW"), ReqCodes)
Replies == Coded(Box("VGR"), AnswerCodes)
Begun == {"FETCH_CONTAINER", "BRING_CONTAINER", "FETCH_WP", "BRING_WP", "SAVE_FETCHED"}
OneRequest ==
  /\ One(Sent) /\ Len(hbwQ) <= 1 /\ One(Replies)
  /\ robot = "idle" => Sent = {} /\ hbwQ = <<>> /\ hbw \notin Begun /\ Replies = {}
  /\ Sent # {} => hbwQ = <<>> /\ hbw \notin Begun /\ Replies = {}
  /\ hbwQ # <<>> => hbw \notin Begun /\ Replies = {}
  /\ hbw \in Begun => Replies = {}

\* A robot that brings a workpiece asks for a container for that one.
InGripper == {Workflow(0, Raw(p)) : p \in Held("gripper")}
Fetched == Coded(Box("VGR"), {"FETCHED"})
RequestFits ==
  /\ One(Held("gripper")) /\ (robot # "storing" => Held("gripper") = {})
  /\ robot = "storing" =>
       /\ \A i \in Sent : Box("HBW")[i].code = "FETCHCONTAINER" /\ Box("HBW")[i].flow \in InGripper
       /\ \A i \in DOMAIN hbwQ : hbwQ[i].type = "FETCH_CONTAINER" /\ hbwQ[i].flow \in InGripper
       /\ hbw \in Begun => hbw \in {"FETCH_CONTAINER", "BRING_CONTAINER"} /\ hbwReq \in InGripper
       /\ Fetched # {} => hbw = "STORE_WP" /\ hbwReq \in InGripper
  /\ robot = "fetching" =>
       /\ \A i \in Sent : Box("HBW")[i].code = "FETCH_WP"
       /\ \A i \in DOMAIN hbwQ : hbwQ[i].type = "FETCH_WP"
       /\ hbw \in Begun => hbw \in {"FETCH_WP", "BRING_WP", "SAVE_FETCHED"}
       /\ Fetched # {} => hbw = "FETCH_WP_WAIT"

\* The word that ends a job comes once, while the rack waits for it, and what
\* it says is done by then.
Stores == Coded(Box("HBW"), {"STORE_WP"})
Returns == Coded(Box("HBW"), {"STORECONTAINER"})
OneClose ==
  /\ One(Stores) /\ One(Returns)
  /\ Stores # {} => hbw = "STORE_WP" /\ "store" \notin hbwFlag
  /\ Returns # {} => hbw = "FETCH_WP_WAIT" /\ "storeContainer" \notin hbwFlag
  /\ "store" \in hbwFlag => hbw \in {"STORE_WP", "RETURN_WP", "SAVE_STORED"}
  /\ "storeContainer" \in hbwFlag => hbw = "FETCH_WP_WAIT"
  /\ Fetched # {} => Stores = {} /\ Returns = {} /\ hbwFlag \cap {"store", "storeContainer"} = {}
Stocked == hbwReq.wp.uid \in Parts /\ cell[nextFetchPos] = hbwReq.wp.uid
CloseTrue ==
  /\ Stores # {} \/ ("store" \in hbwFlag /\ hbw = "STORE_WP") => Stocked
  /\ Returns # {} \/ "storeContainer" \in hbwFlag => cell[nextFetchPos] = NoUid

\* The container of the last fetch is empty on record as long as it is out.
Out == {"BRING_CONTAINER", "STORE_WP", "BRING_WP", "SAVE_FETCHED", "FETCH_WP_WAIT", "STORE_CONTAINER"}
SlotOut ==
  /\ hbw \in Out => nextFetchPos \in Slots /\ wp[nextFetchPos] = Null
  /\ hbw \in {"STORE_WP", "SAVE_FETCHED", "FETCH_WP_WAIT"} => tray = nextFetchPos
  /\ hbw = "RETURN_WP" => nextFetchPos \in Slots

\* The file: torn while it is written, else as the memory, but for the slot in hand.
Saving == {"SAVE_STORED", "SAVE_FETCHED", "SAVE_RETURNED"}
FileTrue ==
  /\ file.torn <=> hbw \in Saving
  /\ hbw \in Saving => file.wp = EmptyShelf
  /\ hbw \notin Saving => \A s \in Slots \ {nextFetchPos} : file.wp[s] = wp[s]
  /\ hbw \notin Saving \cup {"BRING_WP", "RETURN_WP"} => file.wp = wp

\* A workpiece is in one container at most, and only when it is in the rack.
CellsTrue ==
  /\ \A s, t \in Slots : cell[s] = cell[t] /\ cell[s] # NoUid => s = t
  /\ \A s \in Slots : cell[s] # NoUid => at[cell[s]] = "rack"
Named(shelf) == \A s \in Slots : shelf[s] # Null => shelf[s].uid \in Parts
Types == MailOK /\ HandsOK /\ PlantOK
Talk == OneRequest /\ RequestFits /\ OneClose /\ CloseTrue
Facts == SlotOut /\ FileTrue /\ CellsTrue /\ Named(wp) /\ Named(file.wp) /\ RecordsTrue
RackInv == Types /\ ShelvesOK /\ Talk /\ Facts

\* Whatever is in a container without being on record.
Busy == IF hbw \in {"STORE_WP", "BRING_WP", "SAVE_FETCHED", "FETCH_WP_WAIT"} THEN {nextFetchPos} ELSE {}
Forgotten == ~wiped => Cardinality(Unrecorded \ Busy) <= crashes

-----------------------------------------------------------------------------
(* Queues of messages.                                                     *)

LEMMA CodedKept ==
  ASSUME NEW S, NEW s \in Seq(S), NEW e \in S, NEW codes, e.code \notin codes
  PROVE  Coded(Append(s, e), codes) = Coded(s, codes)
<1>1. DOMAIN Append(s, e) = 1 .. Len(s) + 1 /\ DOMAIN s = 1 .. Len(s) /\ Len(s) \in Nat
  OBVIOUS
<1>2. Append(s, e)[Len(s) + 1] = e /\ \A i \in 1 .. Len(s) : Append(s, e)[i] = s[i]
  OBVIOUS
<1> QED BY <1>1, <1>2 DEF Coded

LEMMA CodedAdded ==
  ASSUME NEW S, NEW s \in Seq(S), NEW e \in S, NEW codes, e.code \in codes, Coded(s, codes) = {}
  PROVE  Coded(Append(s, e), codes) = {Len(s) + 1} /\ Append(s, e)[Len(s) + 1] = e
<1>1. DOMAIN Append(s, e) = 1 .. Len(s) + 1 /\ DOMAIN s = 1 .. Len(s) /\ Len(s) \in Nat
  OBVIOUS
<1>2. Append(s, e)[Len(s) + 1] = e /\ \A i \in 1 .. Len(s) : Append(s, e)[i] = s[i]
  OBVIOUS
<1> QED BY <1>1, <1>2 DEF Coded

LEMMA CodedTail ==
  ASSUME NEW S, NEW s \in Seq(S), s # <<>>, NEW codes, One(Coded(s, codes))
  PROVE  /\ One(Coded(Tail(s), codes))
         /\ \A i \in Coded(Tail(s), codes) : i + 1 \in Coded(s, codes) /\ Tail(s)[i] = s[i + 1]
         /\ Head(s).code \in codes => Coded(Tail(s), codes) = {}
<1>1. /\ Len(s) \in Nat /\ DOMAIN s = 1 .. Len(s) /\ Tail(s) \in Seq(S) /\ Len(Tail(s)) = Len(s) - 1
      /\ Len(s) > 0 /\ Head(s) = s[1]
  OBVIOUS
<1>2. DOMAIN Tail(s) = 1 .. Len(s) - 1 /\ \A i \in 1 .. Len(s) - 1 : Tail(s)[i] = s[i + 1]
  BY <1>1
<1>3. \A i \in Coded(Tail(s), codes) : i \in 1 .. Len(s) - 1 /\ i + 1 \in Coded(s, codes) /\ Tail(s)[i] = s[i + 1]
  BY <1>1, <1>2 DEF Coded
<1>4. One(Coded(Tail(s), codes))
  BY <1>3 DEF One
<1>5. ASSUME Head(s).code \in codes PROVE Coded(Tail(s), codes) = {}
  <2>1. 1 \in Coded(s, codes)
    BY <1>1, <1>5 DEF Coded
  <2> QED BY <1>3, <2>1 DEF One
<1> QED BY <1>3, <1>4, <1>5

LEMMA HeedsTable ==
  /\ \A m \in VgrMail : Heeds("VGR", m) /\ ~Heeds("HBW", m)
  /\ \A m \in HbwMail : Heeds("HBW", m) /\ ~Heeds("VGR", m)
  /\ Heeds("HBW", QuitMsg) /\ Heeds("VGR", QuitMsg)
<1>1. \A m \in VgrMail : Heeds("VGR", m) /\ ~Heeds("HBW", m)
  BY DEF VgrMail, AnswerCodes, Heeds, Topics
<1>2. \A m \in HbwMail : Heeds("HBW", m) /\ ~Heeds("VGR", m)
  BY DEF HbwMail, ReqCodes, CloseCodes, Heeds, Topics
<1>3. Heeds("HBW", QuitMsg) /\ Heeds("VGR", QuitMsg)
  BY DEF QuitMsg, Msg, Heeds, Topics
<1> QED BY <1>1, <1>2, <1>3

\* The boxes after a publication.
LEMMA Posted ==
  ASSUME NEW box, DOMAIN box = Clients
  PROVE  /\ \A m : DOMAIN Post(box, m) = Clients
         /\ \A m \in VgrMail : Post(box, m)["VGR"] = Append(box["VGR"], m) /\ Post(box, m)["HBW"] = box["HBW"]
         /\ \A m \in HbwMail : Post(box, m)["HBW"] = Append(box["HBW"], m) /\ Post(box, m)["VGR"] = box["VGR"]
         /\ Post(box, QuitMsg)["VGR"] = Append(box["VGR"], QuitMsg)
         /\ Post(box, QuitMsg)["HBW"] = Append(box["HBW"], QuitMsg)
<1>1. "VGR" \in Clients /\ "HBW" \in Clients
  BY DEF Clients
<1> QED BY <1>1, HeedsTable DEF Post

LEMMA SlotsFinite == IsFiniteSet(Slots)
<1>1. 1 \in Int /\ NSlots \in Int
  BY RackConstants
<1> QED BY <1>1, FS_Interval DEF Slots

\* First chooses a slot: there is a least one.
LEMMA FirstIsOne ==
  ASSUME NEW S \in SUBSET Slots, S # {}
  PROVE  First(S) \in S
<1> DEFINE Below(x) == {y \in S : y < x}
           T == {Below(x) : x \in S}
<1>1. IsFiniteSet(S) /\ S \subseteq Int
  <2>1. IsFiniteSet(S)
    BY SlotsFinite, FS_Subset
  <2>2. S \subseteq Int
    BY RackConstants DEF Slots
  <2> QED BY <2>1, <2>2
<1>2. \A x \in S : IsFiniteSet(Below(x)) /\ Below(x) \subseteq S
  BY <1>1, FS_Subset
<1>3. T # {} /\ T \subseteq FiniteSubsetsOf(S)
  BY <1>2 DEF FiniteSubsetsOf
<1>4. PICK t \in T : \A u \in T : ~(<<u, t>> \in StrictSubsetOrdering(S))
  <2> HIDE DEF T
  <2> QED BY <1>3, FS_StrictSubsetOrderingWellFounded, WFMin
<1>5. PICK x \in S : t = Below(x)
  OBVIOUS
<1>6. ASSUME NEW y \in S, ~(x <= y) PROVE FALSE
  <2>1. y < x /\ Below(y) \subseteq Below(x) /\ y \in Below(x) /\ y \notin Below(y)
    <3>1. x \in Int /\ y \in Int
      BY <1>1
    <3>2. y < x
      BY <1>6, <3>1
    <3>3. \A z \in S : z < y => z < x
      BY <1>1, <3>1, <3>2
    <3>4. ~(y < y)
      BY <3>1
    <3> QED BY <3>2, <3>3, <3>4
  <2>2. <<Below(y), Below(x)>> \in StrictSubsetOrdering(S)
    BY <2>1, <1>2 DEF StrictSubsetOrdering
  <2> QED BY <1>4, <1>5, <2>2
<1>7. \A y \in S : x <= y
  BY <1>6
<1> QED BY <1>7 DEF First

\* The conversation, seen through the places of its messages.
MailSame ==
  /\ Sent' = Sent /\ Replies' = Replies /\ Fetched' = Fetched
  /\ Stores' = Stores /\ Returns' = Returns /\ Box("HBW")' = Box("HBW")
LEMMA SameMail ==
  ASSUME UNCHANGED mail
  PROVE  MailOK' = MailOK /\ MailSame
BY DEF MailSame, MailOK, Sent, Replies, Fetched, Stores, Returns, Coded, Box

LEMMA RackTells ==
  ASSUME MailOK, NEW m \in VgrMail, Publish(m), Replies = {}
  PROVE  /\ MailOK' /\ Sent' = Sent /\ Stores' = Stores /\ Returns' = Returns
         /\ Box("HBW")' = Box("HBW") /\ One(Replies') /\ (m.code # "FETCHED" => Fetched' = {})
<1> DEFINE V == VgrMail \cup {QuitMsg}
<1>1. /\ Box("HBW")' = Box("HBW") /\ Box("VGR")' = Append(Box("VGR"), m) /\ DOMAIN mail' = Clients
  BY Posted DEF Publish, MailOK, Box
<1>2. m.code \in AnswerCodes /\ m \in V /\ Box("VGR") \in Seq(V)
  BY DEF VgrMail, AnswerCodes, MailOK
<1>3. One(Replies')
  <2>1. Replies' = {Len(Box("VGR")) + 1}
    <3>1. Replies' = Coded(Append(Box("VGR"), m), AnswerCodes) /\ Coded(Box("VGR"), AnswerCodes) = {}
      BY <1>1 DEF Replies
    <3> QED BY <1>2, <3>1, CodedAdded
  <2> QED BY <2>1 DEF One
<1>4. ASSUME m.code # "FETCHED" PROVE Fetched' = {}
  <2>1. Fetched = {}
    BY DEF Fetched, Replies, Coded, AnswerCodes
  <2>2. Fetched' = Coded(Append(Box("VGR"), m), {"FETCHED"})
    BY <1>1 DEF Fetched
  <2> QED BY <1>2, <1>4, <2>1, <2>2, CodedKept DEF Fetched
<1>5. MailOK'
  BY <1>1, <1>2 DEF MailOK
<1> QED BY <1>1, <1>3, <1>4, <1>5 DEF Sent, Stores, Returns
\* A message of the robot, posted into queues of which only its own is shorter.
LEMMA RobotTells ==
  ASSUME MailOK, NEW m \in HbwMail, NEW box, DOMAIN box = Clients, box["HBW"] = Box("HBW"),
         box["VGR"] \in Seq(VgrMail \cup {QuitMsg}), mail' = Post(box, m)
  PROVE  /\ MailOK' /\ Box("VGR")' = box["VGR"]
         /\ m.code \notin ReqCodes => Sent' = Sent
         /\ m.code \in ReqCodes /\ Sent = {} => \E k : Sent' = {k} /\ Box("HBW")'[k] = m
         /\ \A i \in Sent : Box("HBW")'[i] = Box("HBW")[i]
         /\ m.code # "STORE_WP" => Stores' = Stores
         /\ m.code = "STORE_WP" /\ Stores = {} => One(Stores')
         /\ m.code # "STORECONTAINER" => Returns' = Returns
         /\ m.code = "STORECONTAINER" /\ Returns = {} => One(Returns')
<1> DEFINE H == HbwMail \cup {QuitMsg}
<1>1. /\ Box("HBW")' = Append(Box("HBW"), m) /\ Box("VGR")' = box["VGR"] /\ DOMAIN mail' = Clients
  BY Posted DEF Box
<1>2. m \in H /\ Box("HBW") \in Seq(H)
  BY DEF MailOK
<1>3. MailOK'
  <2>1. Append(Box("HBW"), m) \in Seq(H)
    BY <1>2
  <2> QED BY <1>1, <2>1 DEF MailOK
<1>4. /\ Sent' = Coded(Append(Box("HBW"), m), ReqCodes) /\ Sent = Coded(Box("HBW"), ReqCodes)
      /\ Stores' = Coded(Append(Box("HBW"), m), {"STORE_WP"}) /\ Stores = Coded(Box("HBW"), {"STORE_WP"})
      /\ Returns' = Coded(Append(Box("HBW"), m), {"STORECONTAINER"}) /\ Returns = Coded(Box("HBW"), {"STORECONTAINER"})
  BY <1>1 DEF Sent, Stores, Returns
<1> HIDE DEF H
<1>5. m.code \notin ReqCodes => Sent' = Sent
  BY <1>2, <1>4, CodedKept
<1>6. ASSUME m.code \in ReqCodes, Sent = {} PROVE \E k : Sent' = {k} /\ Box("HBW")'[k] = m
  BY <1>1, <1>2, <1>4, <1>6, CodedAdded
<1>7. \A i \in Sent : Box("HBW")'[i] = Box("HBW")[i]
  BY <1>1, <1>2 DEF Sent, Coded
<1>8. m.code # "STORE_WP" => Stores' = Stores
  BY <1>2, <1>4, CodedKept
<1>9. ASSUME m.code = "STORE_WP", Stores = {} PROVE One(Stores')
  <2>1. Stores' = {Len(Box("HBW")) + 1}
    BY <1>2, <1>4, <1>9, CodedAdded
  <2> QED BY <2>1 DEF One
<1>10. m.code # "STORECONTAINER" => Returns' = Returns
  BY <1>2, <1>4, CodedKept
<1>11. ASSUME m.code = "STORECONTAINER", Returns = {} PROVE One(Returns')
  <2>1. Returns' = {Len(Box("HBW")) + 1}
    BY <1>2, <1>4, <1>11, CodedAdded
  <2> QED BY <2>1 DEF One
<1> QED BY <1>1, <1>3, <1>5, <1>6, <1>7, <1>8, <1>9, <1>10, <1>11

LEMMA QuitPosted ==
  ASSUME MailOK, Publish(QuitMsg)
  PROVE  /\ MailOK' /\ Sent' = Sent /\ Replies' = Replies /\ Fetched' = Fetched
         /\ Stores' = Stores /\ Returns' = Returns
         /\ \A i \in Sent : Box("HBW")'[i] = Box("HBW")[i]
<1> DEFINE H == HbwMail \cup {QuitMsg}  V == VgrMail \cup {QuitMsg}
<1>1. /\ Box("HBW")' = Append(Box("HBW"), QuitMsg) /\ Box("VGR")' = Append(Box("VGR"), QuitMsg)
      /\ DOMAIN mail' = Clients
  BY Posted DEF Publish, MailOK, Box
<1>2. Box("HBW") \in Seq(H) /\ Box("VGR") \in Seq(V) /\ QuitMsg \in H /\ QuitMsg \in V
  BY DEF MailOK
<1>3. QuitMsg.code = "none"
  BY DEF QuitMsg, Msg
<1>4. MailOK'
  <2>1. Append(Box("HBW"), QuitMsg) \in Seq(H) /\ Append(Box("VGR"), QuitMsg) \in Seq(V)
    BY <1>2
  <2> QED BY <1>1, <2>1 DEF MailOK
<1> HIDE DEF H, V
<1>5. Sent' = Sent /\ Stores' = Stores /\ Returns' = Returns
  <2>1. /\ "none" \notin ReqCodes /\ "none" \notin {"STORE_WP"} /\ "none" \notin {"STORECONTAINER"}
    BY DEF ReqCodes
  <2>2. \A codes : "none" \notin codes => Coded(Append(Box("HBW"), QuitMsg), codes) = Coded(Box("HBW"), codes)
    BY <1>2, <1>3, CodedKept
  <2> QED BY <1>1, <2>1, <2>2 DEF Sent, Stores, Returns
<1>6. Replies' = Replies /\ Fetched' = Fetched
  <2>1. "none" \notin AnswerCodes /\ "none" \notin {"FETCHED"}
    BY DEF AnswerCodes
  <2>2. \A codes : "none" \notin codes => Coded(Append(Box("VGR"), QuitMsg), codes) = Coded(Box("VGR"), codes)
    BY <1>2, <1>3, CodedKept
  <2> QED BY <1>1, <2>1, <2>2 DEF Replies, Fetched
<1>7. \A i \in Sent : Box("HBW")'[i] = Box("HBW")[i]
  <2> DEFINE B == Box("HBW")
  <2>1. ASSUME NEW b \in Seq(H) PROVE \A i \in DOMAIN b : Append(b, QuitMsg)[i] = b[i]
    BY <1>2
  <2>2. \A i \in DOMAIN B : Box("HBW")'[i] = B[i]
    <3>1. B \in Seq(H) /\ Box("HBW")' = Append(B, QuitMsg)
      BY <1>1, <1>2
    <3> HIDE DEF B
    <3> QED BY <2>1, <3>1
  <2> QED BY <2>2 DEF Sent, Coded
<1> QED BY <1>4, <1>5, <1>6, <1>7

\* The robot takes the first message out of its queue.
LEMMA RobotReads ==
  ASSUME MailOK, NEW m \in Arrived("VGR"), One(Replies)
  PROVE  /\ m \in VgrMail \cup {QuitMsg} /\ Tail(Box("VGR")) \in Seq(VgrMail \cup {QuitMsg})
         /\ One(Coded(Tail(Box("VGR")), AnswerCodes))
         /\ Coded(Tail(Box("VGR")), AnswerCodes) # {} => Replies # {} /\ m.code \notin AnswerCodes
         /\ Coded(Tail(Box("VGR")), {"FETCHED"}) # {} => Fetched # {} /\ m.code \notin AnswerCodes
         /\ m.code \in AnswerCodes => Replies # {}
         /\ m.code = "FETCHED" => Fetched # {}
<1> DEFINE V == VgrMail \cup {QuitMsg}
<1>1. Box("VGR") \in Seq(V) /\ Box("VGR") # <<>> /\ m = Head(Box("VGR"))
  BY DEF Arrived, MailOK, Box
<1>2. m \in V /\ Tail(Box("VGR")) \in Seq(V) /\ 1 \in DOMAIN Box("VGR") /\ Box("VGR")[1] = m
  BY <1>1
<1>3. Replies = Coded(Box("VGR"), AnswerCodes) /\ Fetched = Coded(Box("VGR"), {"FETCHED"})
  BY DEF Replies, Fetched
<1>4. One(Fetched)
  BY <1>3 DEF One, Coded, AnswerCodes
<1>5. m.code \in AnswerCodes => 1 \in Replies
  BY <1>2, <1>3 DEF Coded
<1>6. m.code = "FETCHED" => 1 \in Fetched
  BY <1>2, <1>3 DEF Coded
<1> HIDE DEF V
<1>7. /\ One(Coded(Tail(Box("VGR")), AnswerCodes))
      /\ \A i \in Coded(Tail(Box("VGR")), AnswerCodes) : i + 1 \in Replies
      /\ m.code \in AnswerCodes => Coded(Tail(Box("VGR")), AnswerCodes) = {}
  BY <1>1, <1>3, CodedTail
<1>8. \A i \in Coded(Tail(Box("VGR")), {"FETCHED"}) : i + 1 \in Fetched
  BY <1>1, <1>3, <1>4, CodedTail
<1>9. Coded(Tail(Box("VGR")), {"FETCHED"}) \subseteq Coded(Tail(Box("VGR")), AnswerCodes)
  BY DEF Coded, AnswerCodes
<1> QED BY <1>2, <1>5, <1>6, <1>7, <1>8, <1>9 DEF V

\* So does the rack.
LEMMA RackReads ==
  ASSUME MailOK, One(Sent), One(Stores), One(Returns), NEW m \in Arrived("HBW"), Received("HBW")
  PROVE  /\ m \in HbwMail \cup {QuitMsg} /\ MailOK' /\ Box("VGR")' = Box("VGR")
         /\ One(Sent') /\ \A i \in Sent' : i + 1 \in Sent /\ Box("HBW")'[i] = Box("HBW")[i + 1]
         /\ One(Stores') /\ (Stores' # {} => Stores # {})
         /\ One(Returns') /\ (Returns' # {} => Returns # {})
         /\ m.code \in ReqCodes => Sent' = {} /\ 1 \in Sent /\ Box("HBW")[1] = m
         /\ m.code = "STORE_WP" => Stores' = {} /\ Stores # {}
         /\ m.code = "STORECONTAINER" => Returns' = {} /\ Returns # {}
<1> DEFINE H == HbwMail \cup {QuitMsg}
<1>1. Box("HBW") \in Seq(H) /\ Box("HBW") # <<>> /\ m = Head(Box("HBW"))
  BY DEF Arrived, MailOK, Box
<1>2. m \in H /\ Tail(Box("HBW")) \in Seq(H) /\ 1 \in DOMAIN Box("HBW") /\ Box("HBW")[1] = m
  BY <1>1
<1>3. Box("HBW")' = Tail(Box("HBW")) /\ Box("VGR")' = Box("VGR") /\ DOMAIN mail' = Clients
  BY DEF Received, MailOK, Box, Clients
<1>4. MailOK'
  BY <1>2, <1>3 DEF MailOK
<1>5. /\ Sent' = Coded(Tail(Box("HBW")), ReqCodes) /\ Sent = Coded(Box("HBW"), ReqCodes)
      /\ Stores' = Coded(Tail(Box("HBW")), {"STORE_WP"}) /\ Stores = Coded(Box("HBW"), {"STORE_WP"})
      /\ Returns' = Coded(Tail(Box("HBW")), {"STORECONTAINER"}) /\ Returns = Coded(Box("HBW"), {"STORECONTAINER"})
  BY <1>3 DEF Sent, Stores, Returns
<1>6. /\ m.code \in ReqCodes => 1 \in Sent
      /\ m.code = "STORE_WP" => 1 \in Stores
      /\ m.code = "STORECONTAINER" => 1 \in Returns
  BY <1>2, <1>5 DEF Coded
<1> HIDE DEF H
<1>7. /\ One(Sent') /\ \A i \in Sent' : i + 1 \in Sent /\ Tail(Box("HBW"))[i] = Box("HBW")[i + 1]
      /\ m.code \in ReqCodes => Sent' = {}
  BY <1>1, <1>5, CodedTail
<1>8. /\ One(Stores') /\ (\A i \in Stores' : i + 1 \in Stores)
      /\ m.code = "STORE_WP" => Stores' = {}
  BY <1>1, <1>5, CodedTail
<1>9. /\ One(Returns') /\ (\A i \in Returns' : i + 1 \in Returns)
      /\ m.code = "STORECONTAINER" => Returns' = {}
  BY <1>1, <1>5, CodedTail
<1> QED BY <1>2, <1>3, <1>4, <1>6, <1>7, <1>8, <1>9 DEF H
-----------------------------------------------------------------------------
(* The rack uses its storage as the storage demands.                       *)

LEMMA RackRecords == RackInv => RecordsInv
<1> SUFFICES ASSUME RackInv PROVE RecordsInv
  OBVIOUS
<1>1. /\ \A s \in Slots : wp[s] # Null => wp[s].uid \in Parts /\ cell[s] = wp[s].uid
      /\ \A s \in Slots : file.wp[s] # Null => file.wp[s].uid \in Parts /\ cell[s] = file.wp[s].uid
  BY DEF RackInv, Facts, Named, RecordsTrue
<1>2. \A s, t \in Slots : cell[s] = cell[t] /\ cell[s] \in Parts => s = t
  BY NoUidAssumption DEF RackInv, Facts, CellsTrue
<1>3. Distinct(wp) /\ Distinct(file.wp)
  BY <1>1, <1>2 DEF Distinct
<1> QED BY <1>3 DEF RackInv, RecordsInv

LEMMA RackUses == RackInv /\ [RackNext]_rackVars => [StorageNext]_storage
<1> SUFFICES ASSUME RackInv, [RackNext]_rackVars PROVE [StorageNext]_storage
  OBVIOUS
<1>1. CASE HbwStep
  <2>1. CASE UNCHANGED storage
    BY <2>1
  <2>2. CASE resetStorageState \/ saveBegin \/ saveEnd \/ fetchContainer
    BY <2>2 DEF StorageNext
  <2>3. CASE HbwFetchWp
    BY <2>3 DEF HbwFetchWp, StorageNext, RackInv, Types, HandsOK, Flows
  <2>4. CASE HbwStoreWp
    <3>1. hbw = "STORE_WP" /\ Stocked /\ nextFetchPos \in Slots /\ wp[nextFetchPos] = Null
      BY <2>4 DEF HbwStoreWp, RackInv, Talk, Facts, CloseTrue, SlotOut, Out
    <3>2. store(hbwReq.wp) /\ hbwReq.wp \in Workpiece /\ EmptySlotFetched
      BY <2>4, <3>1 DEF HbwStoreWp, isValidPos, EmptySlotFetched, RackInv, Types, HandsOK, Flows
    <3>3. hbwReq.wp.uid \in Parts /\ hbwReq.wp.uid # NoUid
      BY <3>1, NoUidAssumption DEF Stocked
    <3>4. hbwReq.wp.uid \notin Recorded(wp)
      <4>1. ASSUME NEW s \in Slots, wp[s] # Null, wp[s].uid = hbwReq.wp.uid PROVE FALSE
        <5>1. cell[s] = cell[nextFetchPos] /\ cell[s] # NoUid
          BY <3>1, <3>3, <4>1 DEF RackInv, Facts, RecordsTrue, Stocked
        <5>2. s = nextFetchPos
          BY <3>1, <5>1 DEF RackInv, Facts, CellsTrue
        <5> QED BY <3>1, <4>1, <5>2
      <4> QED BY <4>1 DEF Recorded
    <3> QED BY <3>2, <3>3, <3>4 DEF StorageNext
  <2>5. CASE HbwStoreContainer
    <3>1. hbw = "STORE_CONTAINER" /\ nextFetchPos \in Slots /\ wp[nextFetchPos] = Null
      BY <2>5 DEF HbwStoreContainer, RackInv, Facts, SlotOut, Out
    <3> QED BY <2>5, <3>1 DEF HbwStoreContainer, isValidPos, EmptySlotFetched, StorageNext
  <2> QED
    BY <1>1, <2>1, <2>2, <2>3, <2>4, <2>5
    DEF HbwStep, HbwInit, HbwFault, HbwIdle, HbwFetchContainer, HbwBringContainer, HbwReturnWp, HbwReturns,
        HbwStored, HbwBringWp, HbwFetched, HbwFetchWpWait, HbwReturnContainer, HbwReturned
<1>2. CASE Crash
  BY <1>2 DEF Crash, StorageNext
<1>3. CASE UNCHANGED storage
  BY <1>3
<1> QED
  BY <1>1, <1>2, <1>3 DEF RackNext, Rack, HbwReceive, RobotStep, Acknowledge, rackVars
-----------------------------------------------------------------------------
(* The robot.                                                              *)

LEMMA FetchedToo == Fetched \subseteq Replies
BY DEF Fetched, Replies, Coded, AnswerCodes

\* Whatever the robot does with its messages, the rack is where it was.
RackRests == UNCHANGED <<storage, hbwVars, tray, crashes, wiped>>

LEMMA RawFlow == \A p \in Parts : Workflow(0, Raw(p)) \in Flows
BY RackConstants DEF Raw, Wp, Workflow, Flows, Workpiece

LEMMA AsksKeeps ==
  ASSUME RackInv, RackRests, NEW m \in HbwMail, NEW wait, Asks(m, wait),
         \/ m.code = "FETCH_WP" /\ wait = "fetching"
         \/ m.code = "RESETSTORAGE" /\ wait = "idle"
  PROVE  Types' /\ Talk' /\ Facts'
<1> USE DEF RackInv, Types, Talk, Facts, RackRests, storage, hbwVars
<1>1. /\ robot = "idle" /\ robot' = wait /\ UNCHANGED <<cell, at>> /\ mail' = Post(mail, m)
  BY DEF Asks, Publish
<1>2. /\ Sent = {} /\ hbwQ = <<>> /\ hbw \notin Begun /\ Replies = {} /\ Fetched = {}
  BY <1>1, FetchedToo DEF OneRequest
<1>3. /\ MailOK' /\ Box("VGR")' = Box("VGR")
      /\ m.code \notin ReqCodes => Sent' = Sent
      /\ m.code \in ReqCodes => \E k : Sent' = {k} /\ Box("HBW")'[k] = m
      /\ Stores' = Stores /\ Returns' = Returns
  BY <1>1, <1>2, RobotTells DEF MailOK, Box
<1>4. Replies' = {} /\ Fetched' = {}
  BY <1>2, <1>3 DEF Replies, Fetched
<1>5. HandsOK' /\ PlantOK'
  BY <1>1 DEF HandsOK, PlantOK
<1>6. Facts'
  BY <1>1 DEF SlotOut, FileTrue, CellsTrue, Named, RecordsTrue
<1>7. OneClose' /\ CloseTrue'
  BY <1>1, <1>3, <1>4 DEF OneClose, CloseTrue, Stocked
<1>8. Held("gripper")' = Held("gripper") /\ Held("gripper") = {}
  BY <1>1 DEF RequestFits, Held
<1>9. CASE m.code = "RESETSTORAGE" /\ wait = "idle"
  <2>1. Sent' = {} /\ robot' = "idle"
    BY <1>1, <1>2, <1>3, <1>9 DEF ReqCodes
  <2>2. OneRequest'
    BY <2>1, <1>2, <1>4 DEF OneRequest, One
  <2>3. RequestFits'
    BY <2>1, <1>8 DEF RequestFits, One
  <2> QED BY <1>3, <1>5, <1>6, <1>7, <2>2, <2>3
<1>10. CASE m.code = "FETCH_WP" /\ wait = "fetching"
  <2>1. PICK k : Sent' = {k} /\ Box("HBW")'[k] = m
    BY <1>3, <1>10 DEF ReqCodes
  <2>2. robot' = "fetching" /\ hbwQ' = <<>> /\ hbw' \notin Begun
    BY <1>1, <1>2, <1>10
  <2>3. OneRequest'
    BY <2>1, <2>2, <1>4 DEF OneRequest, One
  <2>4. RequestFits'
    BY <2>1, <2>2, <1>4, <1>8, <1>10 DEF RequestFits, One
  <2> QED BY <1>3, <1>5, <1>6, <1>7, <2>3, <2>4
<1> QED BY <1>9, <1>10

LEMMA BringsKeeps ==
  ASSUME RackInv, RackRests, Brings
  PROVE  Types' /\ Talk' /\ Facts'
<1> USE DEF RackInv, Types, Talk, Facts, RackRests, storage, hbwVars
<1>1. PICK p \in Held("outside") :
        /\ robot = "idle" /\ robot' = "storing" /\ at' = [at EXCEPT ![p] = "gripper"]
        /\ Publish(VgrDo("FETCHCONTAINER", Workflow(0, Raw(p)))) /\ UNCHANGED <<quit, cell>>
  BY DEF Brings
<1> DEFINE m == VgrDo("FETCHCONTAINER", Workflow(0, Raw(p)))
<1>p. p \in Parts /\ at[p] = "outside"
  BY DEF Held
<1>m. m \in HbwMail /\ m.code = "FETCHCONTAINER" /\ m.flow = Workflow(0, Raw(p))
  BY <1>p, RawFlow DEF VgrDo, Msg, HbwMail, ReqCodes
<1> HIDE DEF m
<1>2. /\ Sent = {} /\ hbwQ = <<>> /\ hbw \notin Begun /\ Replies = {} /\ Fetched = {}
  BY <1>1, FetchedToo DEF OneRequest
<1>3. /\ MailOK' /\ Box("VGR")' = Box("VGR")
      /\ \E k : Sent' = {k} /\ Box("HBW")'[k] = m
      /\ Stores' = Stores /\ Returns' = Returns
  <2>1. mail' = Post(mail, m) /\ m.code \in ReqCodes /\ m.code # "STORE_WP" /\ m.code # "STORECONTAINER"
    BY <1>1, <1>m DEF Publish, ReqCodes, m
  <2> QED BY <1>2, <1>m, <2>1, RobotTells DEF MailOK, Box
<1>4. Replies' = {} /\ Fetched' = {}
  BY <1>2, <1>3 DEF Replies, Fetched
<1>5. HandsOK' /\ PlantOK'
  BY <1>1, <1>p DEF HandsOK, PlantOK, Places
<1>6. Facts'
  <2>1. \A s \in Slots : cell[s] # NoUid => at'[cell[s]] = "rack"
    BY <1>1, <1>p DEF CellsTrue, PlantOK
  <2> QED BY <1>1, <2>1 DEF SlotOut, FileTrue, CellsTrue, Named, RecordsTrue
<1>7. OneClose' /\ CloseTrue'
  BY <1>1, <1>3, <1>4 DEF OneClose, CloseTrue, Stocked
<1>8. Held("gripper")' = {p}
  <2>1. Held("gripper") = {}
    BY <1>1 DEF RequestFits
  <2> QED BY <1>1, <1>p, <2>1 DEF Held, PlantOK
<1>9. PICK k : Sent' = {k} /\ Box("HBW")'[k] = m
  BY <1>3
<1>10. OneRequest'
  BY <1>1, <1>2, <1>4, <1>9 DEF OneRequest, One
<1>11. RequestFits'
  <2>1. InGripper' = {Workflow(0, Raw(p))}
    BY <1>8 DEF InGripper
  <2> QED BY <1>1, <1>2, <1>4, <1>8, <1>9, <1>m, <2>1 DEF RequestFits, One
<1> QED BY <1>3, <1>5, <1>6, <1>7, <1>10, <1>11
\* A robot that is told FETCHED has no other request, and no word is under way.
LEMMA ToldFetched ==
  ASSUME RackInv, NEW m \in Arrived("VGR"), m.code \in AnswerCodes
  PROVE  /\ Sent = {} /\ hbwQ = <<>> /\ hbw \notin Begun /\ robot # "idle"
         /\ Coded(Tail(Box("VGR")), AnswerCodes) = {} /\ Coded(Tail(Box("VGR")), {"FETCHED"}) = {}
         /\ Tail(Box("VGR")) \in Seq(VgrMail \cup {QuitMsg})
         /\ m.code = "FETCHED" =>
              Fetched # {} /\ Stores = {} /\ Returns = {} /\ hbwFlag \cap {"store", "storeContainer"} = {}
<1> USE DEF RackInv, Types, Talk
<1>1. Replies # {} /\ (m.code = "FETCHED" => Fetched # {})
      /\ Coded(Tail(Box("VGR")), AnswerCodes) = {} /\ Coded(Tail(Box("VGR")), {"FETCHED"}) = {}
      /\ Tail(Box("VGR")) \in Seq(VgrMail \cup {QuitMsg})
  BY RobotReads DEF OneRequest
<1> QED BY <1>1 DEF OneRequest, OneClose

LEMMA NoFlowOK == NoFlow \in Flows /\ VgrDo("STORE_WP", NoFlow) \in HbwMail /\ VgrDo("STORECONTAINER", NoFlow) \in HbwMail
BY DEF NoFlow, Workflow, EmptyWp, Wp, Flows, Workpiece, VgrDo, Msg, HbwMail, CloseCodes

LEMMA PutsKeeps ==
  ASSUME RackInv, RackRests, PutsWorkpiece
  PROVE  Types' /\ Talk' /\ Facts'
<1> USE DEF RackInv, Types, Talk, Facts, RackRests, storage, hbwVars
<1>1. PICK p \in Held("gripper") :
        /\ cell[tray] = NoUid
        /\ cell' = [cell EXCEPT ![tray] = p] /\ at' = [at EXCEPT ![p] = "rack"]
  BY DEF PutsWorkpiece
<1>2. PICK m \in Arrived("VGR") : m.code = "FETCHED"
  BY DEF PutsWorkpiece, Answered
<1>3. /\ robot = "storing" /\ robot' = "idle" /\ tray \in Slots
      /\ mail' = Post([mail EXCEPT !["VGR"] = Tail(@)], VgrDo("STORE_WP", NoFlow))
  BY DEF PutsWorkpiece
<1>4. /\ Sent = {} /\ hbwQ = <<>> /\ hbw \notin Begun /\ Fetched # {}
      /\ Stores = {} /\ Returns = {} /\ hbwFlag \cap {"store", "storeContainer"} = {}
      /\ Coded(Tail(Box("VGR")), AnswerCodes) = {} /\ Coded(Tail(Box("VGR")), {"FETCHED"}) = {}
      /\ Tail(Box("VGR")) \in Seq(VgrMail \cup {QuitMsg})
  BY <1>2, ToldFetched DEF AnswerCodes
<1>5. hbw = "STORE_WP" /\ hbwReq \in InGripper /\ One(Held("gripper"))
  BY <1>3, <1>4 DEF RequestFits
<1>6. hbwReq.wp.uid = p /\ p \in Parts /\ at[p] = "gripper" /\ p # NoUid
  BY <1>5, NoUidAssumption DEF InGripper, One, Held, Workflow, Raw, Wp
<1>7. nextFetchPos \in Slots /\ wp[nextFetchPos] = Null /\ tray = nextFetchPos /\ file.wp = wp
  BY <1>5 DEF SlotOut, Out, FileTrue, Saving
<1>8. /\ MailOK' /\ Box("VGR")' = Tail(Box("VGR")) /\ Sent' = {} /\ One(Stores') /\ Returns' = {}
  <2> DEFINE box == [mail EXCEPT !["VGR"] = Tail(@)]
             word == VgrDo("STORE_WP", NoFlow)
  <2>1. DOMAIN box = Clients /\ box["HBW"] = Box("HBW") /\ box["VGR"] = Tail(Box("VGR"))
    BY DEF MailOK, Box, Clients
  <2>2. word \in HbwMail /\ word.code = "STORE_WP" /\ mail' = Post(box, word)
    BY <1>3, NoFlowOK DEF VgrDo, Msg
  <2> HIDE DEF box, word
  <2> QED BY <1>4, <2>1, <2>2, RobotTells DEF ReqCodes
<1>9. Replies' = {} /\ Fetched' = {}
  BY <1>4, <1>8 DEF Replies, Fetched
<1>10. HandsOK' /\ PlantOK'
  BY <1>1, <1>3, <1>6 DEF HandsOK, PlantOK, Places
<1>11. CellsTrue'
  <2>1. \A s \in Slots : cell[s] # p
    BY <1>6 DEF CellsTrue
  <2>2. \A s \in Slots : cell'[s] = IF s = tray THEN p ELSE cell[s]
    BY <1>1 DEF PlantOK
  <2>3. at'[p] = "rack" /\ \A q \in Parts \ {p} : at'[q] = at[q]
    BY <1>1, <1>6 DEF PlantOK
  <2>4. \A s \in Slots : cell[s] \in Parts \cup {NoUid}
    BY DEF PlantOK
  <2>5. \A s, t \in Slots : cell'[s] = cell'[t] /\ cell'[s] # NoUid => s = t
    BY <2>1, <2>2 DEF CellsTrue
  <2>6. \A s \in Slots : cell'[s] # NoUid => at'[cell'[s]] = "rack"
    BY <2>1, <2>2, <2>3, <2>4 DEF CellsTrue
  <2> QED BY <2>5, <2>6 DEF CellsTrue
<1>12. RecordsTrue'
  BY <1>1, <1>7 DEF RecordsTrue, PlantOK
<1>13. Facts'
  BY <1>11, <1>12 DEF SlotOut, FileTrue, Named
<1>14. OneRequest'
  BY <1>3, <1>4, <1>8, <1>9 DEF OneRequest, One
<1>15. Held("gripper")' = {}
  BY <1>1, <1>5, <1>6 DEF Held, One, PlantOK
<1>16. RequestFits'
  BY <1>3, <1>15 DEF RequestFits, One
<1>17. OneClose'
  BY <1>4, <1>5, <1>8, <1>9 DEF OneClose, One
<1>18. CloseTrue'
  <2>1. Stocked'
    BY <1>1, <1>6, <1>7 DEF Stocked, PlantOK
  <2> QED BY <1>4, <1>8, <2>1 DEF CloseTrue
<1> QED BY <1>8, <1>10, <1>13, <1>14, <1>16, <1>17, <1>18

LEMMA TakesKeeps ==
  ASSUME RackInv, RackRests, TakesWorkpiece
  PROVE  Types' /\ Talk' /\ Facts'
<1> USE DEF RackInv, Types, Talk, Facts, RackRests, storage, hbwVars
<1>1. cell[tray] # NoUid /\ cell' = [cell EXCEPT ![tray] = NoUid] /\ at' = [at EXCEPT ![cell[tray]] = "outside"]
  BY DEF TakesWorkpiece
<1>2. PICK m \in Arrived("VGR") : m.code = "FETCHED"
  BY DEF TakesWorkpiece, Answered
<1>3. /\ robot = "fetching" /\ robot' = "idle" /\ tray \in Slots
      /\ mail' = Post([mail EXCEPT !["VGR"] = Tail(@)], VgrDo("STORECONTAINER", NoFlow))
  BY DEF TakesWorkpiece
<1>4. /\ Sent = {} /\ hbwQ = <<>> /\ hbw \notin Begun /\ Fetched # {}
      /\ Stores = {} /\ Returns = {} /\ hbwFlag \cap {"store", "storeContainer"} = {}
      /\ Coded(Tail(Box("VGR")), AnswerCodes) = {} /\ Coded(Tail(Box("VGR")), {"FETCHED"}) = {}
      /\ Tail(Box("VGR")) \in Seq(VgrMail \cup {QuitMsg})
  BY <1>2, ToldFetched DEF AnswerCodes
<1>5. hbw = "FETCH_WP_WAIT" /\ Held("gripper") = {}
  BY <1>3, <1>4 DEF RequestFits
<1>7. nextFetchPos \in Slots /\ wp[nextFetchPos] = Null /\ tray = nextFetchPos /\ file.wp = wp
  BY <1>5 DEF SlotOut, Out, FileTrue, Saving
<1>8. /\ MailOK' /\ Box("VGR")' = Tail(Box("VGR")) /\ Sent' = {} /\ One(Returns') /\ Stores' = {}
  <2> DEFINE box == [mail EXCEPT !["VGR"] = Tail(@)]
             word == VgrDo("STORECONTAINER", NoFlow)
  <2>1. DOMAIN box = Clients /\ box["HBW"] = Box("HBW") /\ box["VGR"] = Tail(Box("VGR"))
    BY DEF MailOK, Box, Clients
  <2>2. word \in HbwMail /\ word.code = "STORECONTAINER" /\ mail' = Post(box, word)
    BY <1>3, NoFlowOK DEF VgrDo, Msg
  <2> HIDE DEF box, word
  <2> QED BY <1>4, <2>1, <2>2, RobotTells DEF ReqCodes
<1>9. Replies' = {} /\ Fetched' = {}
  BY <1>4, <1>8 DEF Replies, Fetched
<1>6. cell[tray] \in Parts
  BY <1>1, <1>3 DEF PlantOK
<1>10. HandsOK' /\ PlantOK'
  BY <1>1, <1>3, <1>6 DEF HandsOK, PlantOK, Places
<1>11. CellsTrue'
  <2>2. \A s \in Slots : cell'[s] = IF s = tray THEN NoUid ELSE cell[s]
    BY <1>1 DEF PlantOK
  <2>3. \A q \in Parts \ {cell[tray]} : at'[q] = at[q]
    BY <1>1, <1>6 DEF PlantOK
  <2>4. \A s \in Slots : cell[s] \in Parts \cup {NoUid}
    BY DEF PlantOK
  <2>5. \A s, t \in Slots : cell'[s] = cell'[t] /\ cell'[s] # NoUid => s = t
    BY <2>2 DEF CellsTrue
  <2>6. \A s \in Slots : cell'[s] # NoUid => at'[cell'[s]] = "rack"
    BY <1>1, <1>3, <2>2, <2>3, <2>4 DEF CellsTrue
  <2> QED BY <2>5, <2>6 DEF CellsTrue
<1>12. RecordsTrue'
  BY <1>1, <1>7 DEF RecordsTrue, PlantOK
<1>13. Facts'
  BY <1>11, <1>12 DEF SlotOut, FileTrue, Named
<1>14. OneRequest'
  BY <1>3, <1>4, <1>8, <1>9 DEF OneRequest, One
<1>15. Held("gripper")' = {}
  BY <1>1, <1>5, <1>6 DEF Held, PlantOK
<1>16. RequestFits'
  BY <1>3, <1>15 DEF RequestFits, One
<1>17. OneClose'
  BY <1>4, <1>5, <1>8, <1>9 DEF OneClose, One
<1>18. CloseTrue'
  BY <1>1, <1>4, <1>7, <1>8 DEF CloseTrue, PlantOK
<1> QED BY <1>8, <1>10, <1>13, <1>14, <1>16, <1>17, <1>18

LEMMA ReadOnly ==
  ASSUME MailOK, Received("VGR"), Tail(Box("VGR")) \in Seq(VgrMail \cup {QuitMsg})
  PROVE  /\ MailOK' /\ Box("HBW")' = Box("HBW") /\ Box("VGR")' = Tail(Box("VGR"))
         /\ Sent' = Sent /\ Stores' = Stores /\ Returns' = Returns
<1>1. Box("HBW")' = Box("HBW") /\ Box("VGR")' = Tail(Box("VGR")) /\ DOMAIN mail' = Clients
  BY DEF Received, MailOK, Box, Clients
<1> QED BY <1>1 DEF MailOK, Sent, Stores, Returns

LEMMA RefusedKeeps ==
  ASSUME RackInv, RackRests, Refused
  PROVE  Types' /\ Talk' /\ Facts'
<1> USE DEF RackInv, Types, Talk, Facts, RackRests, storage, hbwVars
<1>1. PICK m \in Arrived("VGR") : m.topic = "hbw/fault"
  BY DEF Refused
<1>2. /\ Received("VGR") /\ robot' = "idle" /\ UNCHANGED cell
      /\ at' = [p \in Parts |-> IF at[p] = "gripper" THEN "outside" ELSE at[p]]
  BY DEF Refused
<1>3. m.code \in AnswerCodes
  <2>1. m \in VgrMail \cup {QuitMsg}
    BY RobotReads DEF OneRequest
  <2> QED BY <1>1, <2>1 DEF VgrMail, QuitMsg, Msg, AnswerCodes
<1>4. /\ Sent = {} /\ hbwQ = <<>> /\ hbw \notin Begun
      /\ Coded(Tail(Box("VGR")), AnswerCodes) = {} /\ Coded(Tail(Box("VGR")), {"FETCHED"}) = {}
      /\ Tail(Box("VGR")) \in Seq(VgrMail \cup {QuitMsg})
  BY <1>3, ToldFetched
<1>5. /\ MailOK' /\ Sent' = {} /\ Stores' = Stores /\ Returns' = Returns /\ Replies' = {} /\ Fetched' = {}
  BY <1>2, <1>4, ReadOnly DEF Replies, Fetched
<1>6. HandsOK' /\ PlantOK'
  BY <1>2 DEF HandsOK, PlantOK, Places
<1>7. CellsTrue'
  BY <1>2 DEF CellsTrue, PlantOK
<1>8. Facts'
  BY <1>2, <1>7 DEF SlotOut, FileTrue, Named, RecordsTrue
<1>9. OneRequest'
  BY <1>2, <1>4, <1>5 DEF OneRequest, One
<1>10. Held("gripper")' = {}
  BY <1>2 DEF Held
<1>11. RequestFits'
  BY <1>2, <1>10 DEF RequestFits, One
<1>12. OneClose' /\ CloseTrue'
  BY <1>2, <1>5 DEF OneClose, CloseTrue, Stocked
<1> QED BY <1>5, <1>6, <1>8, <1>9, <1>11, <1>12

LEMMA NoticedKeeps ==
  ASSUME RackInv, RackRests, Noticed
  PROVE  Types' /\ Talk' /\ Facts'
<1> USE DEF RackInv, Types, Talk, Facts, RackRests, storage, hbwVars
<1>1. PICK m \in Arrived("VGR") : m.topic = "ack"
  BY DEF Noticed
<1>2. Received("VGR") /\ UNCHANGED <<robot, cell, at>>
  BY DEF Noticed
<1>4. /\ One(Coded(Tail(Box("VGR")), AnswerCodes)) /\ Tail(Box("VGR")) \in Seq(VgrMail \cup {QuitMsg})
      /\ Coded(Tail(Box("VGR")), AnswerCodes) # {} => Replies # {}
      /\ Coded(Tail(Box("VGR")), {"FETCHED"}) # {} => Fetched # {}
  BY RobotReads DEF OneRequest
<1>5. /\ MailOK' /\ Sent' = Sent /\ Stores' = Stores /\ Returns' = Returns /\ Box("HBW")' = Box("HBW")
      /\ One(Replies') /\ (Replies' # {} => Replies # {}) /\ (Fetched' # {} => Fetched # {})
  BY <1>2, <1>4, ReadOnly DEF Replies, Fetched
<1>6. HandsOK' /\ PlantOK'
  BY <1>2 DEF HandsOK, PlantOK
<1>8. Facts'
  BY <1>2 DEF SlotOut, FileTrue, CellsTrue, Named, RecordsTrue
<1>9. OneRequest'
  BY <1>2, <1>5 DEF OneRequest
<1>10. Held("gripper")' = Held("gripper") /\ InGripper' = InGripper
  BY <1>2 DEF Held, InGripper
<1>11. RequestFits'
  BY <1>2, <1>5, <1>10 DEF RequestFits
<1>12. OneClose' /\ CloseTrue'
  BY <1>2, <1>5 DEF OneClose, CloseTrue, Stocked
<1> QED BY <1>5, <1>6, <1>8, <1>9, <1>11, <1>12
LEMMA AcknowledgeKeeps ==
  ASSUME RackInv, Acknowledge
  PROVE  Types' /\ Talk' /\ Facts'
<1> USE DEF RackInv, Types, Talk, Facts, storage, hbwVars
<1>1. Publish(QuitMsg) /\ UNCHANGED <<robot, cell, at, tray, storage, hbwVars>>
  BY DEF Acknowledge, Presses
<1>2. /\ MailOK' /\ Sent' = Sent /\ Replies' = Replies /\ Fetched' = Fetched
      /\ Stores' = Stores /\ Returns' = Returns
      /\ \A i \in Sent : Box("HBW")'[i] = Box("HBW")[i]
  BY <1>1, QuitPosted
<1>3. HandsOK' /\ PlantOK'
  BY <1>1 DEF HandsOK, PlantOK
<1>4. Facts'
  BY <1>1 DEF SlotOut, FileTrue, CellsTrue, Named, RecordsTrue
<1>5. OneRequest'
  BY <1>1, <1>2 DEF OneRequest
<1>6. Held("gripper")' = Held("gripper") /\ InGripper' = InGripper
  BY <1>1 DEF Held, InGripper
<1>7. RequestFits'
  BY <1>1, <1>2, <1>6 DEF RequestFits
<1>8. OneClose' /\ CloseTrue'
  BY <1>1, <1>2 DEF OneClose, CloseTrue, Stocked
<1> QED BY <1>2, <1>3, <1>4, <1>5, <1>7, <1>8

LEMMA CrashKeeps ==
  ASSUME RackInv, Crash
  PROVE  Types' /\ Talk' /\ Facts'
<1> USE DEF RackInv, Types, Talk, Facts
<1>1. /\ hbw' = "INIT" /\ hbwQ' = <<>> /\ hbwReq' = NoFlow /\ hbwFlag' = {}
      /\ mail' = [c \in Clients |-> <<>>] /\ robot' = "idle" /\ tray' = NoSlot /\ UNCHANGED cell
      /\ at' = [p \in Parts |-> IF at[p] = "gripper" THEN "outside" ELSE at[p]]
      /\ wp' = file.wp /\ file' = [file EXCEPT !.torn = FALSE]
  BY DEF Crash, loadStorageState
<1>2. Box("HBW")' = <<>> /\ Box("VGR")' = <<>> /\ DOMAIN mail' = Clients
  BY <1>1 DEF Box, Clients
<1>3. MailOK'
  <2>1. \A S : <<>> \in Seq(S)
    OBVIOUS
  <2> QED BY <1>2, <2>1 DEF MailOK
<1>4. Sent' = {} /\ Replies' = {} /\ Fetched' = {} /\ Stores' = {} /\ Returns' = {}
  BY <1>2 DEF Sent, Replies, Fetched, Stores, Returns, Coded
<1>5. HandsOK' /\ PlantOK'
  BY <1>1, NoFlowOK DEF HandsOK, PlantOK, HbwStates, Places
<1>6. file'.wp = file.wp /\ file'.torn = FALSE
  BY <1>1 DEF ShelvesOK
<1>7. SlotOut' /\ FileTrue'
  BY <1>1, <1>6 DEF SlotOut, FileTrue, Out, Saving
<1>8. CellsTrue'
  BY <1>1 DEF CellsTrue, PlantOK
<1>9. Named(wp)' /\ Named(file.wp)' /\ RecordsTrue'
  BY <1>1, <1>6 DEF Named, RecordsTrue
<1>10. OneRequest'
  BY <1>1, <1>4 DEF OneRequest, One, Begun
<1>11. Held("gripper")' = {}
  BY <1>1 DEF Held
<1>12. RequestFits'
  BY <1>1, <1>11 DEF RequestFits, One
<1>13. OneClose' /\ CloseTrue'
  BY <1>1, <1>4 DEF OneClose, CloseTrue, One
<1> QED BY <1>3, <1>5, <1>7, <1>8, <1>9, <1>10, <1>12, <1>13

LEMMA ReceiveKeeps ==
  ASSUME RackInv, HbwReceive, UNCHANGED <<robot, crashes>>
  PROVE  Types' /\ Talk' /\ Facts'
<1> USE DEF RackInv, Types, Talk, Facts, storage
<1>1. PICK m \in Arrived("HBW") : HbwReceive!(m)
  BY DEF HbwReceive
<1>2. UNCHANGED <<storage, cell, tray, at, tag, hbw, hbwReq>> /\ Received("HBW")
  BY <1>1
<1>3. /\ m \in HbwMail \cup {QuitMsg} /\ MailOK' /\ Box("VGR")' = Box("VGR")
      /\ One(Sent') /\ \A i \in Sent' : i + 1 \in Sent /\ Box("HBW")'[i] = Box("HBW")[i + 1]
      /\ One(Stores') /\ (Stores' # {} => Stores # {})
      /\ One(Returns') /\ (Returns' # {} => Returns # {})
      /\ m.code \in ReqCodes => Sent' = {} /\ 1 \in Sent /\ Box("HBW")[1] = m
      /\ m.code = "STORE_WP" => Stores' = {} /\ Stores # {}
      /\ m.code = "STORECONTAINER" => Returns' = {} /\ Returns # {}
  BY <1>2, RackReads DEF OneRequest, OneClose
<1>4. Replies' = Replies /\ Fetched' = Fetched
  BY <1>3 DEF Replies, Fetched
<1>5. PlantOK' /\ Facts'
  BY <1>2 DEF PlantOK, SlotOut, FileTrue, CellsTrue, Named, RecordsTrue
<1>6. Held("gripper")' = Held("gripper") /\ InGripper' = InGripper /\ robot' = robot
  BY <1>2 DEF Held, InGripper
<1>7. Sent' # {} => Sent # {}
  BY <1>3
<1>8. CASE UNCHANGED <<hbwQ, hbwFlag>>
  <2>1. HandsOK' /\ OneRequest'
    BY <1>2, <1>3, <1>4, <1>6, <1>7, <1>8 DEF HandsOK, OneRequest
  <2>2. RequestFits'
    BY <1>2, <1>3, <1>4, <1>6, <1>8 DEF RequestFits
  <2>3. OneClose' /\ CloseTrue'
    BY <1>2, <1>3, <1>4, <1>8 DEF OneClose, CloseTrue, Stocked
  <2> QED BY <1>3, <1>5, <2>1, <2>2, <2>3
<1>9. ASSUME NEW type \in {"FETCH_CONTAINER", "FETCH_WP"}, m.code \in ReqCodes, m.topic # "ack",
             type = "FETCH_CONTAINER" <=> m.code = "FETCHCONTAINER",
             hbwQ' = Append(hbwQ, [type |-> type, flow |-> m.flow]), UNCHANGED hbwFlag
      PROVE  Types' /\ Talk' /\ Facts'
  <2>1. m.flow \in Flows /\ [type |-> type, flow |-> m.flow] \in Jobs
    BY <1>3, <1>9 DEF HbwMail, QuitMsg, Msg, Jobs
  <2>2. Sent' = {} /\ Sent # {} /\ 1 \in Sent /\ Box("HBW")[1] = m
    BY <1>3, <1>9
  <2>3. hbwQ = <<>> /\ hbw \notin Begun /\ Replies = {} /\ robot # "idle"
    BY <2>2 DEF OneRequest
  <2>4. hbwQ' = <<[type |-> type, flow |-> m.flow]>>
    BY <1>9, <2>3
  <2>5. hbwQ' \in Seq(Jobs) /\ Len(hbwQ') = 1 /\ hbwQ' # <<>> /\ DOMAIN hbwQ' = {1}
        /\ hbwQ'[1].type = type /\ hbwQ'[1].flow = m.flow
    BY <2>1, <2>4
  <2>6. HandsOK'
    BY <1>2, <1>6, <1>9, <2>5 DEF HandsOK
  <2>7. OneRequest'
    BY <1>2, <1>3, <1>4, <1>6, <2>2, <2>3, <2>5 DEF OneRequest
  <2>8. RequestFits'
    <3>1. robot = "storing" => m.code = "FETCHCONTAINER" /\ m.flow \in InGripper
      BY <2>2 DEF RequestFits
    <3>2. robot = "fetching" => m.code = "FETCH_WP"
      BY <2>2 DEF RequestFits
    <3>3. robot = "fetching" => type = "FETCH_WP"
      BY <1>9, <3>2
    <3> QED BY <1>2, <1>4, <1>6, <1>9, <2>2, <2>3, <2>5, <3>1, <3>3 DEF RequestFits
  <2>9. OneClose' /\ CloseTrue'
    BY <1>2, <1>3, <1>4, <1>9 DEF OneClose, CloseTrue, Stocked
  <2> QED BY <1>3, <1>5, <2>6, <2>7, <2>8, <2>9
<1>10. ASSUME NEW flag \in {"store", "storeContainer", "reset"}, HbwRaise(flag), UNCHANGED hbwQ,
              flag = "store" => m.code = "STORE_WP",
              flag = "storeContainer" => m.code = "STORECONTAINER"
       PROVE  Types' /\ Talk' /\ Facts'
  <2>1. hbwFlag' = hbwFlag \cup {flag}
    BY <1>10 DEF HbwRaise
  <2>2. HandsOK' /\ OneRequest'
    BY <1>2, <1>3, <1>4, <1>6, <1>7, <1>10, <2>1 DEF HandsOK, OneRequest
  <2>3. RequestFits'
    BY <1>2, <1>3, <1>4, <1>6, <1>10 DEF RequestFits
  <2>4. OneClose'
    BY <1>2, <1>3, <1>4, <1>10, <2>1 DEF OneClose
  <2>5. CloseTrue'
    BY <1>2, <1>3, <1>10, <2>1 DEF CloseTrue, Stocked
  <2> QED BY <1>3, <1>5, <2>2, <2>3, <2>4, <2>5
<1>11. CASE m.code = "FETCHCONTAINER" /\ requestVGRfetchContainer(m.flow) /\ UNCHANGED <<hbwFlag, quit>>
  <2>1. m.code \in ReqCodes /\ m.topic # "ack"
    BY <1>3, <1>11 DEF ReqCodes, HbwMail, QuitMsg, Msg
  <2> QED BY <1>9, <1>11, <2>1 DEF requestVGRfetchContainer
<1>12. CASE m.code = "FETCH_WP" /\ requestVGRfetch(m.flow) /\ UNCHANGED <<hbwFlag, quit>>
  <2>1. m.code \in ReqCodes /\ m.topic # "ack"
    BY <1>3, <1>12 DEF ReqCodes, HbwMail, QuitMsg, Msg
  <2> QED BY <1>9, <1>12, <2>1 DEF requestVGRfetch
<1>13. CASE m.topic = "ack" /\ requestQuit("HBW") /\ UNCHANGED <<hbwQ, hbwFlag>>
  BY <1>8, <1>13
<1>14. CASE m.code = "STORE_WP" /\ HbwRaise("store") /\ UNCHANGED <<hbwQ, quit>>
  BY <1>10, <1>14
<1>15. CASE m.code = "STORECONTAINER" /\ HbwRaise("storeContainer") /\ UNCHANGED <<hbwQ, quit>>
  BY <1>10, <1>15
<1>16. CASE m.code = "RESETSTORAGE" /\ HbwRaise("reset") /\ UNCHANGED <<hbwQ, quit>>
  BY <1>10, <1>16
<1> QED BY <1>1, <1>11, <1>12, <1>13, <1>14, <1>15, <1>16
-----------------------------------------------------------------------------
(* The rack, one lemma for each stretch of fsmStep.                        *)

RackWorks == UNCHANGED <<robot, crashes, cell, at>>

\* What a step leaves alone when it neither reads nor sends.
LEMMA WorkKeeps ==
  ASSUME RackInv, RackWorks
  PROVE  /\ Held("gripper")' = Held("gripper") /\ InGripper' = InGripper /\ CellsTrue'
BY DEF RackInv, Facts, RackWorks, Held, InGripper, CellsTrue

\* INIT and FAULT lead to IDLE.
LEMMA IdleAgainKeeps ==
  ASSUME RackInv, RackWorks, hbw \in {"INIT", "FAULT"}, hbw' = "IDLE",
         UNCHANGED <<mail, storage, tray, hbwReq, hbwFlag, hbwQ>>
  PROVE  Types' /\ Talk' /\ Facts'
<1> USE DEF RackInv, Types, Talk, Facts, RackWorks, MailSame, storage
<1>1. MailOK' /\ MailSame
  BY SameMail
<1>2. HandsOK' /\ PlantOK' /\ MailOK'
  BY <1>1 DEF HandsOK, PlantOK, HbwStates
<1>3. Facts'
  BY WorkKeeps DEF SlotOut, FileTrue, Named, RecordsTrue, Out, Saving
<1>4. OneRequest'
  BY <1>1 DEF OneRequest, Begun
<1>5. RequestFits'
  BY <1>1, WorkKeeps DEF RequestFits, Begun
<1>6. OneClose' /\ CloseTrue'
  BY <1>1 DEF OneClose, CloseTrue, Stocked
<1> QED BY <1>2, <1>3, <1>4, <1>5, <1>6

LEMMA IdleKeeps ==
  ASSUME RackInv, RackWorks, HbwIdle
  PROVE  Types' /\ Talk' /\ Facts'
<1> USE DEF RackInv, Types, Talk, Facts, RackWorks, MailSame, storage
<1>1. hbw = "IDLE" /\ UNCHANGED <<mail, tray>>
  BY DEF HbwIdle, HbwQuiet
<1>2. MailOK' /\ MailSame
  BY <1>1, SameMail
<1>3. CASE hbwQ # <<>> /\ Begin(Head(hbwQ)) /\ hbwQ' = Tail(hbwQ) /\ UNCHANGED <<storage, hbwFlag>>
  <2>1. Head(hbwQ) = hbwQ[1] /\ 1 \in DOMAIN hbwQ /\ Head(hbwQ) \in Jobs /\ Tail(hbwQ) = <<>>
    <3>1. hbwQ \in Seq(Jobs) /\ hbwQ # <<>> /\ Len(hbwQ) <= 1
      BY <1>3 DEF HandsOK, OneRequest
    <3>2. Len(hbwQ) = 1
      BY <3>1
    <3>3. Head(hbwQ) = hbwQ[1] /\ 1 \in DOMAIN hbwQ /\ Head(hbwQ) \in Jobs
      BY <3>1
    <3>4. Tail(hbwQ) \in Seq(Jobs) /\ Len(Tail(hbwQ)) = 0
      BY <3>1, <3>2
    <3>5. Tail(hbwQ) = <<>>
      BY <3>4, EmptySeq
    <3> QED BY <3>3, <3>5
  <2>2. hbw' = Head(hbwQ).type /\ hbwReq' = Head(hbwQ).flow /\ hbwQ' = <<>>
    BY <1>3, <2>1 DEF Begin, HbwGoto
  <2>3. hbw' \in {"FETCH_CONTAINER", "FETCH_WP"} /\ hbwReq' \in Flows
    BY <2>1, <2>2 DEF Jobs
  <2>4. HandsOK' /\ PlantOK' /\ MailOK'
    BY <1>1, <1>2, <1>3, <2>2, <2>3 DEF HandsOK, PlantOK, HbwStates
  <2>5. Facts'
    BY <1>1, <1>3, <2>3, WorkKeeps DEF SlotOut, FileTrue, Named, RecordsTrue, Out, Saving
  <2>6. OneRequest'
    BY <1>2, <1>3, <2>2 DEF OneRequest
  <2>7. RequestFits'
    BY <1>1, <1>2, <1>3, <2>1, <2>2, <2>3, WorkKeeps DEF RequestFits, Begun
  <2>8. OneClose' /\ CloseTrue'
    BY <1>1, <1>2, <1>3, <2>3 DEF OneClose, CloseTrue
  <2> QED BY <2>4, <2>5, <2>6, <2>7, <2>8
<1>4. CASE resetStorageState /\ hbwFlag' = hbwFlag \ {"reset"} /\ UNCHANGED <<hbw, hbwQ, hbwReq>>
  <2>1. wp' = EmptyShelf /\ file'.wp = EmptyShelf /\ file'.torn = FALSE /\ nextFetchPos' = nextFetchPos
    BY <1>4 DEF resetStorageState
  <2>2. HandsOK' /\ PlantOK' /\ MailOK'
    BY <1>1, <1>2, <1>4 DEF HandsOK, PlantOK
  <2>3. \A s \in Slots : EmptyShelf[s] = Null
    BY DEF EmptyShelf
  <2>4. Facts'
    BY <1>1, <1>4, <2>1, <2>3, WorkKeeps DEF SlotOut, FileTrue, Named, RecordsTrue, Out, Saving
  <2>5. OneRequest'
    BY <1>2, <1>4 DEF OneRequest
  <2>6. RequestFits'
    BY <1>2, <1>4, WorkKeeps DEF RequestFits
  <2>7. OneClose' /\ CloseTrue'
    BY <1>1, <1>2, <1>4 DEF OneClose, CloseTrue
  <2> QED BY <2>2, <2>4, <2>5, <2>6, <2>7
<1> QED BY <1>3, <1>4 DEF HbwIdle
\* A fetch that finds nothing.
LEMMA FailsKeeps ==
  ASSUME RackInv, RackWorks, hbw \in {"FETCH_CONTAINER", "FETCH_WP"},
         NEW code \in AnswerCodes \ {"FETCHED"}, HbwFails(code), NothingFetched,
         UNCHANGED <<tray, hbwQ, hbwReq, hbwFlag>>
  PROVE  Types' /\ Talk' /\ Facts'
<1> USE DEF RackInv, Types, Talk, Facts, RackWorks
<1>1. hbw' = "FAULT" /\ Publish(HbwFaultMsg(code, hbwReq.wp))
  BY DEF HbwFails, HbwGoto
<1>2. HbwFaultMsg(code, hbwReq.wp) \in VgrMail /\ HbwFaultMsg(code, hbwReq.wp).code # "FETCHED"
  <2>1. hbwReq.wp \in Workpiece /\ EmptyWp \in Workpiece
    BY DEF HandsOK, Flows, EmptyWp, Wp, Workpiece
  <2> QED BY <2>1 DEF HbwFaultMsg, Msg, Workflow, VgrMail, Flows
<1>3. hbw \in Begun /\ robot # "idle" /\ Sent = {} /\ hbwQ = <<>> /\ Replies = {} /\ Fetched = {}
  BY FetchedToo DEF Begun, OneRequest
<1>4. /\ MailOK' /\ Sent' = {} /\ Stores' = Stores /\ Returns' = Returns /\ One(Replies') /\ Fetched' = {}
  BY <1>1, <1>2, <1>3, RackTells
<1>5. HandsOK' /\ PlantOK'
  BY <1>1 DEF HandsOK, PlantOK, HbwStates
<1>6. wp' = wp /\ file' = file /\ file.wp = wp /\ hbw' \notin Out /\ hbw' \notin Saving /\ hbw \notin Saving
  BY <1>1 DEF NothingFetched, FileTrue, Out, Saving
<1>7. Facts'
  BY <1>1, <1>6, WorkKeeps DEF SlotOut, FileTrue, Named, RecordsTrue
<1>8. OneRequest'
  BY <1>1, <1>3, <1>4 DEF OneRequest, One, Begun
<1>9. RequestFits'
  BY <1>1, <1>3, <1>4, WorkKeeps DEF RequestFits, Begun
<1>10. OneClose' /\ CloseTrue'
  BY <1>1, <1>4 DEF OneClose, CloseTrue
<1> QED BY <1>4, <1>5, <1>7, <1>8, <1>9, <1>10

\* A fetch that finds a slot.
LEMMA FetchesKeeps ==
  ASSUME RackInv, RackWorks, UNCHANGED <<mail, tray, hbwQ, hbwFlag>>,
         NEW s \in Slots, TakeFrom(s), hbwReq' \in Flows,
         \/ hbw = "FETCH_CONTAINER" /\ hbw' = "BRING_CONTAINER" /\ hbwReq' = hbwReq /\ wp[s] = Null
         \/ hbw = "FETCH_WP" /\ hbw' = "BRING_WP"
  PROVE  Types' /\ Talk' /\ Facts'
<1> USE DEF RackInv, Types, Talk, Facts, RackWorks, MailSame
<1>1. MailOK' /\ MailSame
  BY SameMail
<1>2. HandsOK' /\ PlantOK'
  BY DEF HandsOK, PlantOK, HbwStates
<1>3. nextFetchPos' = s /\ file' = file /\ wp' = [wp EXCEPT ![s] = Null]
  BY DEF TakeFrom
<1>4. wp'[s] = Null /\ \A t \in Slots \ {s} : wp'[t] = wp[t]
  BY <1>3 DEF ShelvesOK, Shelf
<1>5. file.wp = wp /\ file.torn = FALSE
  BY DEF FileTrue, Saving, ShelvesOK
<1>6. hbw = "FETCH_CONTAINER" => wp' = wp
  BY <1>3 DEF ShelvesOK, Shelf
<1>7. SlotOut' /\ Named(wp)' /\ Named(file.wp)' /\ RecordsTrue'
  BY <1>3, <1>4 DEF SlotOut, Out, Named, RecordsTrue
<1>8. FileTrue'
  BY <1>3, <1>4, <1>5, <1>6 DEF FileTrue, Saving
<1>9. OneRequest'
  BY <1>1 DEF OneRequest, Begun
<1>10. RequestFits'
  BY <1>1, WorkKeeps DEF RequestFits, Begun
<1>11. OneClose' /\ CloseTrue'
  BY <1>1 DEF OneClose, CloseTrue
<1> QED BY <1>1, <1>2, <1>7, <1>8, <1>9, <1>10, <1>11, WorkKeeps

\* The rack tells the robot that the container stands on the belt.
LEMMA TellsKeeps ==
  ASSUME RackInv, RackWorks, HbwTells, UNCHANGED <<hbwQ, hbwReq, hbwFlag, wp, nextFetchPos>>,
         tray' = nextFetchPos,
         \/ hbw = "BRING_CONTAINER" /\ hbw' = "STORE_WP" /\ UNCHANGED file
         \/ hbw = "SAVE_FETCHED" /\ hbw' = "FETCH_WP_WAIT" /\ saveEnd
  PROVE  Types' /\ Talk' /\ Facts'
<1> USE DEF RackInv, Types, Talk, Facts, RackWorks
<1>1. HbwAck("FETCHED", hbwReq.wp) \in VgrMail /\ Publish(HbwAck("FETCHED", hbwReq.wp))
  BY DEF HbwTells, HbwAck, Msg, Workflow, VgrMail, Flows, HandsOK
<1>3. hbw \in Begun /\ robot # "idle" /\ Sent = {} /\ hbwQ = <<>> /\ Replies = {} /\ Fetched = {}
  BY FetchedToo DEF Begun, OneRequest
<1>4. /\ MailOK' /\ Sent' = {} /\ Stores' = Stores /\ Returns' = Returns /\ One(Replies')
  BY <1>1, <1>3, RackTells
<1>5. nextFetchPos \in Slots /\ wp[nextFetchPos] = Null
  BY DEF SlotOut, Out
<1>6. HandsOK' /\ PlantOK'
  BY <1>5 DEF HandsOK, PlantOK, HbwStates
<1>7. file'.wp = wp /\ file'.torn = FALSE
  BY DEF FileTrue, Saving, saveEnd, ShelvesOK
<1>8. Facts'
  BY <1>5, <1>7, WorkKeeps DEF SlotOut, FileTrue, Named, RecordsTrue, Out, Saving
<1>9. OneRequest'
  BY <1>3, <1>4 DEF OneRequest, Begun
<1>10. RequestFits'
  BY <1>3, <1>4, WorkKeeps DEF RequestFits, Begun
<1>11. OneClose' /\ CloseTrue'
  BY <1>4 DEF OneClose, CloseTrue
<1> QED BY <1>4, <1>6, <1>8, <1>9, <1>10, <1>11

\* The record is made before the crane moves.
LEMMA StoresKeeps ==
  ASSUME RackInv, RackWorks, UNCHANGED <<mail, tray, hbwQ, hbwReq, hbwFlag>>,
         hbw = "STORE_WP", "store" \in hbwFlag, hbw' = "RETURN_WP", store(hbwReq.wp)
  PROVE  Types' /\ Talk' /\ Facts'
<1> USE DEF RackInv, Types, Talk, Facts, RackWorks, MailSame
<1>1. MailOK' /\ MailSame
  BY SameMail
<1>2. HandsOK' /\ PlantOK'
  BY DEF HandsOK, PlantOK, HbwStates
<1>3. nextFetchPos \in Slots /\ Stocked /\ nextFetchPos' = nextFetchPos /\ file' = file
  BY DEF SlotOut, Out, CloseTrue, store
<1>4. wp' = [wp EXCEPT ![nextFetchPos] = hbwReq.wp]
  BY DEF store
<1>5. wp'[nextFetchPos] = hbwReq.wp /\ \A t \in Slots \ {nextFetchPos} : wp'[t] = wp[t]
  BY <1>3, <1>4 DEF ShelvesOK, Shelf
<1>6. file.wp = wp /\ file.torn = FALSE
  BY DEF FileTrue, Saving, ShelvesOK
<1>7. SlotOut' /\ Named(wp)' /\ Named(file.wp)' /\ RecordsTrue'
  BY <1>3, <1>5 DEF SlotOut, Out, Named, RecordsTrue, Stocked
<1>8. FileTrue'
  BY <1>3, <1>5, <1>6 DEF FileTrue, Saving
<1>9. OneRequest'
  BY <1>1 DEF OneRequest, Begun
<1>10. Stores = {} /\ Fetched = {}
  BY DEF OneClose
<1>11. RequestFits'
  BY <1>1, <1>10, WorkKeeps DEF RequestFits, Begun
<1>12. OneClose' /\ CloseTrue'
  BY <1>1, <1>10 DEF OneClose, CloseTrue
<1> QED BY <1>1, <1>2, <1>7, <1>8, <1>9, <1>11, <1>12, WorkKeeps

\* The saves: torn before the rest, and then whole.  The container is out
\* while SAVE_FETCHED writes, and in its slot while the others do.
LEMMA SavesKeep ==
  ASSUME RackInv, RackWorks, UNCHANGED <<mail, hbwQ, hbwReq, hbwFlag>>, saveBegin,
         \/ hbw = "RETURN_WP" /\ hbw' = "SAVE_STORED" /\ tray' = NoSlot
         \/ hbw = "RETURN_CONTAINER" /\ hbw' = "SAVE_RETURNED" /\ tray' = NoSlot
         \/ hbw = "BRING_WP" /\ hbw' = "SAVE_FETCHED" /\ tray' = nextFetchPos
  PROVE  Types' /\ Talk' /\ Facts'
<1> USE DEF RackInv, Types, Talk, Facts, RackWorks, MailSame
<1>1. MailOK' /\ MailSame
  BY SameMail
<1>2. wp' = wp /\ nextFetchPos' = nextFetchPos /\ file'.wp = EmptyShelf /\ file'.torn = TRUE
  BY DEF saveBegin
<1>3. hbw = "BRING_WP" => nextFetchPos \in Slots /\ wp[nextFetchPos] = Null
  BY DEF SlotOut, Out
<1>4. HandsOK' /\ PlantOK'
  BY <1>3 DEF HandsOK, PlantOK, HbwStates
<1>5. \A s \in Slots : EmptyShelf[s] = Null
  BY DEF EmptyShelf
<1>6. Facts'
  BY <1>2, <1>3, <1>5, WorkKeeps DEF SlotOut, FileTrue, Named, RecordsTrue, Out, Saving
<1>7. OneRequest'
  BY <1>1 DEF OneRequest, Begun
<1>8. RequestFits'
  BY <1>1, WorkKeeps DEF RequestFits, Begun
<1>9. OneClose' /\ CloseTrue'
  BY <1>1 DEF OneClose, CloseTrue
<1> QED BY <1>1, <1>4, <1>6, <1>7, <1>8, <1>9

LEMMA SavedKeeps ==
  ASSUME RackInv, RackWorks, UNCHANGED <<mail, hbwQ, hbwReq, tray>>, saveEnd, hbw' = "IDLE",
         \/ hbw = "SAVE_STORED" /\ hbwFlag' = hbwFlag \ {"store"}
         \/ hbw = "SAVE_RETURNED" /\ hbwFlag' = hbwFlag
  PROVE  Types' /\ Talk' /\ Facts'
<1> USE DEF RackInv, Types, Talk, Facts, RackWorks, MailSame
<1>1. MailOK' /\ MailSame
  BY SameMail
<1>2. wp' = wp /\ nextFetchPos' = nextFetchPos /\ file'.wp = wp /\ file'.torn = FALSE
  BY DEF saveEnd
<1>3. HandsOK' /\ PlantOK'
  BY DEF HandsOK, PlantOK, HbwStates
<1>4. Facts'
  BY <1>2, WorkKeeps DEF SlotOut, FileTrue, Named, RecordsTrue, Out, Saving
<1>5. OneRequest'
  BY <1>1 DEF OneRequest, Begun
<1>6. RequestFits'
  BY <1>1, WorkKeeps DEF RequestFits, Begun
<1>7. OneClose' /\ CloseTrue'
  BY <1>1 DEF OneClose, CloseTrue
<1> QED BY <1>1, <1>3, <1>4, <1>5, <1>6, <1>7

\* The word of the robot ends the wait, and the empty container goes back.
LEMMA WaitKeeps ==
  ASSUME RackInv, RackWorks, UNCHANGED <<mail, hbwQ, hbwReq, tray, storage>>,
         hbw = "FETCH_WP_WAIT", hbw' = "STORE_CONTAINER", "storeContainer" \in hbwFlag,
         hbwFlag' = hbwFlag \ {"storeContainer"}
  PROVE  Types' /\ Talk' /\ Facts'
<1> USE DEF RackInv, Types, Talk, Facts, RackWorks, MailSame, storage
<1>1. MailOK' /\ MailSame
  BY SameMail
<1>2. Returns = {} /\ Stores = {} /\ Fetched = {}
  BY DEF OneClose
<1>3. HandsOK' /\ PlantOK'
  BY DEF HandsOK, PlantOK, HbwStates
<1>4. Facts'
  BY WorkKeeps DEF SlotOut, FileTrue, Named, RecordsTrue, Out, Saving
<1>5. OneRequest'
  BY <1>1 DEF OneRequest, Begun
<1>6. RequestFits'
  BY <1>1, <1>2, WorkKeeps DEF RequestFits, Begun
<1>7. OneClose' /\ CloseTrue'
  BY <1>1, <1>2 DEF OneClose, CloseTrue
<1> QED BY <1>1, <1>3, <1>4, <1>5, <1>6, <1>7

LEMMA StoreContainerKeeps ==
  ASSUME RackInv, RackWorks, UNCHANGED <<mail, hbwQ, hbwReq, tray, hbwFlag>>, storeContainer,
         hbw = "STORE_CONTAINER", hbw' = "RETURN_CONTAINER"
  PROVE  Types' /\ Talk' /\ Facts'
<1> USE DEF RackInv, Types, Talk, Facts, RackWorks, MailSame
<1>1. MailOK' /\ MailSame
  BY SameMail
<1>2. nextFetchPos \in Slots /\ wp[nextFetchPos] = Null
  BY DEF SlotOut, Out
<1>3. wp' = wp /\ nextFetchPos' = nextFetchPos /\ file' = file
  BY <1>2 DEF storeContainer, ShelvesOK, Shelf
<1>4. HandsOK' /\ PlantOK'
  BY DEF HandsOK, PlantOK, HbwStates
<1>5. Facts'
  BY <1>3, WorkKeeps DEF SlotOut, FileTrue, Named, RecordsTrue, Out, Saving
<1>6. OneRequest'
  BY <1>1 DEF OneRequest, Begun
<1>7. RequestFits'
  BY <1>1, WorkKeeps DEF RequestFits, Begun
<1>8. OneClose' /\ CloseTrue'
  BY <1>1 DEF OneClose, CloseTrue
<1> QED BY <1>1, <1>4, <1>5, <1>6, <1>7, <1>8
LEMMA StepKeeps ==
  ASSUME RackInv, HbwStep, UNCHANGED <<robot, crashes>>
  PROVE  Types' /\ Talk' /\ Facts'
<1>1. CASE HbwIdle
  <2>1. RackWorks
    BY <1>1 DEF HbwIdle, RackWorks
  <2> QED BY <1>1, <2>1, IdleKeeps
<1> SUFFICES ASSUME ~HbwIdle PROVE Types' /\ Talk' /\ Facts'
  BY <1>1
<1>2. RackWorks /\ UNCHANGED hbwQ
  BY DEF HbwStep, RackWorks, HbwKeeps, HbwInit, HbwFault, HbwFetchContainer, HbwBringContainer,
         HbwStoreWp, HbwReturnWp, HbwReturns, HbwStored, HbwFetchWp, HbwBringWp, HbwFetched,
         HbwFetchWpWait, HbwStoreContainer, HbwReturnContainer, HbwReturned
<1> USE DEF HbwGoto, HbwQuiet, storage
<1>3. CASE HbwInit \/ HbwFault
  BY <1>2, <1>3, IdleAgainKeeps DEF HbwInit, HbwFault
<1>4. CASE HbwFetchContainer
  <2>1. CASE Free # {}
    <3>1. First(Free) \in Slots /\ wp[First(Free)] = Null
      <4>1. Free \in SUBSET Slots
        BY DEF Free
      <4>2. First(Free) \in Free
        BY <2>1, <4>1, FirstIsOne
      <4> QED BY <4>2 DEF Free
    <3>2. /\ TakeFrom(First(Free)) /\ hbw = "FETCH_CONTAINER" /\ hbw' = "BRING_CONTAINER"
          /\ UNCHANGED <<mail, tray, hbwQ, hbwFlag, hbwReq>>
      BY <1>2, <1>4, <2>1 DEF HbwFetchContainer, fetchContainer
    <3>3. hbwReq' \in Flows
      BY <3>2 DEF RackInv, Types, HandsOK
    <3> QED BY <1>2, <3>1, <3>2, <3>3, FetchesKeeps
  <2>2. CASE Free = {}
    <3>1. /\ NothingFetched /\ hbw = "FETCH_CONTAINER" /\ HbwFails("CNT_NOT_AVAILABLE")
          /\ UNCHANGED <<tray, hbwQ, hbwFlag, hbwReq>>
      BY <1>2, <1>4, <2>2 DEF HbwFetchContainer, fetchContainer
    <3> QED BY <1>2, <3>1, FailsKeeps DEF AnswerCodes
  <2> QED BY <2>1, <2>2
<1>5. CASE HbwBringContainer
  BY <1>2, <1>5, TellsKeeps DEF HbwBringContainer, OnBelt
<1>6. CASE HbwStoreWp
  <2>1. isValidPos(nextFetchPos)
    BY <1>6 DEF HbwStoreWp, isValidPos, RackInv, Facts, SlotOut, Out
  <2> QED BY <1>2, <1>6, <2>1, StoresKeeps DEF HbwStoreWp
<1>7. CASE HbwReturnWp \/ HbwReturnContainer \/ HbwBringWp
  BY <1>2, <1>7, SavesKeep DEF HbwReturnWp, HbwReturnContainer, HbwReturns, HbwBringWp, OnBelt
<1>8. CASE HbwStored \/ HbwReturned
  BY <1>2, <1>8, SavedKeeps DEF HbwStored, HbwReturned
<1>9. CASE HbwFetchWp
  <2> DEFINE s == FetchSlot(hbwReq.wp)
  <2>1. CASE isValidPos(s)
    <3>1. /\ s \in Slots /\ TakeFrom(s) /\ hbw = "FETCH_WP" /\ hbw' = "BRING_WP"
          /\ hbwReq' = [hbwReq EXCEPT !.wp = wp[s]] /\ UNCHANGED <<mail, tray, hbwQ, hbwFlag>>
      BY <1>2, <1>9, <2>1 DEF HbwFetchWp, fetch, isValidPos
    <3> HIDE DEF s
    <3>2. hbwReq' \in Flows
      BY <3>1 DEF RackInv, Types, HandsOK, Flows, ShelvesOK, Shelf
    <3> QED BY <1>2, <3>1, <3>2, FetchesKeeps
  <2>2. CASE ~isValidPos(s)
    <3>1. /\ NothingFetched /\ hbw = "FETCH_WP" /\ HbwFails("WP_NOT_AVAILABLE")
          /\ UNCHANGED <<tray, hbwQ, hbwFlag, hbwReq>>
      BY <1>2, <1>9, <2>2 DEF HbwFetchWp, fetch
    <3> QED BY <1>2, <3>1, FailsKeeps DEF AnswerCodes
  <2> QED BY <2>1, <2>2
<1>10. CASE HbwFetched
  <2>1. tray = nextFetchPos /\ UNCHANGED <<tray, nextFetchPos>>
    BY <1>10 DEF HbwFetched, saveEnd, RackInv, Facts, SlotOut
  <2> QED BY <1>2, <1>10, <2>1, TellsKeeps DEF HbwFetched, saveEnd
<1>11. CASE HbwFetchWpWait
  BY <1>2, <1>11, WaitKeeps DEF HbwFetchWpWait
<1>12. CASE HbwStoreContainer
  <2>1. isValidPos(nextFetchPos)
    BY <1>12 DEF HbwStoreContainer, isValidPos, RackInv, Facts, SlotOut, Out
  <2> QED BY <1>2, <1>12, <2>1, StoreContainerKeeps DEF HbwStoreContainer
<1> QED
  BY <1>3, <1>4, <1>5, <1>6, <1>7, <1>8, <1>9, <1>10, <1>11, <1>12 DEF HbwStep

LEMMA RobotKeeps ==
  ASSUME RackInv, RobotStep
  PROVE  Types' /\ Talk' /\ Facts'
<1>1. RackRests
  BY DEF RobotStep, RackRests
<1>2. ASSUME NEW c \in Colours, Asks(VgrDo("FETCH_WP", Workflow(0, Wp(NoUid, c, "RAW"))), "fetching")
      PROVE  Types' /\ Talk' /\ Facts'
  <2>1. /\ VgrDo("FETCH_WP", Workflow(0, Wp(NoUid, c, "RAW"))) \in HbwMail
        /\ VgrDo("FETCH_WP", Workflow(0, Wp(NoUid, c, "RAW"))).code = "FETCH_WP"
    BY DEF VgrDo, Msg, Workflow, Wp, HbwMail, ReqCodes, Flows, Workpiece
  <2> QED BY <1>1, <1>2, <2>1, AsksKeeps
<1>3. ASSUME NEW p \in Parts, Asks(VgrDo("FETCH_WP", Workflow(0, Wp(p, "NONE", "NONE"))), "fetching")
      PROVE  Types' /\ Talk' /\ Facts'
  <2>1. /\ VgrDo("FETCH_WP", Workflow(0, Wp(p, "NONE", "NONE"))) \in HbwMail
        /\ VgrDo("FETCH_WP", Workflow(0, Wp(p, "NONE", "NONE"))).code = "FETCH_WP"
    BY DEF VgrDo, Msg, Workflow, Wp, HbwMail, ReqCodes, Flows, Workpiece
  <2> QED BY <1>1, <1>3, <2>1, AsksKeeps
<1>4. CASE Asks(VgrDo("RESETSTORAGE", NoFlow), "idle")
  <2>1. /\ VgrDo("RESETSTORAGE", NoFlow) \in HbwMail /\ VgrDo("RESETSTORAGE", NoFlow).code = "RESETSTORAGE"
    BY NoFlowOK DEF VgrDo, Msg, HbwMail
  <2> QED BY <1>1, <1>4, <2>1, AsksKeeps
<1> QED
  BY <1>1, <1>2, <1>3, <1>4, BringsKeeps, PutsKeeps, TakesKeeps, RefusedKeeps, NoticedKeeps DEF RobotStep

LEMMA StillKeeps ==
  ASSUME RackInv, UNCHANGED rackVars
  PROVE  Types' /\ Talk' /\ Facts'
<1> USE DEF RackInv, Types, Talk, Facts, rackVars, storage, plant, hbwVars, MailSame
<1>1. MailOK' /\ MailSame
  BY SameMail
<1>2. HandsOK' /\ PlantOK' /\ Held("gripper")' = Held("gripper") /\ InGripper' = InGripper
  BY DEF HandsOK, PlantOK, Held, InGripper
<1>3. Facts'
  BY DEF SlotOut, FileTrue, CellsTrue, Named, RecordsTrue
<1>4. OneRequest' /\ RequestFits'
  BY <1>1, <1>2 DEF OneRequest, RequestFits
<1>5. OneClose' /\ CloseTrue'
  BY <1>1 DEF OneClose, CloseTrue, Stocked
<1> QED BY <1>1, <1>2, <1>3, <1>4, <1>5

LEMMA RackInvKept == RackInv /\ [RackNext]_rackVars => RackInv'
<1> SUFFICES ASSUME RackInv, [RackNext]_rackVars PROVE RackInv'
  OBVIOUS
<1>1. ShelvesOK'
  BY RackRecords, RackUses, StorageStepKeeps DEF RecordsInv
<1>2. Types' /\ Talk' /\ Facts'
  BY StepKeeps, ReceiveKeeps, RobotKeeps, AcknowledgeKeeps, CrashKeeps, StillKeeps DEF RackNext, Rack
<1> QED BY <1>1, <1>2 DEF RackInv

LEMMA RackStarts == RackInit => RackInv
<1> SUFFICES ASSUME RackInit PROVE RackInv
  OBVIOUS
<1>1. /\ wp = [s \in Slots |-> IF Stored[s] = NoUid THEN Null ELSE Raw(Stored[s])]
      /\ file.wp = wp /\ file.torn = FALSE /\ DOMAIN file = {"wp", "filled", "torn"}
      /\ cell = Stored /\ tray = NoSlot /\ nextFetchPos = NoSlot
      /\ at = [p \in Parts |-> IF \E s \in Slots : Stored[s] = p THEN "rack" ELSE "outside"]
      /\ mail = [c \in Clients |-> <<>>]
      /\ hbw = "INIT" /\ hbwQ = <<>> /\ hbwReq = NoFlow /\ hbwFlag = {} /\ robot = "idle"
  BY DEF RackInit
<1>2. Box("HBW") = <<>> /\ Box("VGR") = <<>> /\ DOMAIN mail = Clients
  BY <1>1 DEF Box, Clients
<1>3. MailOK
  <2>1. \A S : <<>> \in Seq(S)
    OBVIOUS
  <2> QED BY <1>2, <2>1 DEF MailOK
<1>4. Sent = {} /\ Replies = {} /\ Fetched = {} /\ Stores = {} /\ Returns = {}
  BY <1>2 DEF Sent, Replies, Fetched, Stores, Returns, Coded
<1>5. HandsOK /\ PlantOK
  BY <1>1, NoFlowOK, RackConstants DEF HandsOK, PlantOK, HbwStates, Places
<1>6. \A p \in Parts : Raw(p) \in Workpiece /\ Raw(p).uid = p
  BY RackConstants DEF Raw, Wp, Workpiece
<1>7. \A s \in Slots : wp[s] = IF Stored[s] = NoUid THEN Null ELSE Raw(Stored[s])
  BY <1>1
<1>8. Null \in Workpiece
  BY DEF Null, Wp, Workpiece
<1>9. ShelvesOK
  BY <1>1, <1>6, <1>8, RackConstants DEF ShelvesOK, Shelf
<1>10. Named(wp) /\ Named(file.wp) /\ RecordsTrue
  BY <1>1, <1>6, <1>7, RackConstants DEF Named, RecordsTrue
<1>11. CellsTrue
  BY <1>1, RackConstants DEF CellsTrue
<1>12. SlotOut /\ FileTrue
  BY <1>1 DEF SlotOut, FileTrue, Out, Saving
<1>13. OneRequest
  BY <1>1, <1>4 DEF OneRequest, One, Begun
<1>14. Held("gripper") = {}
  BY <1>1 DEF Held
<1>15. RequestFits
  BY <1>1, <1>14 DEF RequestFits, One
<1>16. OneClose /\ CloseTrue
  BY <1>1, <1>4 DEF OneClose, CloseTrue, One
<1> QED
  BY <1>3, <1>5, <1>9, <1>10, <1>11, <1>12, <1>13, <1>15, <1>16 DEF RackInv, Types, Talk, Facts

LEMMA RackAlways == RackSpec => []RackInv
BY RackStarts, RackInvKept, PTL DEF RackSpec

\* Whatever the rack controller and its robot do, in whatever order their
\* messages come, and wherever a restart cuts them short, the controller calls
\* store and storeContainer only for the empty slot of its last fetch, and
\* never records a workpiece that another slot records (TxtHighBayWarehouse::
\* store and TxtHighBayWarehouseStorage): the precondition OneRecord rests on.
THEOREM RackUsesStorageWell == RackSpec => StorageUsedWell
BY RackAlways, RackUses, PTL DEF RackSpec, StorageUsedWell

\* So no workpiece is in two records of the rack either.
THEOREM RackRecordsOnce == RackSpec => []RecordedOnce
<1>1. RackInv => RecordedOnce
  BY RackRecords DEF RecordsInv, RecordedOnce
<1> QED BY RackAlways, <1>1, PTL

\* A record never outlives its workpiece: what memory and file say of a slot
\* is true of its container, at every moment and across restarts.
THEOREM RecordsStayTrue == RackSpec => []RecordsTrue
<1>1. RackInv => RecordsTrue
  BY DEF RackInv, Facts
<1> QED BY RackAlways, <1>1, PTL
-----------------------------------------------------------------------------
(* How many workpieces the rack can forget.                                *)

Away == Unrecorded \ Busy
ForgottenInv == RackInv /\ crashes \in Nat /\ Forgotten

LEMMA UnrecordedFinite == IsFiniteSet(Unrecorded) /\ IsFiniteSet(Away)
BY SlotsFinite, FS_Subset DEF Unrecorded, Away

LEMMA OneMore ==
  /\ IsFiniteSet(Away \cup {nextFetchPos}) /\ Cardinality(Away) \in Nat
  /\ Cardinality(Away \cup {nextFetchPos}) <= Cardinality(Away) + 1
  /\ Cardinality(Away \cup {nextFetchPos}) \in Nat
<1>1. IsFiniteSet(Away) /\ Cardinality(Away) \in Nat
  BY UnrecordedFinite, FS_CardinalityType
<1>2. /\ IsFiniteSet(Away \cup {nextFetchPos})
      /\ Cardinality(Away \cup {nextFetchPos})
           = IF nextFetchPos \in Away THEN Cardinality(Away) ELSE Cardinality(Away) + 1
  BY <1>1, FS_AddElement
<1>3. Cardinality(Away \cup {nextFetchPos}) \in Nat
  BY <1>2, FS_CardinalityType
<1> QED BY <1>1, <1>2, <1>3

\* No step but a crash leaves a further workpiece off the record, unless the
\* records are wiped.
LEMMA NoMoreAway ==
  ASSUME RackInv, [Rack \/ RobotStep \/ Acknowledge]_rackVars, ~wiped'
  PROVE  Away' \subseteq Away
<1> USE DEF RackInv, Types, Talk, Facts, Away, Unrecorded, Busy
<1>1. CASE UNCHANGED <<wp, cell, nextFetchPos, hbw>>
  BY <1>1
<1>2. CASE Rack /\ HbwIdle
  <2>1. hbw = "IDLE" /\ hbw' \in {"IDLE", "FETCH_CONTAINER", "FETCH_WP"} /\ UNCHANGED cell
    <3>1. hbwQ # <<>> => Head(hbwQ) \in Jobs
      BY DEF HandsOK
    <3> QED BY <1>2, <3>1 DEF HbwIdle, Begin, HbwGoto, Jobs
  <2>2. UNCHANGED wp
    BY <1>2 DEF HbwIdle, resetStorageState, Rack, storage
  <2> QED BY <2>1, <2>2
<1>3. CASE Rack /\ HbwFetchContainer
  <2>1. hbw = "FETCH_CONTAINER" /\ hbw' \in {"BRING_CONTAINER", "FAULT"} /\ UNCHANGED cell
    BY <1>3 DEF HbwFetchContainer, HbwGoto, HbwKeeps, HbwFails
  <2>2. \A s \in Slots : wp'[s] = wp[s]
    <3>1. CASE Free # {}
      <4>1. Free \in SUBSET Slots
        BY DEF Free
      <4>2. First(Free) \in Free
        BY <3>1, <4>1, FirstIsOne
      <4>3. wp[First(Free)] = Null /\ wp' = [wp EXCEPT ![First(Free)] = Null]
        BY <1>3, <3>1, <4>2 DEF Free, HbwFetchContainer, fetchContainer, TakeFrom
      <4> QED BY <4>3 DEF ShelvesOK, Shelf
    <3>2. CASE Free = {}
      BY <1>3, <3>2 DEF HbwFetchContainer, fetchContainer, NothingFetched
    <3> QED BY <3>1, <3>2
  <2> QED BY <2>1, <2>2
<1>4. CASE Rack /\ HbwStoreWp
  <2>1. isValidPos(nextFetchPos) /\ Stocked
    BY <1>4 DEF HbwStoreWp, isValidPos, SlotOut, Out, CloseTrue
  <2>2. store(hbwReq.wp) /\ hbw = "STORE_WP" /\ UNCHANGED cell
    BY <1>4, <2>1 DEF HbwStoreWp, HbwKeeps
  <2>3. \A s \in Slots \ {nextFetchPos} : wp'[s] = wp[s]
    BY <2>2 DEF store, ShelvesOK, Shelf
  <2>4. wp'[nextFetchPos] = hbwReq.wp /\ hbwReq.wp # Null
    BY <2>1, <2>2, NoUidAssumption DEF store, ShelvesOK, Shelf, isValidPos, Stocked, Null, Wp
  <2> QED BY <2>2, <2>3, <2>4
<1>5. CASE Rack /\ HbwFetchWp
  <2>1. hbw = "FETCH_WP" /\ UNCHANGED cell
    BY <1>5 DEF HbwFetchWp, HbwKeeps
  <2>2. CASE isValidPos(FetchSlot(hbwReq.wp))
    <3>1. hbw' = "BRING_WP" /\ TakeFrom(FetchSlot(hbwReq.wp))
      BY <1>5, <2>2 DEF HbwFetchWp, fetch, HbwGoto
    <3>2. \A s \in Slots \ {nextFetchPos'} : wp'[s] = wp[s]
      BY <3>1 DEF TakeFrom, ShelvesOK, Shelf
    <3> QED BY <2>1, <3>1, <3>2
  <2>3. CASE ~isValidPos(FetchSlot(hbwReq.wp))
    BY <1>5, <2>1, <2>3 DEF HbwFetchWp, fetch, NothingFetched
  <2> QED BY <2>2, <2>3
<1>6. CASE Rack /\ HbwFetchWpWait
  <2>1. cell[nextFetchPos] = NoUid /\ UNCHANGED <<cell, wp, nextFetchPos>>
    BY <1>6 DEF HbwFetchWpWait, CloseTrue, HbwKeeps, storage
  <2> QED BY <2>1
<1>7. CASE Rack /\ HbwStoreContainer
  <2>1. isValidPos(nextFetchPos) /\ wp[nextFetchPos] = Null /\ hbw = "STORE_CONTAINER"
    BY <1>7 DEF HbwStoreContainer, isValidPos, SlotOut, Out
  <2>2. storeContainer /\ UNCHANGED cell
    BY <1>7, <2>1 DEF HbwStoreContainer, HbwKeeps
  <2>3. \A s \in Slots : wp'[s] = wp[s]
    BY <2>1, <2>2 DEF storeContainer, ShelvesOK, Shelf, isValidPos
  <2> QED BY <2>1, <2>2, <2>3
<1>8. CASE RobotStep
  <2>1. UNCHANGED <<wp, nextFetchPos, hbw>>
    BY <1>8 DEF RobotStep, storage, hbwVars
  <2>2. CASE PutsWorkpiece
    <3>1. \E m \in Arrived("VGR") : m.code = "FETCHED"
      BY <2>2 DEF PutsWorkpiece, Answered
    <3>2. Fetched # {}
      BY <3>1, ToldFetched DEF AnswerCodes
    <3>3. hbw = "STORE_WP" /\ tray = nextFetchPos
      BY <2>2, <3>2 DEF PutsWorkpiece, RequestFits, SlotOut
    <3>4. \A s \in Slots \ {nextFetchPos} : cell'[s] = cell[s]
      BY <2>2, <3>3 DEF PutsWorkpiece, PlantOK
    <3> QED BY <2>1, <3>3, <3>4
  <2>3. CASE TakesWorkpiece
    BY <2>1, <2>3 DEF TakesWorkpiece, PlantOK
  <2>4. CASE UNCHANGED cell
    BY <2>1, <2>4
  <2> QED BY <1>8, <2>2, <2>3, <2>4 DEF RobotStep, Brings, Asks, Refused, Noticed
<1>9. ASSUME Rack, HbwInit \/ HbwFault \/ HbwBringContainer \/ HbwReturnWp \/ HbwStored \/ HbwBringWp
                   \/ HbwFetched \/ HbwReturnContainer \/ HbwReturned
      PROVE  Away' \subseteq Away
  <2>1. UNCHANGED <<wp, cell, nextFetchPos>> /\ Busy \subseteq Busy'
    BY <1>9 DEF HbwInit, HbwFault, HbwBringContainer, HbwReturnWp, HbwStored, HbwBringWp, HbwFetched,
                HbwReturnContainer, HbwReturned, HbwReturns, HbwKeeps, HbwGoto, storage, saveBegin, saveEnd
  <2> QED BY <2>1
<1> QED
  BY <1>1, <1>2, <1>3, <1>4, <1>5, <1>6, <1>7, <1>8, <1>9
  DEF Rack, HbwStep, HbwReceive, Acknowledge, Presses, rackVars, storage, plant, hbwVars

\* A crash adds the slot the rack was busy with, unless the file was torn.
LEMMA CrashForgetsOne ==
  ASSUME RackInv, Crash, ~wiped'
  PROVE  ~wiped /\ Away' \subseteq Away \cup {nextFetchPos}
<1> USE DEF RackInv, Types, Talk, Facts, Away, Unrecorded, Busy
<1>0. wiped' = (wiped \/ file.torn)
  BY DEF Crash
<1>1. ~wiped /\ ~file.torn
  BY <1>0, Zenon
<1>3. wp' = file.wp /\ UNCHANGED cell
  BY DEF Crash, loadStorageState
<1>2. \A s \in Slots \ {nextFetchPos} : file.wp[s] = wp[s]
  BY <1>1 DEF FileTrue
<1> QED BY <1>1, <1>2, <1>3

LEMMA ForgottenKept == ForgottenInv /\ [RackNext]_rackVars => ForgottenInv'
<1> SUFFICES ASSUME ForgottenInv, [RackNext]_rackVars PROVE ForgottenInv'
  OBVIOUS
<1> USE DEF ForgottenInv, Forgotten
<1>1. RackInv'
  BY RackInvKept
<1>2. CASE Crash
  <2>1. crashes' = crashes + 1
    BY <1>2 DEF Crash
  <2>2. ASSUME ~wiped' PROVE Cardinality(Away') <= crashes'
    <3>1. Cardinality(Away) <= crashes /\ Away' \subseteq Away \cup {nextFetchPos}
      BY <1>2, <2>2, CrashForgetsOne DEF Away
    <3>2. /\ IsFiniteSet(Away \cup {nextFetchPos}) /\ Cardinality(Away) \in Nat
          /\ Cardinality(Away \cup {nextFetchPos}) <= Cardinality(Away) + 1
          /\ Cardinality(Away \cup {nextFetchPos}) \in Nat
      BY OneMore
    <3>3. Cardinality(Away') <= Cardinality(Away \cup {nextFetchPos}) /\ Cardinality(Away') \in Nat
      BY <3>1, <3>2, FS_Subset, FS_CardinalityType
    <3> QED BY <2>1, <3>1, <3>2, <3>3
  <2> QED BY <1>1, <2>1, <2>2 DEF Away
<1>3. CASE [Rack \/ RobotStep \/ Acknowledge]_rackVars
  <2>1. crashes' = crashes /\ (wiped => wiped')
    <3>1. CASE Rack
      <4>1. crashes' = crashes
        BY <3>1 DEF Rack
      <4>2. wiped' = (wiped \/ ("reset" \in hbwFlag /\ "reset" \notin hbwFlag' /\ wp # EmptyShelf))
        BY <3>1 DEF Rack
      <4>3. wiped => wiped'
        BY <4>2, Zenon
      <4> QED BY <4>1, <4>3
    <3>2. CASE UNCHANGED <<crashes, wiped>>
      BY <3>2
    <3> QED BY <1>3, <3>1, <3>2 DEF RobotStep, Acknowledge, rackVars
  <2>2. ASSUME ~wiped' PROVE Cardinality(Away') <= crashes'
    <3>1. Cardinality(Away) <= crashes /\ Away' \subseteq Away
      BY <1>3, <2>1, <2>2, NoMoreAway DEF Away
    <3>2. Cardinality(Away') <= Cardinality(Away) /\ Cardinality(Away') \in Nat /\ Cardinality(Away) \in Nat
      BY <3>1, UnrecordedFinite, FS_Subset, FS_CardinalityType
    <3> QED BY <2>1, <3>1, <3>2
  <2> QED BY <1>1, <2>1, <2>2 DEF Away
<1> QED BY <1>2, <1>3 DEF RackNext

LEMMA ForgottenStarts == RackInit => ForgottenInv
<1> SUFFICES ASSUME RackInit PROVE ForgottenInv
  OBVIOUS
<1>1. Unrecorded = {}
  <2>1. \A p \in Parts : Raw(p) # Null
    BY NoUidAssumption DEF Raw, Wp, Null
  <2> QED BY <2>1, RackConstants DEF RackInit, Unrecorded
<1>2. Cardinality(Unrecorded \ Busy) = 0
  BY <1>1, FS_EmptySet
<1> QED BY <1>2, RackStarts DEF RackInit, ForgottenInv, Forgotten

\* However often the controllers end and are started again: a restart forgets
\* at most the one workpiece the rack was busy with, unless it cut the writing
\* of the file short or the records were reset (saveStorageState,
\* loadStorageState and the order in which fsmStep calls them).
THEOREM RestartForgetsOne == RackSpec => []ForgetsOne
<1>1. RackSpec => []ForgottenInv
  BY ForgottenStarts, ForgottenKept, PTL DEF RackSpec
<1>2. ForgottenInv => ForgetsOne
  <2> SUFFICES ASSUME ForgottenInv, ~wiped
               PROVE  Cardinality(Unrecorded) <= crashes + InHand
    BY DEF ForgetsOne
  <2>1. Cardinality(Away) <= crashes /\ crashes \in Nat
    BY DEF ForgottenInv, Forgotten, Away
  <2>2. CASE Busy = {}
    BY <2>1, <2>2 DEF Away, Busy, InHand
  <2>3. CASE Busy = {nextFetchPos} /\ InHand = 1
    <3>1. Unrecorded \subseteq Away \cup {nextFetchPos}
      BY <2>3 DEF Away
    <3>2. /\ IsFiniteSet(Away \cup {nextFetchPos}) /\ Cardinality(Away) \in Nat
          /\ Cardinality(Away \cup {nextFetchPos}) <= Cardinality(Away) + 1
          /\ Cardinality(Away \cup {nextFetchPos}) \in Nat
      BY OneMore
    <3>3. /\ Cardinality(Unrecorded) <= Cardinality(Away \cup {nextFetchPos})
          /\ Cardinality(Unrecorded) \in Nat
      BY <3>1, <3>2, FS_Subset, FS_CardinalityType
    <3> QED BY <2>1, <2>3, <3>2, <3>3
  <2> QED BY <2>2, <2>3 DEF Busy, InHand
<1> QED BY <1>1, <1>2, PTL
=============================================================================
