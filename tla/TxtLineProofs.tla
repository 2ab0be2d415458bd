---------------------------- MODULE TxtLineProofs ----------------------------
(***************************************************************************)
(* The composed TXT factory as long as nothing has failed: no reading, no  *)
(* tag and no transport.  One more inductive invariant follows an order    *)
(* from the queue through oven, line and bay to the output; from it, the   *)
(* right workpiece is shipped, its history is whole, a sorted request has  *)
(* its workpiece in the bay, and the dashboard shows the life of an order. *)
(***************************************************************************)
EXTENDS TxtProofs

-----------------------------------------------------------------------------
(* The inductive invariant of an order on its way, as long as nothing has  *)
(* failed.                                                                 *)

\* What nobody then sends, raises or enters.
ByTopic(t) == {m \in Letters : m.topic = t}
Unfailing ==
  /\ vgr \notin {"NFC_REJECTED", "WRONG_COLOR", "RECYCLE_TRASH"}
  /\ mpo \notin {"ENTER_FAULT", "FAULT"} /\ sld \notin {"ENTER_FAULT", "FAULT"}
  /\ raised \cap {"mpoFault", "sldFault"} = {}

\* The letters on their way along the line: one request to the oven and one
\* answer at a time, and no notice or report twice.
Before(s, A, B) == \A i, j \in DOMAIN s : s[i] \in A /\ s[j] \in B => i < j
Saying(t, f) == {m \in ByTopic(t) : m.flow = f}
Naming(p) == {m \in ByTopic("mpo/ack") : m.flow.wp.uid = p}
Produce == Of(mail["MPO"], ByTopic("vgr/do"))
Started == Of(mail["VGR"], ByTopic("mpo/ack"))
Noticed == Of(mail["SLD"], ByTopic("mpo/ack"))
Sorted == Of(mail["VGR"], ByTopic("sld/ack"))
BadNews == Of(mail["VGR"], ByTopic("mpo/fault") \cup ByTopic("sld/fault"))
LineMail ==
  /\ BadNews = {}
  /\ Once(mail["MPO"], ByTopic("vgr/do")) /\ Once(mail["VGR"], ByTopic("mpo/ack"))
  /\ \A f \in Flows : Once(mail["SLD"], Saying("mpo/ack", f)) /\ Once(mail["VGR"], Saying("sld/ack", f))

\* Where the robot has its workpiece from.
Ordered == {"MOVE_VGR2MPO", "RELEASE_MPO", "MOVE_PICKUP_WAIT"}
InHands ==
  /\ vgr = "DSI_PICKUP_DELIVERY" => Held("dsi") # {}
  /\ vgr \in {"START_DELIVERY", "HBW2PICKUP"} => Held("gripper") # {}
  /\ vgr \in Ordered => Held("gripper") = {flow.order.wp.uid}

\* What is said of a workpiece is so.
Honest(w) == w.uid \in Parts /\ w.type = ColourOf[w.uid] /\ w.state = tag[w.uid].state
TagsTrue == \A p \in Parts : tag[p].type \in {"NONE", ColourOf[p]}
RecordsHonest ==
  /\ \A s \in Slots : wp[s] # Null => Honest(wp[s])
  /\ vgr = "NFC_RAW" => flow.store.wp.type = ColourOf[flow.store.wp.uid]
  /\ vgr = "STORE_WP_VGR" => Honest(flow.store.wp)
  /\ vgr = "STORE_WP" =>
       /\ \A m \in Sent : Honest(m.flow.wp)
       /\ hbwQ # <<>> => Honest(Head(hbwQ).flow.wp)
       /\ hbw \in Begun \/ Brought => Honest(hbwReq.wp)
  /\ Stores # {} \/ ("store" \in hbwFlag /\ hbw = "STORE_WP") => Honest(hbwReq.wp)

\* What comes out of the rack for an order is of its colour, and raw.
Wanted(w) == Honest(w) /\ w.type = flow.order.wp.type /\ w.state = "RAW"
FetchedAsWanted ==
  /\ \A m \in Fetched : m.flow.wp = hbwReq.wp
  /\ "hbwFetched" \in raised => flow.hbw = hbwReq.wp
  /\ vgr = "VGR_WAIT_FETCHED" =>
       /\ \A m \in Sent : m.flow = Flow(flow.order)
       /\ hbwQ # <<>> => Head(hbwQ).flow = Flow(flow.order)
       /\ hbw = "FETCH_WP" => hbwReq = Flow(flow.order)
       /\ hbw \in {"BRING_WP", "SAVE_FETCHED"} \/ Brought => Wanted(hbwReq.wp)

\* The orders that wait, and the one that the rack is asked for.
Fetching == {"FETCH_WP_VGR_ORDER", "VGR_WAIT_FETCHED"}
Fresh(o) == o.uid \in DOMAIN asked /\ o.wp = Wp(NoUid, asked[o.uid], "RAW")
Orders ==
  /\ Len(asked) <= MaxRequests
  /\ \A i \in DOMAIN wait.orders : Fresh(wait.orders[i])
  /\ \A i, j \in DOMAIN wait.orders : wait.orders[i].uid = wait.orders[j].uid => i = j
  /\ vgr \in Fetching => Fresh(flow.order) /\ \A i \in DOMAIN wait.orders : wait.orders[i].uid # flow.order.uid
  /\ "reqOrder" \in raised /\ wait.orders = <<>> => vgr = "FETCH_WP_VGR_ORDER"

\* A request that names a workpiece of the colour ordered.
Right(f) == /\ f.uid \in DOMAIN asked /\ f.wp.uid \in Parts
            /\ f.wp.type = ColourOf[f.wp.uid] /\ asked[f.uid] = f.wp.type
Served == {"MOVE_VGR2MPO", "RELEASE_MPO", "START_PRODUCE", "NFC_PRODUCED", "MOVE_PICKUP_WAIT"}
OrderRight ==
  /\ vgr \in Served => Right(Flow(flow.order))
  /\ vgr = "MOVE_PICKUP" => flow.order.uid \in DOMAIN asked

\* Robot and oven: one request, until it is answered.
Making == {"RELEASE_MPO", "START_PRODUCE"}
Burnt == Started # {} \/ "mpoStarted" \in raised
OvenTalk ==
  /\ Len(mpoQ) <= 1
  /\ vgr \notin Making => Produce = {} /\ mpoQ = <<>> /\ mpo # "WAIT_OVEN" /\ ~Burnt
  /\ Produce # {} => mpoQ = <<>> /\ mpo # "WAIT_OVEN" /\ ~Burnt
  /\ mpoQ # <<>> => mpo # "WAIT_OVEN" /\ ~Burnt
  /\ mpo = "WAIT_OVEN" => ~Burnt
  /\ Started # {} => "mpoStarted" \notin raised
  /\ \A m \in Produce : m.flow = Flow(flow.order)
  /\ mpoQ # <<>> => Head(mpoQ) = Flow(flow.order)
  /\ mpo = "WAIT_OVEN" => mpoReq = Flow(flow.order)
  /\ Burnt => vgr = "START_PRODUCE"
InOven ==
  /\ mpo = "BURN" => Held("oven") = {mpoReq.wp.uid} /\ (vgr = "START_PRODUCE" => Burnt)
  /\ mpo # "BURN" /\ vgr = "START_PRODUCE" /\ ~Burnt => Held("oven") = {flow.order.wp.uid}
  /\ mpo # "BURN" /\ (vgr # "START_PRODUCE" \/ Burnt) => Held("oven") = {}
  /\ mpo \in {"EJECT", "TRANSPORT"} => Held("mpo") = {mpoReq.wp.uid}
  /\ mpo \notin {"EJECT", "TRANSPORT"} => Held("mpo") = {}

\* The requests in the line, from the oven to the robot that will come for the
\* workpiece: each is one order and one workpiece, and is in one place.
Notices == {m.flow : m \in Noticed}
Queued == Of(sldQ, Flows)
Announced == {m.flow : m \in Sorted}
AsOrder(f) == {o \in OrderRec : Flow(o) = f}
Sortable == {f \in Flows : Of(wait.sorted, AsOrder(f)) # {}}
Sorting == {"COLOR_DETECTION", "CHECK_COUNT"}
Burning == IF mpo \in {"BURN", "EJECT"} THEN {mpoReq} ELSE {}
AtSorter == IF sld \in Sorting THEN {sldReq} ELSE {}
Ejected == IF sld = "SORTED" THEN {sldReq} ELSE {}
Line == Burning \cup Queued \cup Notices \cup AtSorter \cup Ejected \cup Announced \cup Sortable
LineRight ==
  /\ \A x \in Line : Right(x)
  /\ \A x, y \in Line : x.uid = y.uid \/ x.wp.uid = y.wp.uid => x = y
NoDouble ==
  /\ \A f \in Flows : Once(sldQ, {f}) /\ Once(wait.sorted, AsOrder(f))
  /\ Queued \cap Notices = {} /\ Announced \cap Sortable = {} /\ Ejected \cap (Announced \cup Sortable) = {}

\* Oven and sorting line: the notices are those of the workpiece at the sensor
\* and of the one about to go there, in this order.
Coming == IF mpo = "TRANSPORT" THEN {mpoReq.wp.uid} ELSE {}
InTurn ==
  /\ One(Held("sensor"))
  /\ \A x \in Queued \cup Notices : x.wp.uid \in Held("sensor") \cup Coming
  /\ \A p \in Held("sensor") \cup Coming : \E x \in Queued \cup Notices : x.wp.uid = p
  /\ Held("sensor") # {} /\ sldQ # <<>> => Head(sldQ).wp.uid \in Held("sensor")
  /\ \A p \in Held("sensor"), q \in Coming :
       /\ Before(mail["SLD"], Naming(p), Naming(q))
       /\ (\E x \in Queued : x.wp.uid = q) => \A x \in Notices : x.wp.uid # p

\* Sorting line and robot: a request that is sorted names a workpiece in the
\* bay of its colour.
InSorter ==
  /\ sld \in Sorting => Held("sorter") = {sldReq.wp.uid}
  /\ sld \notin Sorting => Held("sorter") = {}
  /\ sld = "CHECK_COUNT" => seen = sldReq.wp.type
InBays ==
  /\ \A x \in Ejected \cup Announced \cup Sortable : at[x.wp.uid] = Bay(x.wp.type)
  /\ vgr = "NFC_PRODUCED" =>
       at[flow.order.wp.uid] = Bay(flow.order.wp.type) /\ \A x \in Line : x.wp.uid # flow.order.wp.uid

\* The dashboard shows every order where it is.
StageOf ==
  [s \in {"MOVE_VGR2MPO", "RELEASE_MPO", "START_PRODUCE", "NFC_PRODUCED", "MOVE_PICKUP_WAIT", "MOVE_PICKUP"} |->
     CASE s = "MOVE_VGR2MPO" -> "FETCHED_FROM_STORAGE" [] s = "NFC_PRODUCED" -> "ORDER_PROCESSED"
       [] s = "MOVE_PICKUP_WAIT" -> "WAITING_FOR_QA" [] s = "MOVE_PICKUP" -> "TRANSPORT_WP_TO_DSO"
       [] OTHER -> "TRANSPORT_TO_PROCESS_STATION"]
Shown ==
  /\ \A o \in 1 .. MaxRequests : o \notin DOMAIN asked => board[o] = "WAITING_FOR_ORDER"
  /\ \A i \in DOMAIN wait.orders : board[wait.orders[i].uid] \in {"WAITING_FOR_ORDER", "ORDER_ACKNOWLEDGED"}
  /\ vgr \in Fetching => board[flow.order.uid] \in {"ORDER_ACKNOWLEDGED", "FETCHING_FROM_STORAGE"}
  /\ vgr \in DOMAIN StageOf => board[flow.order.uid] = StageOf[vgr]
  /\ \A x \in Line : board[x.uid] = "IN_PROCESS" \/ (Burnt /\ x.uid = flow.order.uid)

\* The stages that the history of a workpiece has at each place.
Delivered == {"DELIVERY_RAW", "INSPECTION", "WAREHOUSING"}
Sawn == Delivered \cup {"OUTSOURCING", "PROCESSING_OVEN"}
Stamps(s) ==
  CASE s = "COLOR_DETECTION" -> {"DELIVERY_RAW"}
    [] s = "NFC_RAW" -> {"DELIVERY_RAW", "INSPECTION"}
    [] s = "MOVE_VGR2MPO" -> Delivered \cup {"OUTSOURCING"}
    [] s = "RELEASE_MPO" -> Sawn
    [] s = "MOVE_PICKUP_WAIT" -> Sawn \cup {"SORTING", "SHIPPING"}
    [] OTHER -> {}
RawStamps(s) ==
  CASE s \in {"START_DELIVERY", "HBW2PICKUP"} -> Delivered
    [] s \in {"STORE_WP_VGR", "STORE_WP"} -> {"DELIVERY_RAW", "INSPECTION"}
    [] OTHER -> {}
Furnace == {"oven", "mpo", "sensor", "sorter"} \cup Bays
HistoryTrue ==
  /\ \A p \in Parts :
       /\ "PROCESSING_MILLING" \notin hist[p]
       /\ at[p] \in {"outside", "dsi"} => tag[p].state # "RAW"
       /\ at[p] \in {"rack", "dso"} /\ tag[p].state = "RAW" => Delivered \subseteq hist[p]
       /\ at[p] \in Furnace => Sawn \subseteq hist[p]
       /\ at[p] = "gripper" =>
            Stamps(vgr) \subseteq hist[p] /\ (tag[p].state = "RAW" => RawStamps(vgr) \subseteq hist[p])
  /\ vgr = "MOVE_PICKUP_WAIT" => \A p \in Held("gripper") : tag[p] = [type |-> ColourOf[p], state |-> "PROCESSED"]
LineInv ==
  /\ Unfailing /\ LineMail /\ InHands /\ TagsTrue /\ RecordsHonest /\ FetchedAsWanted /\ Orders /\ OrderRight
  /\ OvenTalk /\ InOven /\ LineRight /\ NoDouble /\ InTurn /\ InSorter /\ InBays /\ Shown /\ HistoryTrue

-----------------------------------------------------------------------------
(* More of queues, and the letters along the line.                         *)

\* The members of a queue are its head and those of its rest.
LEMMA OfRest ==
  ASSUME NEW T, NEW s \in Seq(T), s # <<>>, NEW S
  PROVE  Of(s, S) = Of(Tail(s), S) \cup ({Head(s)} \cap S)
<1>1. /\ Len(s) \in Nat /\ DOMAIN s = 1 .. Len(s) /\ Tail(s) \in Seq(T) /\ Len(Tail(s)) = Len(s) - 1
      /\ Len(s) > 0 /\ Head(s) = s[1] /\ 1 \in 1 .. Len(s)
  OBVIOUS
<1>2. DOMAIN Tail(s) = 1 .. Len(s) - 1 /\ \A i \in 1 .. Len(s) - 1 : Tail(s)[i] = s[i + 1] /\ i + 1 \in 1 .. Len(s)
  BY <1>1
<1>3. ASSUME NEW i \in 1 .. Len(s), i # 1 PROVE i - 1 \in 1 .. Len(s) - 1 /\ Tail(s)[i - 1] = s[i]
  <2>1. i - 1 \in 1 .. Len(s) - 1 /\ (i - 1) + 1 = i
    BY <1>1, <1>3
  <2> QED BY <1>2, <2>1
<1>4. Of(Tail(s), S) \subseteq Of(s, S)
  BY <1>1, <1>2 DEF Of
<1>5. ASSUME NEW i \in 1 .. Len(s), s[i] \in S PROVE s[i] \in Of(Tail(s), S) \cup ({Head(s)} \cap S)
  BY <1>1, <1>2, <1>3, <1>5 DEF Of
<1>6. {Head(s)} \cap S \subseteq Of(s, S)
  BY <1>1 DEF Of
<1>7. Of(s, S) \subseteq Of(Tail(s), S) \cup ({Head(s)} \cap S)
  BY <1>1, <1>5 DEF Of
<1> QED BY <1>4, <1>6, <1>7

\* A message at the end comes before none that is in the queue.
LEMMA BeforeAppend ==
  ASSUME NEW T, NEW s \in Seq(T), NEW m \in T, NEW A, NEW B, Before(s, A, B),
         m \in A => m \notin B /\ Of(s, B) = {}
  PROVE  Before(Append(s, m), A, B)
<1>1. DOMAIN Append(s, m) = 1 .. Len(s) + 1 /\ DOMAIN s = 1 .. Len(s) /\ Len(s) \in Nat
  OBVIOUS
<1>2. Append(s, m)[Len(s) + 1] = m /\ \A i \in 1 .. Len(s) : Append(s, m)[i] = s[i]
  OBVIOUS
<1>3. 1 .. Len(s) + 1 = (1 .. Len(s)) \cup {Len(s) + 1} /\ \A i \in 1 .. Len(s) : i < Len(s) + 1
  BY <1>1
<1>4. m \in A => \A i \in 1 .. Len(s) : s[i] \notin B
  BY <1>1 DEF Of
<1> QED BY <1>1, <1>2, <1>3, <1>4 DEF Before

\* Taking the first out leaves the others in order, and one of the later
\* kind comes first only when none of the earlier is left.
LEMMA BeforeTail ==
  ASSUME NEW T, NEW s \in Seq(T), s # <<>>, NEW A, NEW B, Before(s, A, B)
  PROVE  Before(Tail(s), A, B) /\ (Head(s) \in B => Of(s, A) = {})
<1>1. /\ Len(s) \in Nat /\ DOMAIN s = 1 .. Len(s) /\ Tail(s) \in Seq(T) /\ Len(Tail(s)) = Len(s) - 1
      /\ Len(s) > 0 /\ Head(s) = s[1] /\ 1 \in 1 .. Len(s)
  OBVIOUS
<1>2. DOMAIN Tail(s) = 1 .. Len(s) - 1 /\ \A i \in 1 .. Len(s) - 1 : Tail(s)[i] = s[i + 1] /\ i + 1 \in 1 .. Len(s)
  BY <1>1
<1>3. Before(Tail(s), A, B)
  <2>1. ASSUME NEW i \in 1 .. Len(s) - 1, NEW j \in 1 .. Len(s) - 1, s[i + 1] \in A, s[j + 1] \in B PROVE i < j
    <3>1. i + 1 < j + 1
      BY <1>1, <1>2, <2>1 DEF Before
    <3> QED BY <3>1
  <2> QED BY <1>2, <2>1 DEF Before
<1>4. ASSUME Head(s) \in B PROVE Of(s, A) = {}
  <2>1. ASSUME NEW i \in 1 .. Len(s), s[i] \in A PROVE FALSE
    <3>1. i < 1
      BY <1>1, <1>4, <2>1 DEF Before
    <3> QED BY <3>1
  <2> QED BY <1>1, <2>1 DEF Of
<1> QED BY <1>3, <1>4

\* Whom the letters along the line concern.
LEMMA Concerns ==
  ASSUME NEW m \in Letters
  PROVE  /\ m.topic = "vgr/do" => (Heeds("MPO", m) <=> m.code = "PRODUCE")
         /\ m.topic = "mpo/ack" => (Heeds("VGR", m) <=> m.code = "STARTED") /\ (Heeds("SLD", m) <=> m.code = "PRODUCED")
         /\ m.topic = "sld/ack" => (Heeds("VGR", m) <=> m.code = "SORTED")
BY DEF Heeds, Topics

\* A publication reaches the queues of those who heed it.
LEMMA Delivering ==
  ASSUME MailOK, NEW m \in Letters, Publish(m), NEW c \in Clients, NEW S
  PROVE  /\ Of(mail'[c], S) = Of(mail[c], S) \cup (IF Heeds(c, m) THEN {m} \cap S ELSE {})
         /\ Once(mail[c], S) /\ (Heeds(c, m) /\ m \in S => Of(mail[c], S) = {}) => Once(mail'[c], S)
<1>1. mail[c] \in Seq(Letters)
  BY DEF MailOK
<1>2. mail'[c] = IF Heeds(c, m) THEN Append(mail[c], m) ELSE mail[c]
  BY DEF Publish, Post
<1>3. CASE Heeds(c, m)
  <2>1. /\ Of(Append(mail[c], m), S) = Of(mail[c], S) \cup ({m} \cap S)
        /\ Once(mail[c], S) /\ (m \in S => Of(mail[c], S) = {}) => Once(Append(mail[c], m), S)
    BY <1>1, OfAppend
  <2> QED BY <1>2, <1>3, <2>1
<1>4. CASE ~Heeds(c, m)
  BY <1>2, <1>4
<1> QED BY <1>3, <1>4

LineMailSame ==
  /\ LineMail' /\ Produce' = Produce /\ Started' = Started /\ Noticed' = Noticed /\ Sorted' = Sorted
  /\ \A p, q \in Parts : Before(mail["SLD"], Naming(p), Naming(q)) => Before(mail'["SLD"], Naming(p), Naming(q))

\* Letters that have nothing to do with the line.
LEMMA QuietPost ==
  ASSUME MailOK, LineMail, NEW m \in Letters, Publish(m),
         m.topic \notin {"mpo/ack", "sld/ack", "mpo/fault", "sld/fault"}, m.topic = "vgr/do" => m.code # "PRODUCE"
  PROVE  LineMailSame
<1>1. /\ Produce' = Of(mail'["MPO"], ByTopic("vgr/do")) /\ Started' = Of(mail'["VGR"], ByTopic("mpo/ack"))
      /\ Noticed' = Of(mail'["SLD"], ByTopic("mpo/ack")) /\ Sorted' = Of(mail'["VGR"], ByTopic("sld/ack"))
      /\ BadNews' = Of(mail'["VGR"], ByTopic("mpo/fault") \cup ByTopic("sld/fault"))
      /\ Produce = Of(mail["MPO"], ByTopic("vgr/do")) /\ Started = Of(mail["VGR"], ByTopic("mpo/ack"))
      /\ Noticed = Of(mail["SLD"], ByTopic("mpo/ack")) /\ Sorted = Of(mail["VGR"], ByTopic("sld/ack"))
      /\ BadNews = Of(mail["VGR"], ByTopic("mpo/fault") \cup ByTopic("sld/fault"))
  BY DEF Produce, Started, Noticed, Sorted, BadNews
<1>2. /\ m \notin ByTopic("mpo/ack") /\ m \notin ByTopic("sld/ack")
      /\ m \notin ByTopic("mpo/fault") \cup ByTopic("sld/fault") /\ (Heeds("MPO", m) => m \notin ByTopic("vgr/do"))
      /\ \A f : m \notin Saying("mpo/ack", f) /\ m \notin Saying("sld/ack", f)
      /\ \A p : m \notin Naming(p)
  BY Concerns DEF ByTopic, Saying, Naming
<1>3. ASSUME NEW c \in Clients, NEW S, Heeds(c, m) => m \notin S
      PROVE  Of(mail'[c], S) = Of(mail[c], S) /\ (Once(mail[c], S) => Once(mail'[c], S))
  <2>1. /\ Of(mail'[c], S) = Of(mail[c], S) \cup (IF Heeds(c, m) THEN {m} \cap S ELSE {})
        /\ Once(mail[c], S) /\ (Heeds(c, m) /\ m \in S => Of(mail[c], S) = {}) => Once(mail'[c], S)
    BY Delivering
  <2>2. (IF Heeds(c, m) THEN {m} \cap S ELSE {}) = {}
    BY <1>3
  <2> QED BY <1>3, <2>1, <2>2
<1>4. "VGR" \in Clients /\ "MPO" \in Clients /\ "SLD" \in Clients
  BY DEF Clients
<1>5. /\ Produce' = Produce /\ Started' = Started /\ Noticed' = Noticed /\ Sorted' = Sorted /\ BadNews' = BadNews
  BY <1>1, <1>2, <1>3, <1>4
<1>6. /\ Once(mail'["MPO"], ByTopic("vgr/do")) /\ Once(mail'["VGR"], ByTopic("mpo/ack"))
      /\ \A f \in Flows : Once(mail'["SLD"], Saying("mpo/ack", f)) /\ Once(mail'["VGR"], Saying("sld/ack", f))
  BY <1>2, <1>3, <1>4 DEF LineMail
<1>7. LineMail'
  BY <1>5, <1>6 DEF LineMail
<1>8. ASSUME NEW p \in Parts, NEW q \in Parts, Before(mail["SLD"], Naming(p), Naming(q))
      PROVE  Before(mail'["SLD"], Naming(p), Naming(q))
  <2>1. mail["SLD"] \in Seq(Letters) /\ mail'["SLD"] = IF Heeds("SLD", m) THEN Append(mail["SLD"], m) ELSE mail["SLD"]
    BY <1>4 DEF MailOK, Publish, Post
  <2>2. Before(Append(mail["SLD"], m), Naming(p), Naming(q))
    BY <1>2, <1>8, <2>1, BeforeAppend
  <2> QED BY <1>8, <2>1, <2>2
<1> QED BY <1>5, <1>7, <1>8 DEF LineMailSame

\* Who says something along the line, and who hears it.
LEMMA LineSets ==
  /\ Produce = Of(mail["MPO"], ByTopic("vgr/do")) /\ Started = Of(mail["VGR"], ByTopic("mpo/ack"))
  /\ Noticed = Of(mail["SLD"], ByTopic("mpo/ack")) /\ Sorted = Of(mail["VGR"], ByTopic("sld/ack"))
  /\ BadNews = Of(mail["VGR"], ByTopic("mpo/fault") \cup ByTopic("sld/fault"))
  /\ Produce' = Of(mail'["MPO"], ByTopic("vgr/do")) /\ Started' = Of(mail'["VGR"], ByTopic("mpo/ack"))
  /\ Noticed' = Of(mail'["SLD"], ByTopic("mpo/ack")) /\ Sorted' = Of(mail'["VGR"], ByTopic("sld/ack"))
  /\ BadNews' = Of(mail'["VGR"], ByTopic("mpo/fault") \cup ByTopic("sld/fault"))
BY DEF Produce, Started, Noticed, Sorted, BadNews

\* The letters about one request, in the queues of line and robot.
LEMMA Hearsay ==
  ASSUME NEW f
  PROVE  /\ Of(mail["SLD"], Saying("mpo/ack", f)) = {m \in Noticed : m.flow = f}
         /\ Of(mail["VGR"], Saying("sld/ack", f)) = {m \in Sorted : m.flow = f}
         /\ Of(mail'["SLD"], Saying("mpo/ack", f)) = {m \in Noticed' : m.flow = f}
         /\ Of(mail'["VGR"], Saying("sld/ack", f)) = {m \in Sorted' : m.flow = f}
         /\ Of(mail["SLD"], Naming(f)) = {m \in Noticed : m.flow.wp.uid = f}
BY LineSets DEF Of, Saying, Naming, ByTopic

\* What the publication of a request to the oven, of its answer, of a notice
\* to the line or of a report of the line does to the letters on their way.
LEMMA LoudPost ==
  ASSUME MailOK, LineMail, NEW m \in Letters, Publish(m), m.topic \in {"vgr/do", "mpo/ack", "sld/ack"},
         m.code = CASE m.topic = "vgr/do" -> "PRODUCE" [] m.topic = "sld/ack" -> "SORTED" [] OTHER -> m.code,
         m.topic = "mpo/ack" => m.code \in {"STARTED", "PRODUCED"},
         m.topic = "vgr/do" => Produce = {}, m.code = "STARTED" => Started = {},
         m.code = "PRODUCED" => m.flow \notin Notices, m.topic = "sld/ack" => m.flow \notin Announced
  PROVE  /\ LineMail'
         /\ Produce' = IF m.topic = "vgr/do" THEN {m} ELSE Produce
         /\ Started' = IF m.topic = "mpo/ack" /\ m.code = "STARTED" THEN {m} ELSE Started
         /\ Noticed' = IF m.topic = "mpo/ack" /\ m.code = "PRODUCED" THEN Noticed \cup {m} ELSE Noticed
         /\ Sorted' = IF m.topic = "sld/ack" THEN Sorted \cup {m} ELSE Sorted
         /\ \A p, q \in Parts :
              /\ Before(mail["SLD"], Naming(p), Naming(q))
              /\ m.code = "PRODUCED" /\ m.flow.wp.uid = p => p # q /\ \A x \in Notices : x.wp.uid # q
              => Before(mail'["SLD"], Naming(p), Naming(q))
<1> DEFINE toMpo == m.topic = "vgr/do"
           toVgr == m.topic = "mpo/ack" /\ m.code = "STARTED"
           toSld == m.topic = "mpo/ack" /\ m.code = "PRODUCED"
           done == m.topic = "sld/ack"
<1>1. /\ m \in ByTopic("vgr/do") <=> toMpo
      /\ (Heeds("VGR", m) /\ m \in ByTopic("mpo/ack")) <=> toVgr
      /\ (Heeds("SLD", m) /\ m \in ByTopic("mpo/ack")) <=> toSld
      /\ m \in ByTopic("sld/ack") <=> done
      /\ m \notin ByTopic("mpo/fault") \cup ByTopic("sld/fault")
      /\ (toMpo => Heeds("MPO", m)) /\ (done => Heeds("VGR", m))
  BY Concerns DEF ByTopic
<1>2. "VGR" \in Clients /\ "MPO" \in Clients /\ "SLD" \in Clients
  BY DEF Clients
<1>3. ASSUME NEW c \in Clients, NEW S
      PROVE  /\ Heeds(c, m) /\ m \in S => Of(mail'[c], S) = Of(mail[c], S) \cup {m}
             /\ ~(Heeds(c, m) /\ m \in S) => Of(mail'[c], S) = Of(mail[c], S)
             /\ Once(mail[c], S) /\ (Heeds(c, m) /\ m \in S => Of(mail[c], S) = {}) => Once(mail'[c], S)
  <2>1. /\ Of(mail'[c], S) = Of(mail[c], S) \cup (IF Heeds(c, m) THEN {m} \cap S ELSE {})
        /\ Once(mail[c], S) /\ (Heeds(c, m) /\ m \in S => Of(mail[c], S) = {}) => Once(mail'[c], S)
    BY Delivering
  <2>2. (IF Heeds(c, m) THEN {m} \cap S ELSE {}) = IF Heeds(c, m) /\ m \in S THEN {m} ELSE {}
    OBVIOUS
  <2> QED BY <2>1, <2>2
<1> HIDE DEF toMpo, toVgr, toSld, done
<1>4. /\ Produce' = IF toMpo THEN Produce \cup {m} ELSE Produce
      /\ Started' = IF toVgr THEN Started \cup {m} ELSE Started
      /\ Noticed' = IF toSld THEN Noticed \cup {m} ELSE Noticed
      /\ Sorted' = IF done THEN Sorted \cup {m} ELSE Sorted
      /\ BadNews' = BadNews
  BY <1>1, <1>2, <1>3, LineSets
<1>5. (toMpo => Produce = {}) /\ (toVgr => Started = {})
  BY DEF toMpo, toVgr
<1>6. ASSUME NEW f \in Flows PROVE Once(mail'["SLD"], Saying("mpo/ack", f))
  <2>1. Heeds("SLD", m) /\ m \in Saying("mpo/ack", f) => toSld /\ m.flow = f
    BY <1>1 DEF Saying
  <2>2. toSld /\ m.flow = f => Of(mail["SLD"], Saying("mpo/ack", f)) = {}
    BY Hearsay DEF toSld, Notices
  <2> QED BY <1>2, <1>3, <2>1, <2>2 DEF LineMail
<1>7. ASSUME NEW f \in Flows PROVE Once(mail'["VGR"], Saying("sld/ack", f))
  <2>1. m \in Saying("sld/ack", f) => done /\ m.flow = f
    BY <1>1 DEF Saying
  <2>2. done /\ m.flow = f => Of(mail["VGR"], Saying("sld/ack", f)) = {}
    BY Hearsay DEF done, Announced
  <2> QED BY <1>2, <1>3, <2>1, <2>2 DEF LineMail
<1>8. Once(mail'["MPO"], ByTopic("vgr/do")) /\ Once(mail'["VGR"], ByTopic("mpo/ack"))
  <2>1. /\ Heeds("MPO", m) /\ m \in ByTopic("vgr/do") => Of(mail["MPO"], ByTopic("vgr/do")) = {}
        /\ Heeds("VGR", m) /\ m \in ByTopic("mpo/ack") => Of(mail["VGR"], ByTopic("mpo/ack")) = {}
    BY <1>1, <1>5, LineSets
  <2> QED BY <1>2, <1>3, <2>1 DEF LineMail
<1>9. LineMail'
  BY <1>4, <1>6, <1>7, <1>8 DEF LineMail
<1>10. ASSUME NEW p \in Parts, NEW q \in Parts, Before(mail["SLD"], Naming(p), Naming(q)),
              m.code = "PRODUCED" /\ m.flow.wp.uid = p => p # q /\ \A x \in Notices : x.wp.uid # q
       PROVE  Before(mail'["SLD"], Naming(p), Naming(q))
  <2>1. mail["SLD"] \in Seq(Letters) /\ mail'["SLD"] = IF Heeds("SLD", m) THEN Append(mail["SLD"], m) ELSE mail["SLD"]
    BY <1>2 DEF MailOK, Publish, Post
  <2>2. CASE Heeds("SLD", m)
    <3>1. m \in Naming(p) => toSld /\ m.flow.wp.uid = p
      BY <1>1, <2>2 DEF Naming
    <3>2. m \in Naming(p) => m \notin Naming(q) /\ Of(mail["SLD"], Naming(q)) = {}
      <4>1. m \in Naming(p) => p # q /\ m.flow.wp.uid = p /\ \A x \in Notices : x.wp.uid # q
        BY <1>10, <3>1 DEF toSld
      <4>2. Of(mail["SLD"], Naming(q)) = {n \in Noticed : n.flow.wp.uid = q}
        BY Hearsay
      <4>3. \A n \in Noticed : n.flow \in Notices
        BY DEF Notices
      <4>4. m \in Naming(q) => m.flow.wp.uid = q
        BY DEF Naming
      <4> QED BY <4>1, <4>2, <4>3, <4>4
    <3>3. Before(Append(mail["SLD"], m), Naming(p), Naming(q))
      BY <1>10, <2>1, <3>2, BeforeAppend
    <3> QED BY <2>1, <2>2, <3>3
  <2>3. CASE ~Heeds("SLD", m)
    BY <1>10, <2>1, <2>3
  <2> QED BY <2>2, <2>3
<1> QED BY <1>4, <1>5, <1>9, <1>10 DEF toMpo, toVgr, toSld, done

\* What a reception does to the letters on their way.
LEMMA Hearing ==
  ASSUME MailOK, LineMail, NEW c \in Clients, NEW m \in Arrived(c), Received(c)
  PROVE  /\ LineMail' /\ m \in Letters
         /\ IF c = "MPO" /\ m.topic = "vgr/do" THEN Produce = {m} /\ Produce' = {} ELSE Produce' = Produce
         /\ IF c = "VGR" /\ m.topic = "mpo/ack" THEN Started = {m} /\ Started' = {} ELSE Started' = Started
         /\ IF c = "VGR" /\ m.topic = "sld/ack" THEN Sorted = Sorted' \cup {m} /\ m.flow \notin Announced'
            ELSE Sorted' = Sorted
         /\ IF c = "SLD" /\ m.topic = "mpo/ack" THEN Noticed = Noticed' \cup {m} /\ m.flow \notin Notices'
            ELSE Noticed' = Noticed
         /\ c = "VGR" => m.topic \notin {"mpo/fault", "sld/fault"}
         /\ \A p, q \in Parts :
              Before(mail["SLD"], Naming(p), Naming(q)) =>
                /\ Before(mail'["SLD"], Naming(p), Naming(q))
                /\ c = "SLD" /\ m.topic = "mpo/ack" /\ m.flow.wp.uid = q => \A x \in Notices : x.wp.uid # p
<1>1. "VGR" \in Clients /\ "MPO" \in Clients /\ "SLD" \in Clients
  BY DEF Clients
<1>2. /\ mail[c] \in Seq(Letters) /\ mail[c] # <<>> /\ m = Head(mail[c]) /\ mail'[c] = Tail(mail[c]) /\ m \in Letters
      /\ \A d \in Clients : d # c => mail'[d] = mail[d]
  BY ReceiveOK DEF MailOK, Arrived, Received
<1>3. ASSUME NEW d \in Clients, NEW S
      PROVE  /\ Once(mail[d], S) => Once(mail'[d], S)
             /\ d = c /\ m \in S => Of(mail[d], S) = Of(mail'[d], S) \cup {m}
             /\ d = c /\ m \in S /\ Once(mail[d], S) => Of(mail[d], S) = {m} /\ Of(mail'[d], S) = {}
             /\ d # c \/ m \notin S => Of(mail'[d], S) = Of(mail[d], S)
  <2>1. CASE d # c
    BY <1>2, <2>1
  <2>2. CASE d = c
    <3>1. Of(mail[c], S) = Of(Tail(mail[c]), S) \cup ({Head(mail[c])} \cap S)
      BY <1>2, OfRest
    <3>2. Once(mail[c], S) => /\ Once(Tail(mail[c]), S)
                              /\ Head(mail[c]) \in S => Of(mail[c], S) = {Head(mail[c])} /\ Of(Tail(mail[c]), S) = {}
      BY <1>2, OfTail
    <3> QED BY <1>2, <2>2, <3>1, <3>2
  <2> QED BY <2>1, <2>2
<1>4. \A t : m \in ByTopic(t) <=> m.topic = t
  BY <1>2 DEF ByTopic
<1>5. /\ IF c = "MPO" /\ m.topic = "vgr/do" THEN Produce = {m} /\ Produce' = {} ELSE Produce' = Produce
      /\ IF c = "VGR" /\ m.topic = "mpo/ack" THEN Started = {m} /\ Started' = {} ELSE Started' = Started
      /\ Once(mail'["MPO"], ByTopic("vgr/do")) /\ Once(mail'["VGR"], ByTopic("mpo/ack"))
  BY <1>1, <1>3, <1>4, LineSets DEF LineMail
<1>6. /\ IF c = "VGR" /\ m.topic = "sld/ack" THEN Sorted = Sorted' \cup {m} ELSE Sorted' = Sorted
      /\ IF c = "SLD" /\ m.topic = "mpo/ack" THEN Noticed = Noticed' \cup {m} ELSE Noticed' = Noticed
  BY <1>1, <1>3, <1>4, LineSets
<1>7. BadNews' = {} /\ (c = "VGR" => m.topic \notin {"mpo/fault", "sld/fault"})
  <2>1. BadNews = {}
    BY DEF LineMail
  <2>2. c = "VGR" => m \notin ByTopic("mpo/fault") \cup ByTopic("sld/fault")
    <3>1. c = "VGR" /\ m \in ByTopic("mpo/fault") \cup ByTopic("sld/fault") => m \in BadNews
      BY <1>1, <1>3, LineSets
    <3> QED BY <2>1, <3>1
  <2>3. BadNews' = BadNews
    BY <1>1, <1>3, <2>2, LineSets
  <2> QED BY <1>4, <2>1, <2>2, <2>3
<1>8. /\ \A f \in Flows : Once(mail'["SLD"], Saying("mpo/ack", f)) /\ Once(mail'["VGR"], Saying("sld/ack", f))
  BY <1>1, <1>3 DEF LineMail
<1>9. LineMail'
  BY <1>5, <1>7, <1>8 DEF LineMail
<1>10. m.flow \in Flows
  BY <1>2 DEF Letters
<1>11. c = "VGR" /\ m.topic = "sld/ack" => m.flow \notin Announced'
  <2>1. m.topic = "sld/ack" => m \in Saying("sld/ack", m.flow)
    BY <1>4 DEF Saying
  <2>2. c = "VGR" /\ m.topic = "sld/ack" => Of(mail'["VGR"], Saying("sld/ack", m.flow)) = {}
    BY <1>1, <1>3, <1>10, <2>1 DEF LineMail
  <2> QED BY <2>2, Hearsay DEF Announced
<1>12. c = "SLD" /\ m.topic = "mpo/ack" => m.flow \notin Notices'
  <2>1. m.topic = "mpo/ack" => m \in Saying("mpo/ack", m.flow)
    BY <1>4 DEF Saying
  <2>2. c = "SLD" /\ m.topic = "mpo/ack" => Of(mail'["SLD"], Saying("mpo/ack", m.flow)) = {}
    BY <1>1, <1>3, <1>10, <2>1 DEF LineMail
  <2> QED BY <2>2, Hearsay DEF Notices
<1>13. ASSUME NEW p \in Parts, NEW q \in Parts, Before(mail["SLD"], Naming(p), Naming(q))
       PROVE  /\ Before(mail'["SLD"], Naming(p), Naming(q))
              /\ c = "SLD" /\ m.topic = "mpo/ack" /\ m.flow.wp.uid = q => \A x \in Notices : x.wp.uid # p
  <2>1. CASE c # "SLD"
    BY <1>1, <1>2, <1>13, <2>1
  <2>2. CASE c = "SLD"
    <3>1. Before(Tail(mail[c]), Naming(p), Naming(q)) /\ (Head(mail[c]) \in Naming(q) => Of(mail[c], Naming(p)) = {})
      BY <1>2, <1>13, <2>2, BeforeTail
    <3>2. m.topic = "mpo/ack" /\ m.flow.wp.uid = q => m \in Naming(q)
      BY <1>4 DEF Naming
    <3> QED BY <1>2, <2>2, <3>1, <3>2, Hearsay DEF Notices
  <2> QED BY <2>1, <2>2
<1> QED BY <1>2, <1>5, <1>6, <1>7, <1>9, <1>11, <1>12, <1>13

-----------------------------------------------------------------------------
(* What the line does not notice.                                          *)

\* States of the robot that concern the oven and the bays.
Near == Making \cup {"NFC_PRODUCED"}
AskedGrows == \A u \in DOMAIN asked : u \in DOMAIN asked' /\ asked'[u] = asked[u]
FurnaceSame == \A place \in Furnace : Held(place)' = Held(place)
OvenAndLine == OvenTalk /\ InOven /\ LineRight /\ NoDouble /\ InTurn /\ InSorter /\ InBays

\* Orders are asked for, never taken back.
LEMMA RightKept == ASSUME AskedGrows, NEW f, Right(f) PROVE Right(f)'
BY DEF AskedGrows, Right

\* The bays count with the oven and the line.
LEMMA BayInFurnace == \A c : Bay(c) \in Furnace
BY DEF Bay, Bays, Furnace

\* Letters to and from the line stay where they are; that the oven has started
\* may come to be heard.
LineLetters ==
  /\ LineMail' /\ Produce' = Produce /\ Noticed' = Noticed /\ Sorted' = Sorted
  /\ \A p, q \in Parts : Before(mail["SLD"], Naming(p), Naming(q)) => Before(mail'["SLD"], Naming(p), Naming(q))
StartKnown == (Burnt' <=> Burnt) /\ (Started' # {} => "mpoStarted" \notin raised')

\* The talk of the oven is the same when no letter comes or goes.
LEMMA SameLetters ==
  ASSUME OvenTalk, LineMailSame, "mpoStarted" \in raised' <=> "mpoStarted" \in raised
  PROVE  LineLetters /\ StartKnown
BY DEF OvenTalk, LineMailSame, LineLetters, StartKnown, Burnt

\* A step that touches neither stations, letters nor the workpieces at oven
\* and line leaves what is said of them.
LEMMA LineStill ==
  ASSUME OvenAndLine, OrderRight, LineLetters, StartKnown, UNCHANGED stationVars, wait'.sorted = wait.sorted,
         AskedGrows, FurnaceSame, vgr' = vgr \/ (vgr \notin Near /\ vgr' \notin Near),
         vgr \in Near => Flow(flow'.order) = Flow(flow.order)
  PROVE  OvenAndLine' /\ Line' = Line /\ (Burnt' <=> Burnt)
<1> USE DEF OvenAndLine, LineLetters
<1>1. UNCHANGED <<mpo, mpoQ, mpoReq, sld, sldQ, sldReq, seen>>
  BY DEF stationVars
<1>2. /\ Queued' = Queued /\ Notices' = Notices /\ Announced' = Announced /\ Sortable' = Sortable
      /\ Burning' = Burning /\ AtSorter' = AtSorter /\ Ejected' = Ejected /\ Coming' = Coming
  BY <1>1 DEF Queued, Notices, Announced, Sortable, Burning, AtSorter, Ejected, Coming
<1>3. Line' = Line
  BY <1>2 DEF Line
<1>4. Burnt' <=> Burnt
  BY DEF StartKnown
<1>5. vgr' \in Near <=> vgr \in Near
  OBVIOUS
<1>6. OvenTalk'
  <2>1. CASE vgr \in Making
    <3>1. vgr' = vgr /\ Flow(flow'.order) = Flow(flow.order)
      BY <2>1 DEF Near
    <3> QED BY <1>1, <1>4, <3>1 DEF OvenTalk, StartKnown
  <2>2. CASE vgr \notin Making
    <3>1. vgr' \notin Making
      BY <2>2, <1>5 DEF Near
    <3> QED BY <1>1, <1>4, <2>2, <3>1 DEF OvenTalk, StartKnown
  <2> QED BY <2>1, <2>2
<1>7. InOven'
  <2>1. Held("oven")' = Held("oven") /\ Held("mpo")' = Held("mpo")
    BY DEF FurnaceSame, Furnace
  <2>2. (vgr' = "START_PRODUCE") <=> (vgr = "START_PRODUCE")
    BY DEF Near, Making
  <2>3. vgr = "START_PRODUCE" => flow'.order.wp.uid = flow.order.wp.uid
    BY DEF Near, Making, Flow, Workflow
  <2> QED BY <1>1, <1>4, <2>1, <2>2, <2>3 DEF InOven
<1>8. LineRight'
  BY <1>3, RightKept DEF LineRight
<1>9. NoDouble'
  BY <1>1, <1>2 DEF NoDouble
<1>10. Held("sensor")' = Held("sensor") /\ Held("sorter")' = Held("sorter")
  BY DEF FurnaceSame, Furnace
<1>11. InTurn'
  <2>1. \A p \in Held("sensor"), q \in Coming : p \in Parts /\ q \in Parts
    BY DEF LineRight, InOven, Coming, Held
  <2> QED BY <1>1, <1>2, <1>10, <2>1 DEF InTurn
<1>12. InSorter'
  BY <1>1, <1>10 DEF InSorter
<1>13. InBays'
  <2>1. ASSUME NEW p \in Parts, NEW c, at[p] = Bay(c) PROVE at'[p] = Bay(c)
    <3>1. p \in Held(Bay(c)) /\ Held(Bay(c))' = Held(Bay(c))
      BY <2>1, BayInFurnace DEF Held, FurnaceSame
    <3> QED BY <3>1 DEF Held
  <2>2. \A x \in Line : x.wp.uid \in Parts
    BY DEF LineRight, Right
  <2>3. \A x \in Ejected \cup Announced \cup Sortable : at'[x.wp.uid] = Bay(x.wp.type)
    BY <2>1, <2>2 DEF InBays, Line
  <2>4. ASSUME vgr' = "NFC_PRODUCED"
        PROVE  at'[flow'.order.wp.uid] = Bay(flow'.order.wp.type) /\ \A x \in Line : x.wp.uid # flow'.order.wp.uid
    <3>1. vgr = "NFC_PRODUCED" /\ flow'.order.wp = flow.order.wp
      BY <2>4 DEF Near, Flow, Workflow
    <3>2. flow.order.wp.uid \in Parts
      BY <3>1 DEF OrderRight, Served, Right, Flow, Workflow
    <3> QED BY <2>1, <3>1, <3>2 DEF InBays
  <2> QED BY <1>2, <1>3, <2>3, <2>4 DEF InBays
<1> QED BY <1>3, <1>4, <1>6, <1>7, <1>8, <1>9, <1>11, <1>12, <1>13

-----------------------------------------------------------------------------
(* What the rack does does not concern the line.                           *)

Words == RecordsHonest /\ FetchedAsWanted

\* Nothing is said.
LEMMA QuietMail == ASSUME LineMail, UNCHANGED mail PROVE LineMailSame
BY DEF LineMailSame, LineMail, BadNews, Produce, Started, Noticed, Sorted

\* No letter of the line is for the rack.
LEMMA RackHears ==
  ASSUME MailOK, LineMail, NEW m \in Arrived("HBW"), Received("HBW")
  PROVE  LineMailSame
<1>1. "HBW" \in Clients
  BY DEF Clients
<1> QED BY <1>1, Hearing DEF LineMailSame

\* A step of the rack that makes no promise.
LEMMA WordsStill ==
  ASSUME Words, UNCHANGED <<vgr, flow, raised, tag, hbwQ, hbwReq>>, Sent' = Sent, Fetched' = Fetched,
         \A s \in Slots : wp'[s] = wp[s] \/ wp'[s] = Null \/ Honest(wp'[s]),
         hbw' \in Begun => hbw \in Begun, hbw' = "FETCH_WP" => hbw = "FETCH_WP",
         hbw' \in {"BRING_WP", "SAVE_FETCHED"} => hbw \in {"BRING_WP", "SAVE_FETCHED"},
         Stores' # {} \/ ("store" \in hbwFlag' /\ hbw' = "STORE_WP")
           => Stores # {} \/ ("store" \in hbwFlag /\ hbw = "STORE_WP")
  PROVE  Words'
<1> USE DEF Words
<1>1. Brought' <=> Brought
  BY DEF Brought
<1>2. \A w : Honest(w)' <=> Honest(w)
  BY DEF Honest
<1>3. RecordsHonest'
  BY <1>1, <1>2 DEF RecordsHonest
<1>4. FetchedAsWanted'
  BY <1>1, <1>2 DEF FetchedAsWanted, Wanted
<1> QED BY <1>3, <1>4

\* The messages of the rack.
LEMMA RackPosts ==
  ASSUME HandoverInv, NEW m \in Letters, Publish(m), m.topic \in {"hbw/ack", "hbw/fault"}
  PROVE  /\ Sent' = Sent /\ Stores' = Stores
         /\ m.topic = "hbw/fault" => Fetched' = Fetched
         /\ m.topic = "hbw/ack" => Fetched' = Fetched \cup {m}
         /\ LineMail => LineMailSame
<1> USE DEF HandoverInv
<1>1. MailOK /\ EachOnce
  BY DEF Types, Talk, OneRequest
<1>2. m \in Answering /\ m \notin Requesting /\ m \notin Storing
  BY Heeding DEF Answering, Requesting, Storing, RackCodes
<1>3. /\ Sent' = Sent \cup ({m} \cap Requesting) /\ Stores' = Stores \cup ({m} \cap Storing)
      /\ Replies' = Replies \cup ({m} \cap Answering)
  BY <1>1, Posting
<1>4. Replies' = Replies \cup {m} /\ Sent' = Sent /\ Stores' = Stores
  BY <1>2, <1>3
<1>5. LineMail => LineMailSame
  BY <1>1, QuietPost
<1> QED BY <1>4, <1>5 DEF Fetched

\* What the rack publishes.
LEMMA RackSays ==
  ASSUME HandoverInv, HbwStep
  PROVE  \/ UNCHANGED mail
         \/ Publish(HbwAck("FETCHED", hbwReq.wp)) /\ (HbwBringContainer \/ HbwFetched)
         \/ \E code \in FaultCodes : Publish(HbwFaultMsg(code, hbwReq.wp))
BY DEF HbwStep, HbwInit, HbwFault, HbwIdle, HbwFetchContainer, HbwBringContainer, HbwStoreWp, HbwReturnWp,
       HbwReturns, HbwStored, HbwFetchWp, HbwBringWp, HbwFetched, HbwFetchWpWait, HbwStoreContainer,
       HbwReturnContainer, HbwReturned, HbwFails, HbwQuiet, HbwTells, FaultCodes

\* Of the letters that matter here the rack only sends FETCHED.
LEMMA RackMail ==
  ASSUME HandoverInv, LineMail, HbwStep
  PROVE  /\ LineMailSame /\ Sent' = Sent /\ Stores' = Stores
         /\ Fetched' = Fetched \/ (Fetched' = Fetched \cup {HbwAck("FETCHED", hbwReq.wp)} /\ (HbwBringContainer \/ HbwFetched))
<1> USE DEF HandoverInv
<1>1. CASE UNCHANGED mail
  BY <1>1, QuietMail DEF Sent, Stores, Fetched, Replies
<1>2. CASE Publish(HbwAck("FETCHED", hbwReq.wp)) /\ (HbwBringContainer \/ HbwFetched)
  <2>1. HbwAck("FETCHED", hbwReq.wp) \in Letters /\ HbwAck("FETCHED", hbwReq.wp).topic = "hbw/ack"
    BY Sendings DEF Types, RackOK, Flows, HbwAck, Msg
  <2> QED BY <1>2, <2>1, RackPosts
<1>3. CASE \E code \in FaultCodes : Publish(HbwFaultMsg(code, hbwReq.wp))
  <2>1. PICK code \in FaultCodes : Publish(HbwFaultMsg(code, hbwReq.wp))
    BY <1>3
  <2>2. HbwFaultMsg(code, hbwReq.wp) \in Letters /\ HbwFaultMsg(code, hbwReq.wp).topic = "hbw/fault"
    BY Sendings DEF Types, RackOK, Flows, HbwFaultMsg, Msg
  <2> QED BY <2>1, <2>2, RackPosts
<1> QED BY <1>1, <1>2, <1>3, RackSays

\* What the rack records, fetches and promises is as wanted.
LEMMA RackWords ==
  ASSUME HandoverInv, LineMail, Words, Orders, HbwStep, UNCHANGED <<vgr, flow, raised, tag>>
  PROVE  Words'
<1> USE DEF HandoverInv
<1>m. /\ Sent' = Sent /\ Stores' = Stores
      /\ Fetched' = Fetched \/ (Fetched' = Fetched \cup {HbwAck("FETCHED", hbwReq.wp)} /\ (HbwBringContainer \/ HbwFetched))
  BY RackMail
<1>p. wp \in [Slots -> Workpiece] /\ nextFetchPos \in Slots \cup {NoSlot}
  BY DEF Types, StorageTypeOK, Shelf
<1>t. /\ hbw \in Begun => Sent = {} /\ hbwQ = <<>> /\ Fetched = {} /\ "hbwFetched" \notin raised /\ ~Brought
      /\ hbw # "STORE_WP" => Stores = {}
      /\ hbw \notin {"STORE_WP", "RETURN_WP", "SAVE_STORED"} => "store" \notin hbwFlag
  BY RackTalk
<1>1. CASE Asides \/ HbwFetchContainer \/ HbwStoreWp \/ HbwBringWp \/ HbwFetchWpWait
  <2>1. UNCHANGED <<hbwQ, hbwReq>> /\ hbwFlag' \subseteq hbwFlag
    BY <1>1 DEF Asides, HbwInit, HbwFault, HbwFetchContainer, HbwStoreWp, HbwReturnWp, HbwReturns, HbwStored,
       HbwBringWp, HbwFetchWpWait, HbwStoreContainer, HbwReturnContainer, HbwReturned, HbwKeeps
  <2>2. /\ hbw' \in Begun => hbw \in Begun
        /\ hbw' # "FETCH_WP" /\ (hbw' \in {"BRING_WP", "SAVE_FETCHED"} => hbw \in {"BRING_WP", "SAVE_FETCHED"})
        /\ hbw' # "STORE_WP" /\ ~(HbwBringContainer \/ HbwFetched)
    BY <1>1 DEF Asides, HbwInit, HbwFault, HbwFetchContainer, HbwStoreWp, HbwReturnWp, HbwReturns, HbwStored,
       HbwBringWp, HbwFetchWpWait, HbwStoreContainer, HbwReturnContainer, HbwReturned, HbwGoto, HbwFails, Begun,
       HbwBringContainer, HbwFetched
  <2>3. Fetched' = Fetched
    BY <1>m, <2>2
  <2>4. \A s \in Slots : wp'[s] = wp[s] \/ wp'[s] = Null \/ Honest(wp'[s])
    <3>1. CASE HbwStoreWp
      <4>1. hbw = "STORE_WP" /\ "store" \in hbwFlag /\ (wp' = wp \/ wp' = [wp EXCEPT ![nextFetchPos] = hbwReq.wp])
        BY <3>1 DEF HbwStoreWp, store, storage
      <4>2. Honest(hbwReq.wp)
        BY <4>1 DEF Words, RecordsHonest
      <4> QED BY <1>p, <4>1, <4>2
    <3>2. CASE Asides \/ HbwFetchContainer \/ HbwBringWp \/ HbwFetchWpWait
      <4>1. wp' = wp \/ \E s \in Slots : wp' = [wp EXCEPT ![s] = Null]
        <5>1. CASE HbwFetchContainer
          <6>1. fetchContainer
            BY <5>1 DEF HbwFetchContainer
          <6>2. Free # {} => First(Free) \in Slots
            BY FirstIsOne DEF Free
          <6> QED BY <6>1, <6>2 DEF fetchContainer, TakeFrom, NothingFetched
        <5>2. CASE HbwStoreContainer
          BY <5>2 DEF HbwStoreContainer, storeContainer, isValidPos, storage
        <5>3. CASE HbwInit \/ HbwFault \/ HbwReturnWp \/ HbwStored \/ HbwReturnContainer \/ HbwReturned \/ HbwBringWp \/ HbwFetchWpWait
          BY <5>3 DEF HbwInit, HbwFault, HbwReturnWp, HbwReturns, HbwStored, HbwBringWp, HbwFetchWpWait,
             HbwReturnContainer, HbwReturned, saveBegin, saveEnd, storage
        <5> QED BY <3>2, <5>1, <5>2, <5>3 DEF Asides
      <4> QED BY <1>p, <4>1
    <3> QED BY <1>1, <3>1, <3>2
  <2> QED BY <1>m, <2>1, <2>2, <2>3, <2>4, WordsStill
<1>2. CASE HbwIdle
  <2>1. "reset" \notin hbwFlag /\ hbw = "IDLE"
    BY <1>2 DEF Talk, OneClose, HbwIdle
  <2>2. /\ hbwQ # <<>> /\ hbw' = Head(hbwQ).type /\ hbwReq' = Head(hbwQ).flow /\ hbwQ' = Tail(hbwQ)
        /\ UNCHANGED <<wp, hbwFlag>>
    BY <1>2, <2>1 DEF HbwIdle, Begin, HbwGoto, storage
  <2>3. hbwQ' = <<>> /\ Sent = {} /\ Replies = {} /\ Heard = {} /\ hbw' \in {"FETCH_CONTAINER", "FETCH_WP"}
    <3>1. Len(hbwQ) <= 1 /\ Sent = {} /\ Replies = {} /\ Heard = {}
      BY <2>2 DEF Talk, OneRequest
    <3>2. hbwQ \in Seq(Jobs)
      BY DEF Types, RackOK
    <3>3. Tail(hbwQ) = <<>> /\ Head(hbwQ) \in Jobs
      BY <2>2, <3>1, <3>2
    <3> QED BY <2>2, <3>1, <3>3 DEF Jobs
  <2>4. Fetched = {} /\ "hbwFetched" \notin raised /\ Stores = {} /\ "store" \notin hbwFlag
    BY <1>t, <2>1, <2>3 DEF Fetched, Heard
  <2>5. Fetched' = {} /\ Sent' = {} /\ Stores' = {} /\ ~Brought'
    BY <1>m, <1>2, <2>1, <2>3, <2>4 DEF Brought, HbwBringContainer, HbwFetched
  <2>6. \A w : Honest(w)' <=> Honest(w)
    BY DEF Honest
  <2>7. RecordsHonest'
    BY <2>2, <2>3, <2>4, <2>5, <2>6 DEF Words, RecordsHonest
  <2>8. FetchedAsWanted'
    BY <2>2, <2>3, <2>4, <2>5, <2>6 DEF Words, FetchedAsWanted
  <2> QED BY <2>7, <2>8 DEF Words
<1>3. CASE HbwBringContainer \/ HbwFetched
  <2> DEFINE m == HbwAck("FETCHED", hbwReq.wp)
  <2>1. /\ hbw \in {"BRING_CONTAINER", "SAVE_FETCHED"} /\ UNCHANGED <<hbwQ, hbwReq, hbwFlag, wp>>
        /\ \/ hbw = "BRING_CONTAINER" /\ hbw' = "STORE_WP"
           \/ hbw = "SAVE_FETCHED" /\ hbw' = "FETCH_WP_WAIT"
    BY <1>3 DEF HbwBringContainer, HbwFetched, HbwKeeps, HbwGoto, saveEnd, storage
  <2>2. hbw \in Begun /\ m.flow.wp = hbwReq.wp
    BY <2>1 DEF Begun, HbwAck, Workflow, Msg
  <2> HIDE DEF m
  <2>3. Sent' = {} /\ hbwQ' = <<>> /\ Fetched' \subseteq {m} /\ "hbwFetched" \notin raised' /\ Stores' = {} /\ "store" \notin hbwFlag'
    BY <1>m, <1>t, <2>1, <2>2 DEF m
  <2>4. \A w : Honest(w)' <=> Honest(w)
    BY DEF Honest
  <2>5. vgr = "STORE_WP" => Honest(hbwReq.wp)
    BY <2>2 DEF Words, RecordsHonest
  <2>6. vgr = "VGR_WAIT_FETCHED" => Wanted(hbwReq.wp)
    <3>1. vgr = "VGR_WAIT_FETCHED" => hbw # "BRING_CONTAINER"
      BY <2>2 DEF Talk, FetchFits, Waiting
    <3> QED BY <2>1, <3>1 DEF Words, FetchedAsWanted
  <2>7. RecordsHonest'
    BY <2>1, <2>3, <2>4, <2>5 DEF Words, RecordsHonest, Begun
  <2>8. FetchedAsWanted'
    BY <2>1, <2>2, <2>3, <2>4, <2>6 DEF Words, FetchedAsWanted, Wanted
  <2> QED BY <2>7, <2>8 DEF Words
<1>4. CASE HbwFetchWp
  <2> DEFINE s == FetchSlot(hbwReq.wp)
  <2>1. hbw = "FETCH_WP" /\ UNCHANGED <<hbwQ, hbwFlag>>
    BY <1>4 DEF HbwFetchWp, HbwKeeps
  <2>2. Fetched' = Fetched
    BY <1>m, <2>1 DEF HbwBringContainer, HbwFetched
  <2>3. CASE ~isValidPos(s)
    <3>1. UNCHANGED <<wp, hbwReq>> /\ hbw' = "FAULT"
      BY <1>4, <2>3 DEF HbwFetchWp, fetch, NothingFetched, HbwFails, HbwGoto
    <3> QED BY <1>m, <2>1, <2>2, <3>1, WordsStill DEF Begun
  <2>4. CASE isValidPos(s)
    <3>1. s \in Slots /\ TakeFrom(s) /\ hbw' = "BRING_WP" /\ hbwReq' = [hbwReq EXCEPT !.wp = wp[s]]
      BY <1>4, <2>4 DEF HbwFetchWp, fetch, isValidPos, HbwGoto
    <3>2. hbwReq'.wp = wp[s] /\ \A t \in Slots : wp'[t] = wp[t] \/ wp'[t] = Null
      BY <1>p, <3>1 DEF TakeFrom, Types, RackOK, Flows
    <3>3. /\ wp[s] # Null
          /\ hbwReq.wp.uid = NoUid => wp[s].type = hbwReq.wp.type /\ wp[s].state = "RAW"
      <4> DEFINE w == hbwReq.wp
      <4>1. ByUid(w) \in SUBSET Slots /\ \A t \in ByUid(w) : wp[t] # Null
        BY DEF ByUid
      <4>2. /\ ByType(w) \in SUBSET Slots
            /\ \A t \in ByType(w) : wp[t] # Null /\ Listed(t) /\ wp[t].type = w.type /\ wp[t].state = "RAW"
        BY DEF ByType, Shelves, RackExact
      <4>3. NoSlot \notin Slots
        BY DEF NoSlot, Slots
      <4> HIDE DEF w
      <4>4. ByUid(w) # {} => First(ByUid(w)) \in ByUid(w)
        BY <4>1, FirstIsOne
      <4>5. ByType(w) # {} => OldestOf(ByType(w)) \in ByType(w)
        BY <4>2, OldestIsOne DEF Types, StorageTypeOK
      <4>6. /\ FetchSlot(w) \in Slots => FetchSlot(w) \in ByUid(w) \cup ByType(w)
            /\ FetchSlot(w) \in Slots /\ w.uid = NoUid => FetchSlot(w) \in ByType(w)
        BY <4>3, <4>4, <4>5 DEF FetchSlot
      <4> QED BY <3>1, <4>1, <4>2, <4>6 DEF w
    <3> HIDE DEF s
    <3>4. Honest(wp[s])
      BY <3>1, <3>3 DEF Words, RecordsHonest
    <3>5. vgr = "VGR_WAIT_FETCHED" => Wanted(wp[s]) \/ hbwReq.wp.uid # NoUid
      BY <2>1, <3>3, <3>4 DEF Words, FetchedAsWanted, Wanted, Flow, Workflow
    <3>6. Sent' = {} /\ hbwQ' = <<>> /\ Fetched' = {} /\ "hbwFetched" \notin raised' /\ ~Brought' /\ Stores' = {} /\ "store" \notin hbwFlag'
      BY <1>m, <1>t, <2>1, <2>2 DEF Begun, Brought
    <3>7. \A v : Honest(v)' <=> Honest(v)
      BY DEF Honest
    <3>8. RecordsHonest'
      BY <3>2, <3>4, <3>6, <3>7 DEF Words, RecordsHonest
    <3>9. (vgr = "VGR_WAIT_FETCHED" => hbwReq.wp.uid = NoUid) => FetchedAsWanted'
      BY <3>1, <3>2, <3>5, <3>6, <3>7 DEF Words, FetchedAsWanted, Wanted
    <3>10. vgr = "VGR_WAIT_FETCHED" => hbwReq.wp.uid = NoUid
      BY <2>1 DEF Words, FetchedAsWanted, Orders, Fetching, Fresh, Flow, Workflow, Wp
    <3> QED BY <3>8, <3>9, <3>10 DEF Words
  <2> QED BY <2>3, <2>4
<1> QED BY <1>1, <1>2, <1>3, <1>4 DEF HbwStep, Asides

\* The same when it receives a request.
LEMMA HbwReceiveWords ==
  ASSUME HandoverInv, Words, HbwReceive, UNCHANGED <<vgr, flow, raised>>
  PROVE  Words'
<1> USE DEF HandoverInv
<1>1. PICK m \in Arrived("HBW") :
        /\ Received("HBW")
        /\ \/ m.topic = "ack" /\ UNCHANGED <<hbwQ, hbwFlag>>
           \/ m.code = "FETCHCONTAINER" /\ requestVGRfetchContainer(m.flow) /\ UNCHANGED hbwFlag
           \/ m.code = "FETCH_WP" /\ requestVGRfetch(m.flow) /\ UNCHANGED hbwFlag
           \/ m.code = "STORE_WP" /\ HbwRaise("store") /\ UNCHANGED hbwQ
           \/ m.code = "STORECONTAINER" /\ HbwRaise("storeContainer") /\ UNCHANGED hbwQ
           \/ m.code = "RESETSTORAGE"
        /\ UNCHANGED storage /\ UNCHANGED <<tag, hbw, hbwReq>>
  BY DEF HbwReceive
<1>2. MailOK /\ EachOnce
  BY DEF Types, Talk, OneRequest
<1>3. /\ m \in Letters /\ Replies' = Replies /\ Fetched' = Fetched
      /\ m.code \in ReqCodes => Sent = {m} /\ Sent' = {} /\ Stores' = Stores
      /\ m.code = "STORE_WP" => Sent' = Sent /\ Stores = {m} /\ Stores' = {}
      /\ m.code = "STORECONTAINER" => Sent' = Sent /\ Stores' = Stores
      /\ m.topic = "ack" => Sent' = Sent /\ Stores' = Stores
  BY <1>1, <1>2, Reading DEF Fetched
<1>4. m.code # "RESETSTORAGE"
  BY <1>3 DEF Letters, Codes, RackCodes, ReqCodes, FaultCodes, Kinds, Colours, Modes
<1>5. UNCHANGED wp
  BY <1>1 DEF storage
<1>6. CASE m.topic = "ack" /\ UNCHANGED <<hbwQ, hbwFlag>>
  BY <1>1, <1>3, <1>5, <1>6, WordsStill
<1>7. CASE m.code = "STORECONTAINER" /\ HbwRaise("storeContainer") /\ UNCHANGED hbwQ
  BY <1>1, <1>3, <1>5, <1>7, WordsStill DEF HbwRaise
<1>8. CASE m.code = "STORE_WP" /\ HbwRaise("store") /\ UNCHANGED hbwQ
  BY <1>1, <1>3, <1>5, <1>8, WordsStill
<1>9. CASE /\ m.code \in ReqCodes /\ UNCHANGED hbwFlag
           /\ \E t \in {"FETCH_CONTAINER", "FETCH_WP"} : hbwQ' = Append(hbwQ, [type |-> t, flow |-> m.flow])
  <2>1. hbwQ = <<>> /\ Fetched = {} /\ "hbwFetched" \notin raised /\ hbw \notin Begun
    BY <1>3, <1>9 DEF Talk, OneRequest, Fetched, Heard
  <2>2. hbwQ' # <<>> /\ Head(hbwQ').flow = m.flow /\ m \in Sent
    <3>1. m.flow \in Flows
      BY <1>3 DEF Letters
    <3> QED BY <1>3, <1>9, <2>1, <3>1
  <2>3. (\A w : Honest(w)' <=> Honest(w)) /\ ~Brought'
    BY <1>1, <1>3, <2>1 DEF Honest, Brought
  <2>4. RecordsHonest'
    BY <1>1, <1>3, <1>5, <1>9, <2>1, <2>2, <2>3 DEF Words, RecordsHonest
  <2>5. FetchedAsWanted'
    BY <1>1, <1>3, <1>9, <2>1, <2>2, <2>3 DEF Words, FetchedAsWanted, Begun
  <2> QED BY <2>4, <2>5 DEF Words
<1> QED BY <1>1, <1>4, <1>6, <1>7, <1>8, <1>9 DEF ReqCodes, requestVGRfetchContainer, requestVGRfetch

\* Whoever only listens, or brings and takes workpieces at the shelves.
LEMMA Bystander ==
  ASSUME HandoverInv, LineInv, LineMailSame, UNCHANGED <<vgrVars, stationVars, tag>>, Words',
         FurnaceSame, Held("gripper")' = Held("gripper"), Held("dsi") \subseteq Held("dsi")',
         \A p \in Parts : at'[p] = at[p] \/ (at[p] = "outside" /\ at'[p] = "dsi") \/ at'[p] = "gone"
  PROVE  LineInv'
<1> USE DEF LineInv
<1>1. UNCHANGED <<vgr, flow, wait, raised, mode, hist, board, asked, faults>> /\ UNCHANGED stationVars
  BY DEF vgrVars
<1>2. UNCHANGED <<mpo, mpoQ, mpoReq, sld, sldQ, sldReq, seen>>
  BY <1>1 DEF stationVars
<1>3. AskedGrows
  BY <1>1 DEF AskedGrows
<1>4. OvenAndLine' /\ Line' = Line /\ (Burnt' <=> Burnt)
  <2>1. OvenAndLine /\ OrderRight /\ LineLetters /\ StartKnown
    BY <1>1, SameLetters DEF OvenAndLine
  <2> QED BY <1>1, <1>3, <2>1, LineStill
<1>5. Unfailing' /\ InHands' /\ TagsTrue'
  BY <1>1, <1>2 DEF Unfailing, InHands, TagsTrue
<1>6. Orders' /\ OrderRight'
  BY <1>1 DEF Orders, Fresh, OrderRight, Right
<1>7. Shown'
  BY <1>1, <1>4 DEF Shown
<1>8. HistoryTrue'
  <2>1. ASSUME NEW p \in Parts
        PROVE  /\ "PROCESSING_MILLING" \notin hist[p]
               /\ at'[p] \in {"outside", "dsi"} => tag[p].state # "RAW"
               /\ at'[p] \in {"rack", "dso"} /\ tag[p].state = "RAW" => Delivered \subseteq hist[p]
               /\ at'[p] \in Furnace => Sawn \subseteq hist[p]
               /\ at'[p] = "gripper" =>
                    Stamps(vgr) \subseteq hist[p] /\ (tag[p].state = "RAW" => RawStamps(vgr) \subseteq hist[p])
    <3>1. "gone" \notin Furnace /\ "dsi" \notin Furnace
      BY DEF Furnace, Bays
    <3> QED BY <3>1 DEF HistoryTrue
  <2> QED BY <1>1, <2>1 DEF HistoryTrue
<1> QED BY <1>4, <1>5, <1>6, <1>7, <1>8 DEF OvenAndLine, Words, LineMailSame

\* The rack keeps the invariant.
LEMMA RackLine ==
  ASSUME HandoverInv, LineInv, HbwRuns
  PROVE  LineInv'
<1> USE DEF HandoverInv
<1>1. UNCHANGED vgrVars /\ UNCHANGED stationVars
  BY DEF HbwRuns
<1>2. UNCHANGED <<vgr, flow, raised>>
  BY <1>1 DEF vgrVars
<1>3. UNCHANGED <<at, tag>>
  BY DEF HbwRuns, HbwReceive, HbwStep, HbwInit, HbwFault, HbwIdle, HbwFetchContainer, HbwBringContainer, HbwStoreWp,
     HbwReturnWp, HbwReturns, HbwStored, HbwFetchWp, HbwBringWp, HbwFetched, HbwFetchWpWait, HbwStoreContainer,
     HbwReturnContainer, HbwReturned, HbwKeeps
<1>4. Words /\ LineMail /\ Orders /\ MailOK
  BY DEF LineInv, Words, Types
<1>5. LineMailSame /\ Words'
  <2>1. CASE HbwStep
    BY <1>2, <1>3, <1>4, <2>1, RackMail, RackWords
  <2>2. CASE HbwReceive
    <3>1. \E m \in Arrived("HBW") : Received("HBW")
      BY <2>2 DEF HbwReceive
    <3> QED BY <1>2, <1>4, <2>2, <3>1, RackHears, HbwReceiveWords
  <2> QED BY <2>1, <2>2 DEF HbwRuns
<1>6. FurnaceSame /\ Held("gripper")' = Held("gripper") /\ Held("dsi")' = Held("dsi")
  BY <1>3 DEF FurnaceSame, Held
<1> QED BY <1>1, <1>3, <1>5, <1>6, Bystander

-----------------------------------------------------------------------------
(* The people.                                                             *)

\* The same when nothing is said and neither robot nor rack moves.
LEMMA StillWords ==
  ASSUME HandoverInv, Words, MailSame, UNCHANGED <<vgr, flow, raised, tag, storage, hbwVars>>
  PROVE  Words'
<1>1. Fetched' = Fetched /\ Stores' = Stores /\ Sent' = Sent
  BY DEF Fetched, MailSame
<1>2. UNCHANGED <<wp, hbw, hbwQ, hbwReq, hbwFlag>>
  BY DEF storage, hbwVars
<1> QED BY <1>1, <1>2, WordsStill

\* The people keep it.
LEMMA PeopleLine ==
  ASSUME HandoverInv, LineInv, People
  PROVE  LineInv'
<1> USE DEF HandoverInv
<1>1. /\ UNCHANGED vgrVars /\ UNCHANGED stationVars /\ UNCHANGED storage /\ UNCHANGED hbwVars /\ UNCHANGED tag
      /\ \/ UNCHANGED at /\ \E m \in Letters : Publish(m) /\ m.topic \in {"ack", "order", "pickup", "store", "wm"}
         \/ UNCHANGED mail /\ is_DIN /\ \E p \in Held("outside") : at' = [at EXCEPT ![p] = "dsi"]
         \/ UNCHANGED mail /\ \E p \in Held("dso") : at' = [at EXCEPT ![p] = "gone"]
  BY PeopleParts DEF Controllers
<1>2. UNCHANGED <<vgr, flow, raised>>
  BY <1>1 DEF vgrVars
<1>3. Words /\ LineMail /\ MailOK /\ EachOnce /\ at \in [Parts -> Places]
  BY DEF LineInv, Words, Types, Talk, OneRequest, PlantOK
<1>4. LineMailSame /\ MailSame
  <2>1. CASE UNCHANGED mail
    BY <1>3, <2>1, QuietMail, Silence
  <2>2. CASE \E m \in Letters : Publish(m) /\ m.topic \in {"ack", "order", "pickup", "store", "wm"}
    <3>1. PICK m \in Letters : Publish(m) /\ m.topic \in {"ack", "order", "pickup", "store", "wm"}
      BY <2>2
    <3>2. m.code \notin RackCodes
      BY <3>1 DEF Letters
    <3> QED BY <1>3, <3>1, <3>2, QuietPost, Silence
  <2> QED BY <1>1, <2>1, <2>2
<1>5. Words'
  BY <1>1, <1>2, <1>3, <1>4, StillWords
<1>6. /\ FurnaceSame /\ Held("gripper")' = Held("gripper") /\ Held("dsi") \subseteq Held("dsi")'
      /\ \A p \in Parts : at'[p] = at[p] \/ (at[p] = "outside" /\ at'[p] = "dsi") \/ at'[p] = "gone"
  <2>1. CASE UNCHANGED at
    BY <2>1 DEF FurnaceSame, Held
  <2>2. CASE \E p \in Held("outside") : at' = [at EXCEPT ![p] = "dsi"]
    BY <1>3, <2>2 DEF FurnaceSame, Furnace, Bays, Held
  <2>3. CASE \E p \in Held("dso") : at' = [at EXCEPT ![p] = "gone"]
    BY <1>3, <2>3 DEF FurnaceSame, Furnace, Bays, Held
  <2> QED BY <1>1, <2>1, <2>2, <2>3
<1> QED BY <1>1, <1>4, <1>5, <1>6, Bystander

-----------------------------------------------------------------------------
(* The stations of the line: what none of their steps touches, and where    *)
(* the workpieces of the requests are.                                     *)

\* A reading that fails is counted.
LEMMA NoMisread == ASSUME Types, UNCHANGED faults PROVE ~Misread
<1>1. faults \in Nat
  BY TxtConstants DEF Types, RobotOK
<1> QED BY <1>1 DEF Misread

\* What no step of oven or line touches.
LEMMA StationRest ==
  ASSUME HandoverInv, LineInv, MpoRuns \/ SldRuns,
         \A p \in Parts : at'[p] = at[p] \/ (at[p] \in Furnace /\ at'[p] \in Furnace)
  PROVE  /\ Words' /\ Orders' /\ OrderRight' /\ TagsTrue' /\ InHands' /\ HistoryTrue'
         /\ UNCHANGED <<vgr, flow, wait, raised, mode, hist, board, asked>>
         /\ \A f : Right(f)' <=> Right(f)
         /\ Line' = Line /\ (Burnt' <=> Burnt) => LineRight' /\ Shown'
<1> USE DEF HandoverInv, LineInv
<1>1. RobotRests /\ UNCHANGED tag
  BY StationParts
<1>2. UNCHANGED <<vgr, flow, wait, raised, mode, hist, board, asked>> /\ UNCHANGED storage /\ UNCHANGED hbwVars
  BY <1>1 DEF RobotRests
<1>3. MailSame
  <2>1. MailOK /\ EachOnce
    BY DEF Types, Talk, OneRequest
  <2>2. \A m \in Letters : m.topic \in {"mpo/ack", "mpo/fault", "sld/ack", "sld/fault"} => m.code \notin RackCodes
    BY DEF Letters
  <2> QED BY <2>1, <2>2, StationMail, Silence
<1>4. Words'
  BY <1>1, <1>2, <1>3, StillWords DEF Words
<1>5. \A f : Right(f)' <=> Right(f)
  BY <1>2 DEF Right
<1>6. Orders' /\ OrderRight' /\ TagsTrue'
  BY <1>1, <1>2, <1>5 DEF Orders, Fresh, OrderRight, TagsTrue
<1>7. InHands'
  <2>1. "gripper" \notin Furnace /\ "dsi" \notin Furnace
    BY DEF Furnace, Bays
  <2>2. Held("gripper")' = Held("gripper") /\ Held("dsi")' = Held("dsi")
    BY <2>1 DEF Held
  <2> QED BY <1>2, <2>2 DEF InHands
<1>8. HistoryTrue'
  <2>1. {"gripper", "dsi", "outside", "rack", "dso"} \cap Furnace = {}
    BY DEF Furnace, Bays
  <2>2. ASSUME NEW p \in Parts
        PROVE  /\ "PROCESSING_MILLING" \notin hist[p]
               /\ at'[p] \in {"outside", "dsi"} => tag[p].state # "RAW"
               /\ at'[p] \in {"rack", "dso"} /\ tag[p].state = "RAW" => Delivered \subseteq hist[p]
               /\ at'[p] \in Furnace => Sawn \subseteq hist[p]
               /\ at'[p] = "gripper" =>
                    Stamps(vgr) \subseteq hist[p] /\ (tag[p].state = "RAW" => RawStamps(vgr) \subseteq hist[p])
    BY <2>1 DEF HistoryTrue
  <2>3. vgr = "MOVE_PICKUP_WAIT" => \A p \in Held("gripper")' : tag[p] = [type |-> ColourOf[p], state |-> "PROCESSED"]
    BY <2>1 DEF HistoryTrue, Held
  <2> QED BY <1>1, <1>2, <2>2, <2>3 DEF HistoryTrue
<1>9. ASSUME Line' = Line, Burnt' <=> Burnt PROVE LineRight' /\ Shown'
  BY <1>2, <1>5, <1>9 DEF LineRight, Shown
<1> QED BY <1>2, <1>4, <1>5, <1>6, <1>7, <1>8, <1>9

\* Where the workpieces of the requests in the line are.
LEMMA LinePlaces ==
  ASSUME LineRight, InOven, InTurn, InSorter, InBays
  PROVE  /\ \A x \in Line : x.wp.uid \in Parts
         /\ \A x \in Burning : at[x.wp.uid] = IF mpo = "BURN" THEN "oven" ELSE "mpo"
         /\ \A x \in Queued \cup Notices : at[x.wp.uid] = "sensor" \/ (mpo = "TRANSPORT" /\ at[x.wp.uid] = "mpo")
         /\ \A x \in AtSorter : at[x.wp.uid] = "sorter"
         /\ \A x \in Ejected \cup Announced \cup Sortable : at[x.wp.uid] \in Bays
<1>1. \A x \in Line : x.wp.uid \in Parts
  BY DEF LineRight, Right
<1>2. \A x \in Burning : at[x.wp.uid] = IF mpo = "BURN" THEN "oven" ELSE "mpo"
  BY DEF Burning, InOven, Held
<1>3. \A x \in Queued \cup Notices : at[x.wp.uid] = "sensor" \/ (mpo = "TRANSPORT" /\ at[x.wp.uid] = "mpo")
  BY DEF InTurn, InOven, Coming, Held
<1>4. \A x \in AtSorter : at[x.wp.uid] = "sorter"
  BY DEF AtSorter, InSorter, Held
<1>5. \A x \in Ejected \cup Announced \cup Sortable : at[x.wp.uid] \in Bays
  BY DEF InBays, Bay, Bays
<1> QED BY <1>1, <1>2, <1>3, <1>4, <1>5

\* The sorted stay in their bays until the robot comes.
LEMMA BaysStill ==
  ASSUME InBays, LineRight, OrderRight, UNCHANGED <<vgr, flow>>,
         vgr = "NFC_PRODUCED" => \A x \in Line' : \E y \in Line : x.wp.uid = y.wp.uid,
         Ejected' \cup Announced' \cup Sortable' \subseteq Ejected \cup Announced \cup Sortable,
         \A p \in Parts : at[p] \in Bays => at'[p] = at[p]
  PROVE  InBays'
<1>1. \A c : Bay(c) \in Bays
  BY DEF Bay, Bays
<1>2. ASSUME NEW x \in Ejected' \cup Announced' \cup Sortable' PROVE at'[x.wp.uid] = Bay(x.wp.type)
  <2>1. x \in Line
    BY <1>2 DEF Line
  <2>2. x.wp.uid \in Parts /\ at[x.wp.uid] = Bay(x.wp.type)
    BY <1>2, <2>1 DEF LineRight, Right, InBays
  <2> QED BY <1>1, <2>2
<1>3. ASSUME vgr = "NFC_PRODUCED"
      PROVE  at'[flow.order.wp.uid] = Bay(flow.order.wp.type) /\ \A x \in Line' : x.wp.uid # flow.order.wp.uid
  <2>1. flow.order.wp.uid \in Parts
    BY <1>3 DEF OrderRight, Served, Right, Flow, Workflow
  <2>2. at[flow.order.wp.uid] = Bay(flow.order.wp.type) /\ \A x \in Line : x.wp.uid # flow.order.wp.uid
    BY <1>3 DEF InBays
  <2> QED BY <1>1, <1>3, <2>1, <2>2
<1> QED BY <1>2, <1>3 DEF InBays

\* A station that starts, or hears of a pressed button.
LEMMA StationIdles ==
  ASSUME HandoverInv, LineInv, MpoRuns \/ SldRuns, LineMailSame, UNCHANGED <<mpoQ, mpoReq, sldQ, sldReq, seen, at>>,
         mpo' = mpo \/ (mpo = "INIT" /\ mpo' = "IDLE"), sld' = sld \/ (sld = "INIT" /\ sld' = "IDLE")
  PROVE  LineInv'
<1> USE DEF LineInv, LineMailSame
<1>1. /\ Words' /\ Orders' /\ OrderRight' /\ TagsTrue' /\ InHands' /\ HistoryTrue'
      /\ UNCHANGED <<vgr, flow, wait, raised, mode, hist, board, asked>>
      /\ Line' = Line /\ (Burnt' <=> Burnt) => LineRight' /\ Shown'
  BY StationRest
<1>2. /\ Queued' = Queued /\ Notices' = Notices /\ Announced' = Announced /\ Sortable' = Sortable
      /\ Burning' = Burning /\ AtSorter' = AtSorter /\ Ejected' = Ejected /\ Coming' = Coming
  BY <1>1 DEF Queued, Notices, Announced, Sortable, Burning, AtSorter, Ejected, Coming, Sorting
<1>3. Line' = Line /\ (Burnt' <=> Burnt)
  BY <1>1, <1>2 DEF Line, Burnt
<1>4. Unfailing'
  BY <1>1 DEF Unfailing
<1>5. OvenTalk'
  BY <1>1, <1>3 DEF OvenTalk
<1>6. InOven'
  BY <1>1, <1>3 DEF InOven, Held
<1>7. NoDouble'
  BY <1>1, <1>2 DEF NoDouble
<1>8. InTurn'
  <2>1. Held("sensor")' = Held("sensor")
    BY DEF Held
  <2>2. \A p \in Held("sensor"), q \in Coming : p \in Parts /\ q \in Parts
    BY DEF InOven, Coming, Held
  <2> QED BY <1>2, <2>1, <2>2 DEF InTurn
<1>9. InSorter'
  BY DEF InSorter, Held, Sorting
<1>10. InBays'
  BY <1>1, <1>2, <1>3, BaysStill
<1> QED BY <1>1, <1>3, <1>4, <1>5, <1>6, <1>7, <1>8, <1>9, <1>10 DEF Words

-----------------------------------------------------------------------------
(* The processing station.                                                 *)

SorterStill == UNCHANGED <<sld, sldQ, sldReq, seen>>

\* The only one in a queue.
LEMMA LoneOne == ASSUME NEW T, NEW s \in Seq(T), s # <<>>, Len(s) <= 1 PROVE Len(s) = 1 /\ Tail(s) = <<>>
<1>1. Len(s) \in Nat /\ Len(s) # 0
  BY EmptySeq
<1>2. Tail(s) \in Seq(T) /\ Len(Tail(s)) = Len(s) - 1
  BY <1>1
<1>3. Len(s) = 1
  BY <1>1
<1>4. Tail(s) = <<>>
  <2>1. Len(Tail(s)) = 0
    BY <1>2, <1>3
  <2>2. Tail(s) # <<>> => Len(Tail(s)) \in Nat \ {0}
    BY <1>2, EmptySeq
  <2> QED BY <2>1, <2>2
<1> QED BY <1>3, <1>4

\* The oven is asked.
LEMMA OvenAsked ==
  ASSUME HandoverInv, LineInv, MpoRuns, NEW m \in Arrived("MPO"), Received("MPO"), m.topic = "vgr/do",
         mpoQ' = Append(mpoQ, m.flow), UNCHANGED <<mpo, mpoReq, at>>, SorterStill
  PROVE  LineInv'
<1> USE DEF HandoverInv, LineInv, SorterStill
<1>1. /\ Words' /\ Orders' /\ OrderRight' /\ TagsTrue' /\ InHands' /\ HistoryTrue'
      /\ UNCHANGED <<vgr, flow, wait, raised, mode, hist, board, asked>>
      /\ Line' = Line /\ (Burnt' <=> Burnt) => LineRight' /\ Shown'
  BY StationRest
<1>2. /\ LineMail' /\ m \in Letters /\ Produce = {m} /\ Produce' = {} /\ Started' = Started
      /\ Sorted' = Sorted /\ Noticed' = Noticed
      /\ \A p, q \in Parts : Before(mail["SLD"], Naming(p), Naming(q)) => Before(mail'["SLD"], Naming(p), Naming(q))
  <2>1. "MPO" \in Clients /\ MailOK
    BY DEF Clients, Types
  <2> QED BY <2>1, Hearing
<1>3. /\ Queued' = Queued /\ Notices' = Notices /\ Announced' = Announced /\ Sortable' = Sortable
      /\ Burning' = Burning /\ AtSorter' = AtSorter /\ Ejected' = Ejected /\ Coming' = Coming
  BY <1>1, <1>2 DEF Queued, Notices, Announced, Sortable, Burning, AtSorter, Ejected, Coming, Sorting
<1>4. Line' = Line /\ (Burnt' <=> Burnt)
  BY <1>1, <1>2, <1>3 DEF Line, Burnt
<1>5. /\ mpoQ = <<>> /\ mpo # "WAIT_OVEN" /\ ~Burnt /\ vgr \in Making /\ m.flow = Flow(flow.order)
  BY <1>2 DEF OvenTalk
<1>6. m.flow \in Flows /\ mpoQ' = <<m.flow>> /\ Len(mpoQ') = 1 /\ Head(mpoQ') = m.flow
  BY <1>2, <1>5 DEF Letters
<1>7. OvenTalk'
  BY <1>1, <1>2, <1>4, <1>5, <1>6 DEF OvenTalk, Burnt
<1>8. InOven' /\ Unfailing'
  BY <1>1, <1>4 DEF InOven, Held, Unfailing
<1>9. NoDouble'
  BY <1>1, <1>3 DEF NoDouble
<1>10. InTurn'
  <2>1. Held("sensor")' = Held("sensor")
    BY DEF Held
  <2>2. \A p \in Held("sensor"), q \in Coming : p \in Parts /\ q \in Parts
    BY DEF InOven, Coming, Held
  <2> QED BY <1>2, <1>3, <2>1, <2>2 DEF InTurn
<1>11. InSorter'
  BY DEF InSorter, Held, Sorting
<1>12. InBays'
  BY <1>1, <1>3, <1>4, BaysStill
<1> QED BY <1>1, <1>2, <1>4, <1>7, <1>8, <1>9, <1>10, <1>11, <1>12 DEF Words

\* The oven takes up the request.
LEMMA OvenWaits ==
  ASSUME HandoverInv, LineInv, MpoIdle
  PROVE  LineInv'
<1> USE DEF HandoverInv, LineInv
<1>0. /\ mpo = "IDLE" /\ mpoQ # <<>> /\ mpo' = "WAIT_OVEN" /\ mpoReq' = Head(mpoQ) /\ mpoQ' = Tail(mpoQ)
      /\ UNCHANGED <<sld, sldQ, sldReq, seen, mail, at>>
  BY DEF MpoIdle, sldVars, Calm, Handless
<1>1. /\ Words' /\ Orders' /\ OrderRight' /\ TagsTrue' /\ InHands' /\ HistoryTrue'
      /\ UNCHANGED <<vgr, flow, wait, raised, mode, hist, board, asked>>
      /\ Line' = Line /\ (Burnt' <=> Burnt) => LineRight' /\ Shown'
  BY <1>0, StationRest DEF MpoRuns, MpoStep
<1>2. LineMailSame
  BY <1>0, QuietMail
<1>3. /\ Queued' = Queued /\ Notices' = Notices /\ Announced' = Announced /\ Sortable' = Sortable
      /\ Burning' = Burning /\ AtSorter' = AtSorter /\ Ejected' = Ejected /\ Coming' = Coming
  BY <1>0, <1>1, <1>2 DEF LineMailSame, Queued, Notices, Announced, Sortable, Burning, AtSorter, Ejected, Coming, Sorting
<1>4. Line' = Line /\ (Burnt' <=> Burnt)
  BY <1>1, <1>2, <1>3 DEF LineMailSame, Line, Burnt
<1>5. /\ Produce = {} /\ ~Burnt /\ vgr \in Making /\ Head(mpoQ) = Flow(flow.order) /\ mpoQ' = <<>>
  <2>1. Len(mpoQ) = 1 /\ Tail(mpoQ) = <<>>
    <3>1. mpoQ \in Seq(Flows) /\ Len(mpoQ) <= 1
      BY DEF OvenTalk, Types, MpoOK
    <3> QED BY <1>0, <3>1, LoneOne
  <2> QED BY <1>0, <2>1 DEF OvenTalk
<1>6. OvenTalk'
  BY <1>0, <1>1, <1>2, <1>4, <1>5 DEF LineMailSame, OvenTalk, Burnt
<1>7. InOven' /\ Unfailing'
  BY <1>0, <1>1, <1>4 DEF InOven, Held, Unfailing
<1>8. NoDouble'
  BY <1>0, <1>1, <1>3 DEF NoDouble
<1>9. InTurn'
  <2>1. Held("sensor")' = Held("sensor")
    BY <1>0 DEF Held
  <2>2. \A p \in Held("sensor"), q \in Coming : p \in Parts /\ q \in Parts
    BY DEF InOven, Coming, Held
  <2> QED BY <1>0, <1>2, <1>3, <2>1, <2>2 DEF LineMailSame, InTurn
<1>10. InSorter'
  BY <1>0 DEF InSorter, Held, Sorting
<1>11. InBays'
  BY <1>0, <1>1, <1>3, <1>4, BaysStill
<1> QED BY <1>1, <1>2, <1>4, <1>6, <1>7, <1>8, <1>9, <1>10, <1>11 DEF Words, LineMailSame

\* The workpiece is in the oven: the request joins the line.
LEMMA OvenStarts ==
  ASSUME HandoverInv, LineInv, MpoStarted
  PROVE  LineInv'
<1> DEFINE m == MpoAck("STARTED", mpoReq)
<1> USE DEF HandoverInv, LineInv
<1>0. /\ mpo = "WAIT_OVEN" /\ mpo' = "BURN" /\ Held("oven") # {} /\ Publish(m)
      /\ UNCHANGED <<mpoQ, mpoReq, sld, sldQ, sldReq, seen, at>>
  BY DEF MpoStarted, MpoGoes, isOvenTriggered, sldVars, Handless
<1>1. /\ Words' /\ Orders' /\ OrderRight' /\ TagsTrue' /\ InHands' /\ HistoryTrue'
      /\ UNCHANGED <<vgr, flow, wait, raised, mode, hist, board, asked>>
      /\ \A f : Right(f)' <=> Right(f)
  BY <1>0, StationRest DEF MpoRuns, MpoStep
<1>2. /\ ~Burnt /\ vgr = "START_PRODUCE" /\ mpoReq = Flow(flow.order) /\ Held("oven") = {mpoReq.wp.uid}
      /\ Produce = {} /\ mpoQ = <<>> /\ Started = {} /\ "mpoStarted" \notin raised
  <2>1. vgr \in Making /\ ~Burnt /\ mpoReq = Flow(flow.order) /\ Produce = {} /\ mpoQ = <<>>
    BY <1>0 DEF OvenTalk
  <2>2. vgr = "START_PRODUCE" /\ Held("oven") = {flow.order.wp.uid}
    BY <1>0, <2>1 DEF InOven
  <2> QED BY <2>1, <2>2 DEF Burnt, Flow, Workflow
<1>3. m \in Letters /\ m.topic = "mpo/ack" /\ m.code = "STARTED" /\ m.flow = mpoReq
  BY Sendings DEF Types, MpoOK, MpoAck, Msg
<1> HIDE DEF m
<1>4. /\ LineMail' /\ Produce' = Produce /\ Started' = {m} /\ Noticed' = Noticed /\ Sorted' = Sorted
      /\ \A p, q \in Parts : Before(mail["SLD"], Naming(p), Naming(q)) => Before(mail'["SLD"], Naming(p), Naming(q))
  <2>1. MailOK /\ LineMail
    BY DEF Types
  <2> QED BY <1>0, <1>2, <1>3, <2>1, LoudPost
<1>5. /\ Queued' = Queued /\ Notices' = Notices /\ Announced' = Announced /\ Sortable' = Sortable
      /\ Burning = {} /\ Burning' = {mpoReq} /\ AtSorter' = AtSorter /\ Ejected' = Ejected /\ Coming' = Coming
  BY <1>0, <1>1, <1>4 DEF Queued, Notices, Announced, Sortable, Burning, AtSorter, Ejected, Coming, Sorting
<1>6. Line' = Line \cup {mpoReq} /\ Burnt'
  BY <1>4, <1>5 DEF Line, Burnt
<1>7. Right(mpoReq) /\ board[mpoReq.uid] = "TRANSPORT_TO_PROCESS_STATION" /\ mpoReq.uid = flow.order.uid
  <2>1. vgr \in Served /\ vgr \in DOMAIN StageOf /\ StageOf[vgr] = "TRANSPORT_TO_PROCESS_STATION"
    BY <1>2 DEF Served, StageOf
  <2> QED BY <1>2, <2>1 DEF OrderRight, Shown, Flow, Workflow
<1>8. \A x \in Line : board[x.uid] = "IN_PROCESS" /\ x.uid # mpoReq.uid
  BY <1>2, <1>7 DEF Shown
<1>9. \A x \in Line : x.wp.uid # mpoReq.wp.uid
  <2>1. at[mpoReq.wp.uid] = "oven" /\ "oven" \notin Bays
    BY <1>2 DEF Held, Bays
  <2>2. \A x \in Line : x \in Queued \cup Notices \cup AtSorter \cup Ejected \cup Announced \cup Sortable
    BY <1>5 DEF Line
  <2> QED BY <2>1, <2>2, LinePlaces
<1>10. LineRight'
  BY <1>1, <1>6, <1>7, <1>8, <1>9 DEF LineRight
<1>11. Shown'
  <2>1. \A x \in Line' : board[x.uid] = "IN_PROCESS" \/ x.uid = flow.order.uid
    BY <1>6, <1>7, <1>8
  <2> QED BY <1>1, <1>6, <2>1 DEF Shown
<1>12. OvenTalk'
  BY <1>0, <1>1, <1>2, <1>4, <1>6 DEF OvenTalk, Burnt, Making
<1>13. InOven' /\ Unfailing'
  BY <1>0, <1>1, <1>2, <1>6 DEF InOven, Held, Unfailing
<1>14. NoDouble'
  BY <1>0, <1>1, <1>5 DEF NoDouble
<1>15. InTurn'
  <2>1. Held("sensor")' = Held("sensor")
    BY <1>0 DEF Held
  <2>2. \A p \in Held("sensor"), q \in Coming : p \in Parts /\ q \in Parts
    BY DEF InOven, Coming, Held
  <2> QED BY <1>0, <1>4, <1>5, <2>1, <2>2 DEF InTurn
<1>16. InSorter'
  BY <1>0 DEF InSorter, Held, Sorting
<1>17. InBays'
  BY <1>0, <1>1, <1>2, <1>5, BaysStill
<1> QED BY <1>1, <1>4, <1>10, <1>11, <1>12, <1>13, <1>14, <1>15, <1>16, <1>17 DEF Words

\* The workpiece leaves the oven.
LEMMA OvenLeft ==
  ASSUME HandoverInv, LineInv, MpoProcess
  PROVE  LineInv'
<1> USE DEF HandoverInv, LineInv
<1>0. /\ mpo = "BURN" /\ mpo' = "EJECT" /\ Move("oven", "mpo")
      /\ UNCHANGED <<mpoQ, mpoReq, sld, sldQ, sldReq, seen, mail>>
  BY DEF MpoProcess, MpoGoes, sldVars, Calm
<1>p. at \in [Parts -> Places] /\ \A p \in Parts : at'[p] = IF at[p] = "oven" THEN "mpo" ELSE at[p]
  BY <1>0 DEF Types, PlantOK, Move
<1>1. /\ Words' /\ Orders' /\ OrderRight' /\ TagsTrue' /\ InHands' /\ HistoryTrue'
      /\ UNCHANGED <<vgr, flow, wait, raised, mode, hist, board, asked>>
      /\ Line' = Line /\ (Burnt' <=> Burnt) => LineRight' /\ Shown'
  BY <1>p, StationRest DEF MpoRuns, MpoStep, Furnace
<1>2. LineMailSame
  BY <1>0, QuietMail
<1>3. /\ Queued' = Queued /\ Notices' = Notices /\ Announced' = Announced /\ Sortable' = Sortable
      /\ Burning' = Burning /\ AtSorter' = AtSorter /\ Ejected' = Ejected /\ Coming' = Coming
  BY <1>0, <1>1, <1>2 DEF LineMailSame, Queued, Notices, Announced, Sortable, Burning, AtSorter, Ejected, Coming, Sorting
<1>4. Line' = Line /\ (Burnt' <=> Burnt)
  BY <1>1, <1>2, <1>3 DEF LineMailSame, Line, Burnt
<1>5. OvenTalk' /\ Unfailing'
  BY <1>0, <1>1, <1>2, <1>4 DEF LineMailSame, OvenTalk, Unfailing
<1>6. /\ Held("oven")' = {} /\ Held("mpo")' = Held("mpo") \cup Held("oven")
      /\ \A place \in {"sensor", "sorter"} : Held(place)' = Held(place)
  BY <1>p DEF Held
<1>7. InOven'
  BY <1>0, <1>1, <1>4, <1>6 DEF InOven
<1>8. NoDouble'
  BY <1>0, <1>1, <1>3 DEF NoDouble
<1>9. InTurn'
  <2>1. \A p \in Held("sensor"), q \in Coming : p \in Parts /\ q \in Parts
    BY DEF InOven, Coming, Held
  <2> QED BY <1>0, <1>2, <1>3, <1>6, <2>1 DEF LineMailSame, InTurn
<1>10. InSorter'
  BY <1>0, <1>6 DEF InSorter, Sorting
<1>11. InBays'
  <2>1. "oven" \notin Bays
    BY DEF Bays
  <2> QED BY <1>p, <1>1, <1>3, <1>4, <2>1, BaysStill
<1> QED BY <1>1, <1>2, <1>4, <1>5, <1>7, <1>8, <1>9, <1>10, <1>11 DEF Words, LineMailSame

\* The request leaves the oven as a notice to the sorting line.
LEMMA OvenTells ==
  ASSUME HandoverInv, LineInv, MpoEject
  PROVE  LineInv'
<1> DEFINE r == [mpoReq EXCEPT !.wp.state = "PROCESSED"]
           m == MpoAck("PRODUCED", r)
<1> USE DEF HandoverInv, LineInv
<1>0. /\ mpo = "EJECT" /\ mpo' = "TRANSPORT" /\ mpoReq' = r /\ Publish(m)
      /\ UNCHANGED <<mpoQ, sld, sldQ, sldReq, seen, at>>
  BY DEF MpoEject, sldVars, Handless
<1>1. /\ Words' /\ Orders' /\ OrderRight' /\ TagsTrue' /\ InHands' /\ HistoryTrue'
      /\ UNCHANGED <<vgr, flow, wait, raised, mode, hist, board, asked>>
      /\ \A f : Right(f)' <=> Right(f)
  BY <1>0, StationRest DEF MpoRuns, MpoStep
<1>2. /\ r \in Flows /\ r.uid = mpoReq.uid /\ r.wp.uid = mpoReq.wp.uid /\ r.wp.type = mpoReq.wp.type
  BY DEF Types, MpoOK, Flows, Workpiece
<1>3. m \in Letters /\ m.topic = "mpo/ack" /\ m.code = "PRODUCED" /\ m.flow = r
  BY <1>2, Sendings DEF MpoAck, Msg
<1> HIDE DEF m, r
<1>4. Held("mpo") = {r.wp.uid} /\ Burning = {mpoReq} /\ Coming = {}
  BY <1>0, <1>2 DEF InOven, Burning, Coming
<1> DEFINE Others == Queued \cup Notices \cup AtSorter \cup Ejected \cup Announced \cup Sortable
<1>5. Line = Others \cup {mpoReq} /\ \A x \in Others : x.wp.uid # r.wp.uid /\ x.uid # r.uid
  <2>1. Line = Others \cup {mpoReq}
    BY <1>4 DEF Line
  <2>2. at[r.wp.uid] = "mpo" /\ "mpo" \notin Bays
    BY <1>4 DEF Held, Bays
  <2>3. \A x \in Others : x.wp.uid # r.wp.uid
    BY <1>0, <2>2, LinePlaces
  <2>4. mpoReq \notin Others
    BY <1>2, <2>3
  <2>5. \A x \in Others : x.uid # mpoReq.uid
    BY <2>1, <2>4 DEF LineRight
  <2> QED BY <1>2, <2>1, <2>3, <2>5
<1>6. /\ LineMail' /\ Produce' = Produce /\ Started' = Started /\ Noticed' = Noticed \cup {m} /\ Sorted' = Sorted
      /\ \A p, q \in Parts :
           /\ Before(mail["SLD"], Naming(p), Naming(q))
           /\ r.wp.uid = p => p # q /\ \A x \in Notices : x.wp.uid # q
           => Before(mail'["SLD"], Naming(p), Naming(q))
  <2>1. MailOK /\ LineMail /\ r \notin Notices
    BY <1>5 DEF Types
  <2> QED BY <1>0, <1>3, <2>1, LoudPost
<1>7. /\ Queued' = Queued /\ Notices' = Notices \cup {r} /\ Announced' = Announced /\ Sortable' = Sortable
      /\ Burning' = {} /\ AtSorter' = AtSorter /\ Ejected' = Ejected /\ Coming' = {r.wp.uid}
  BY <1>0, <1>1, <1>2, <1>3, <1>6 DEF Queued, Notices, Announced, Sortable, Burning, AtSorter, Ejected, Coming, Sorting
<1>8. Line' = Others \cup {r} /\ (Burnt' <=> Burnt)
  BY <1>1, <1>6, <1>7 DEF Line, Burnt
<1> HIDE DEF Others
<1>9. LineRight'
  <2>1. Right(r)
    BY <1>2, <1>5 DEF LineRight, Right
  <2>2. \A x \in Others : Right(x)
    BY <1>5 DEF LineRight
  <2>3. \A x, y \in Others : x.uid = y.uid \/ x.wp.uid = y.wp.uid => x = y
    BY <1>5 DEF LineRight
  <2>4. \A x, y \in Line' : x.uid = y.uid \/ x.wp.uid = y.wp.uid => x = y
    BY <1>5, <1>8, <2>3
  <2> QED BY <1>1, <1>8, <2>1, <2>2, <2>4 DEF LineRight
<1>10. Shown'
  <2>1. \A x \in Line : board[x.uid] = "IN_PROCESS" \/ (Burnt /\ x.uid = flow.order.uid)
    BY DEF Shown
  <2>2. \A x \in Line' : board[x.uid] = "IN_PROCESS" \/ (Burnt /\ x.uid = flow.order.uid)
    BY <1>2, <1>5, <1>8, <2>1
  <2> QED BY <1>1, <1>8, <2>2 DEF Shown
<1>11. OvenTalk' /\ Unfailing'
  BY <1>0, <1>1, <1>6, <1>8 DEF OvenTalk, Unfailing
<1>12. InOven'
  BY <1>0, <1>1, <1>4, <1>8 DEF InOven, Held
<1>13. NoDouble'
  <2>1. r \notin Queued
    BY <1>5 DEF Others
  <2> QED BY <1>0, <1>1, <1>7, <2>1 DEF NoDouble
<1>14. InTurn'
  <2>1. Held("sensor")' = Held("sensor")
    BY <1>0 DEF Held
  <2>2. \A x \in Queued \cup Notices : x.wp.uid # r.wp.uid /\ x.wp.uid \in Held("sensor")
    BY <1>4, <1>5 DEF Others, InTurn
  <2>3. ASSUME NEW p \in Held("sensor")
        PROVE  Before(mail'["SLD"], Naming(p), Naming(r.wp.uid))
    <3>1. p \in Parts /\ r.wp.uid \in Parts /\ p # r.wp.uid
      BY <1>4 DEF Held
    <3>2. Of(mail["SLD"], Naming(r.wp.uid)) = {}
      BY <2>2, Hearsay DEF Notices
    <3>3. Before(mail["SLD"], Naming(p), Naming(r.wp.uid))
      BY <3>2 DEF Before, Of
    <3> QED BY <1>6, <3>1, <3>3
  <2>4. /\ \A x \in Queued' \cup Notices' : x.wp.uid \in Held("sensor") \cup {r.wp.uid}
        /\ \A p \in Held("sensor") \cup {r.wp.uid} : \E x \in Queued' \cup Notices' : x.wp.uid = p
    BY <1>4, <1>7, <2>2 DEF InTurn
  <2>5. \A x \in Queued' : x.wp.uid # r.wp.uid
    BY <1>7, <2>2
  <2> QED BY <1>0, <1>7, <2>1, <2>3, <2>4, <2>5 DEF InTurn
<1>15. InSorter'
  BY <1>0 DEF InSorter, Held, Sorting
<1>16. InBays'
  <2>1. \A x \in Line' : \E y \in Line : x.wp.uid = y.wp.uid
    BY <1>2, <1>5, <1>8
  <2> QED BY <1>0, <1>1, <1>7, <2>1, BaysStill
<1> QED BY <1>1, <1>6, <1>9, <1>10, <1>11, <1>12, <1>13, <1>14, <1>15, <1>16 DEF Words

\* The workpiece goes to the sensor, and its notice to the line.
LEMMA ToTheSensor ==
  ASSUME HandoverInv, LineInv, MpoTransport, UNCHANGED faults
  PROVE  LineInv'
<1> USE DEF HandoverInv, LineInv
<1>0. /\ mpo = "TRANSPORT" /\ mpo' = "IDLE" /\ Held("sensor") = {} /\ Move("mpo", "sensor")
      /\ UNCHANGED <<mpoQ, mpoReq, sld, sldQ, sldReq, seen, mail>>
  BY NoMisread DEF MpoTransport, sldVars
<1>p. at \in [Parts -> Places] /\ \A p \in Parts : at'[p] = IF at[p] = "mpo" THEN "sensor" ELSE at[p]
  BY <1>0 DEF Types, PlantOK, Move
<1>1. /\ Words' /\ Orders' /\ OrderRight' /\ TagsTrue' /\ InHands' /\ HistoryTrue'
      /\ UNCHANGED <<vgr, flow, wait, raised, mode, hist, board, asked>>
      /\ Line' = Line /\ (Burnt' <=> Burnt) => LineRight' /\ Shown'
  BY <1>p, StationRest DEF MpoRuns, MpoStep, Furnace
<1>2. LineMailSame
  BY <1>0, QuietMail
<1>3. /\ Queued' = Queued /\ Notices' = Notices /\ Announced' = Announced /\ Sortable' = Sortable
      /\ Burning' = Burning /\ AtSorter' = AtSorter /\ Ejected' = Ejected /\ Coming = {mpoReq.wp.uid} /\ Coming' = {}
  BY <1>0, <1>1, <1>2 DEF LineMailSame, Queued, Notices, Announced, Sortable, Burning, AtSorter, Ejected, Coming, Sorting
<1>4. Line' = Line /\ (Burnt' <=> Burnt)
  BY <1>1, <1>2, <1>3 DEF LineMailSame, Line, Burnt
<1>5. OvenTalk' /\ Unfailing'
  BY <1>0, <1>1, <1>2, <1>4 DEF LineMailSame, OvenTalk, Unfailing
<1>6. /\ Held("mpo")' = {} /\ Held("sensor")' = {mpoReq.wp.uid}
      /\ \A place \in {"oven", "sorter"} : Held(place)' = Held(place)
  <2>1. Held("mpo") = {mpoReq.wp.uid}
    BY <1>0 DEF InOven
  <2> QED BY <1>0, <1>p, <2>1 DEF Held
<1>7. InOven'
  BY <1>0, <1>1, <1>4, <1>6 DEF InOven
<1>8. NoDouble'
  BY <1>0, <1>1, <1>3 DEF NoDouble
<1>9. InTurn'
  <2>1. /\ \A x \in Queued \cup Notices : x.wp.uid = mpoReq.wp.uid
        /\ \E x \in Queued \cup Notices : x.wp.uid = mpoReq.wp.uid
    BY <1>0, <1>3 DEF InTurn
  <2>2. sldQ # <<>> => Head(sldQ) \in Queued
    <3>1. sldQ \in Seq(Flows)
      BY DEF Types, SldOK
    <3> QED BY <3>1 DEF Queued, Of
  <2> QED BY <1>0, <1>3, <1>6, <2>1, <2>2 DEF InTurn, One
<1>10. InSorter'
  BY <1>0, <1>6 DEF InSorter, Sorting
<1>11. InBays'
  <2>1. "mpo" \notin Bays
    BY DEF Bays
  <2> QED BY <1>p, <1>1, <1>3, <1>4, <2>1, BaysStill
<1> QED BY <1>1, <1>2, <1>4, <1>5, <1>7, <1>8, <1>9, <1>10, <1>11 DEF Words, LineMailSame

\* The oven keeps the invariant.
LEMMA OvenLine ==
  ASSUME HandoverInv, LineInv, MpoRuns, UNCHANGED faults
  PROVE  LineInv'
<1> USE DEF HandoverInv, LineInv
<1>1. CASE MpoReceive
  <2>1. PICK m \in Arrived("MPO") :
          /\ Received("MPO")
          /\ (m.topic = "ack" /\ UNCHANGED mpoQ) \/ (m.topic = "vgr/do" /\ mpoQ' = Append(mpoQ, m.flow))
          /\ UNCHANGED <<mpo, mpoReq, at>> /\ SorterStill
    BY <1>1 DEF MpoReceive, sldVars, SorterStill, Handless
  <2>2. CASE m.topic = "ack"
    <3>1. LineMailSame
      <4>1. "MPO" \in Clients /\ MailOK /\ LineMail
        BY DEF Clients, Types
      <4> QED BY <2>1, <2>2, <4>1, Hearing DEF LineMailSame
    <3> QED BY <2>1, <2>2, <3>1, StationIdles DEF SorterStill
  <2>3. CASE m.topic = "vgr/do"
    BY <2>1, <2>3, OvenAsked
  <2> QED BY <2>1, <2>2, <2>3
<1>2. CASE MpoInit
  <2>1. LineMailSame
    BY <1>2, QuietMail DEF MpoInit, Calm
  <2> QED BY <1>2, <2>1, StationIdles DEF MpoInit, MpoGoes, sldVars, Handless
<1>3. CASE MpoEnterFault \/ MpoFault
  BY <1>3 DEF MpoEnterFault, MpoFault, MpoGoes, Unfailing
<1>4. CASE MpoTimeout
  BY <1>4, NoMisread DEF MpoTimeout
<1>5. CASE MpoIdle \/ MpoStarted \/ MpoProcess \/ MpoEject \/ MpoTransport
  BY <1>5, OvenWaits, OvenStarts, OvenLeft, OvenTells, ToTheSensor
<1> QED BY <1>1, <1>2, <1>3, <1>4, <1>5 DEF MpoRuns, MpoStep

-----------------------------------------------------------------------------
(* The sorting line.                                                       *)

OvenStill == UNCHANGED <<mpo, mpoQ, mpoReq>>

\* What the oven keeps while the sorting line moves.
LEMMA OvenRest ==
  ASSUME OvenTalk, InOven, Unfailing, OvenStill, UNCHANGED <<vgr, flow, raised>>, Produce' = Produce, Started' = Started,
         Held("oven")' = Held("oven"), Held("mpo")' = Held("mpo"), sld' \notin {"ENTER_FAULT", "FAULT"}
  PROVE  OvenTalk' /\ InOven' /\ Unfailing' /\ (Burnt' <=> Burnt) /\ Coming' = Coming /\ Burning' = Burning
<1> USE DEF OvenStill
<1>1. Burnt' <=> Burnt
  BY DEF Burnt
<1>2. OvenTalk' /\ InOven'
  BY <1>1 DEF OvenTalk, InOven
<1>3. Unfailing'
  BY DEF Unfailing
<1> QED BY <1>1, <1>2, <1>3 DEF Coming, Burning

\* A request joins the queue of the line.
LEMMA QueueIn ==
  ASSUME NEW f \in Flows, SldOK
  PROVE  /\ \A x \in Flows : Of(Append(sldQ, f), {x}) = Of(sldQ, {x}) \cup ({f} \cap {x})
         /\ Of(Append(sldQ, f), Flows) = Of(sldQ, Flows) \cup {f}
         /\ \A x \in Flows : Once(sldQ, {x}) /\ f \notin Of(sldQ, Flows) => Once(Append(sldQ, f), {x})
         /\ Head(Append(sldQ, f)) = IF sldQ = <<>> THEN f ELSE Head(sldQ)
<1>1. sldQ \in Seq(Flows)
  BY DEF SldOK
<1>2. \A S : /\ Of(Append(sldQ, f), S) = Of(sldQ, S) \cup ({f} \cap S)
             /\ Once(sldQ, S) /\ (f \in S => Of(sldQ, S) = {}) => Once(Append(sldQ, f), S)
  BY <1>1, OfAppend
<1>3. \A x \in Flows : f \notin Of(sldQ, Flows) => (f \in {x} => Of(sldQ, {x}) = {})
  BY DEF Of
<1>4. Head(Append(sldQ, f)) = IF sldQ = <<>> THEN f ELSE Head(sldQ)
  BY <1>1
<1>5. {f} \cap Flows = {f}
  OBVIOUS
<1> QED BY <1>2, <1>3, <1>4, <1>5

\* The line hears of a workpiece on its way.
LEMMA NoticeHeard ==
  ASSUME HandoverInv, LineInv, SldRuns, NEW m \in Arrived("SLD"), Received("SLD"), m.topic = "mpo/ack",
         sldQ' = Append(sldQ, m.flow), UNCHANGED <<sld, sldReq, seen, at>>, OvenStill
  PROVE  LineInv'
<1> DEFINE f == m.flow
<1> USE DEF HandoverInv, LineInv, OvenStill
<1>1. /\ Words' /\ Orders' /\ OrderRight' /\ TagsTrue' /\ InHands' /\ HistoryTrue'
      /\ UNCHANGED <<vgr, flow, wait, raised, mode, hist, board, asked>>
      /\ Line' = Line /\ (Burnt' <=> Burnt) => LineRight' /\ Shown'
  BY StationRest
<1>2. /\ LineMail' /\ m \in Letters /\ Produce' = Produce /\ Started' = Started
      /\ Sorted' = Sorted /\ Noticed = Noticed' \cup {m} /\ f \notin Notices'
      /\ \A p, q \in Parts :
           Before(mail["SLD"], Naming(p), Naming(q)) =>
             Before(mail'["SLD"], Naming(p), Naming(q)) /\ (f.wp.uid = q => \A x \in Notices : x.wp.uid # p)
  <2>1. "SLD" \in Clients /\ MailOK
    BY DEF Clients, Types
  <2> QED BY <2>1, Hearing
<1>3. f \in Flows /\ f \in Notices
  BY <1>2 DEF Letters, Notices
<1>4. /\ Queued' = Queued \cup {f} /\ Notices = Notices' \cup {f} /\ Announced' = Announced /\ Sortable' = Sortable
      /\ Burning' = Burning /\ AtSorter' = AtSorter /\ Ejected' = Ejected /\ Coming' = Coming
  <2>1. Queued' = Queued \cup {f}
    BY <1>3, QueueIn DEF Types, Queued
  <2>2. Notices = Notices' \cup {f}
    BY <1>2 DEF Notices
  <2> QED BY <1>1, <1>2, <2>1, <2>2 DEF Announced, Sortable, Burning, AtSorter, Ejected, Coming, Sorting
<1> HIDE DEF f
<1>5. Line' = Line
  BY <1>4 DEF Line
<1>6. OvenTalk' /\ InOven' /\ Unfailing' /\ (Burnt' <=> Burnt)
  BY <1>1, <1>2, OvenRest DEF Held, Unfailing
<1>7. NoDouble'
  <2>1. f \notin Queued
    BY <1>3 DEF NoDouble
  <2>2. \A x \in Flows : Once(sldQ', {x})
    BY <1>3, <2>1, QueueIn DEF Types, Queued, NoDouble, f
  <2> QED BY <1>1, <1>2, <1>4, <2>2 DEF NoDouble, f
<1>8. InTurn'
  <2>1. Held("sensor")' = Held("sensor") /\ Queued' \cup Notices' = Queued \cup Notices
    BY <1>4 DEF Held
  <2>2. \A p \in Held("sensor"), q \in Coming :
          /\ p \in Parts /\ q \in Parts /\ p # q /\ Before(mail["SLD"], Naming(p), Naming(q))
          /\ f.wp.uid = q => \A x \in Notices : x.wp.uid # p
    <3>1. ASSUME NEW p \in Held("sensor"), NEW q \in Coming
          PROVE  p \in Parts /\ q \in Parts /\ p # q /\ Before(mail["SLD"], Naming(p), Naming(q))
      BY DEF InOven, InTurn, Coming, Held
    <3> QED BY <1>2, <3>1 DEF f
  <2>3. ASSUME Held("sensor") # {} PROVE Head(sldQ').wp.uid \in Held("sensor")
    <3>1. CASE sldQ # <<>>
      BY <1>3, <2>3, <3>1, QueueIn DEF Types, InTurn, f
    <3>2. CASE sldQ = <<>>
      <4>1. Queued = {} /\ Head(sldQ') = f
        BY <1>3, <3>2, QueueIn DEF Types, Queued, Of, f
      <4>2. PICK p \in Held("sensor") : \E x \in Notices : x.wp.uid = p
        BY <2>3, <4>1 DEF InTurn
      <4>3. f.wp.uid \in Held("sensor") \cup Coming
        BY <1>3 DEF InTurn
      <4> QED BY <2>2, <4>1, <4>2, <4>3
    <3> QED BY <3>1, <3>2
  <2>4. ASSUME NEW p \in Held("sensor"), NEW q \in Coming, NEW x \in Queued', x.wp.uid = q
        PROVE  \A y \in Notices' : y.wp.uid # p
    BY <1>4, <2>2, <2>4 DEF InTurn
  <2> QED BY <1>2, <1>4, <2>1, <2>2, <2>3, <2>4 DEF InTurn, f
<1>9. InSorter'
  BY DEF InSorter, Held, Sorting
<1>10. InBays'
  BY <1>1, <1>4, <1>5, BaysStill
<1> QED BY <1>1, <1>2, <1>5, <1>6, <1>7, <1>8, <1>9, <1>10 DEF Words

\* The request at the front is taken with the workpiece at the sensor.
LEMMA SorterTakes ==
  ASSUME HandoverInv, LineInv, SldIdle
  PROVE  LineInv'
<1> DEFINE f == Head(sldQ)
<1> USE DEF HandoverInv, LineInv
<1>0. /\ sld = "IDLE" /\ Held("sensor") # {} /\ sldQ # <<>> /\ sld' = "COLOR_DETECTION" /\ sldReq' = f
      /\ sldQ' = Tail(sldQ) /\ Move("sensor", "sorter") /\ OvenStill /\ UNCHANGED mail
  BY DEF SldIdle, isColorSensorTriggered, mpoVars, OvenStill, Calm
<1>p. at \in [Parts -> Places] /\ \A p \in Parts : at'[p] = IF at[p] = "sensor" THEN "sorter" ELSE at[p]
  BY <1>0 DEF Types, PlantOK, Move
<1>1. /\ Words' /\ Orders' /\ OrderRight' /\ TagsTrue' /\ InHands' /\ HistoryTrue'
      /\ UNCHANGED <<vgr, flow, wait, raised, mode, hist, board, asked>>
      /\ Line' = Line /\ (Burnt' <=> Burnt) => LineRight' /\ Shown'
  BY <1>p, StationRest DEF SldRuns, SldStep, Furnace
<1>2. LineMailSame
  BY <1>0, QuietMail
<1>3. /\ f \in Flows /\ Queued = Queued' \cup {f} /\ f \notin Queued' /\ \A x \in Flows : Once(sldQ', {x})
  <2>1. sldQ \in Seq(Flows)
    BY DEF Types, SldOK
  <2>2. f \in Flows
    BY <1>0, <2>1
  <2>3. Of(sldQ, Flows) = Of(Tail(sldQ), Flows) \cup ({f} \cap Flows)
    BY <1>0, <2>1, OfRest
  <2>4. \A x \in Flows : Once(Tail(sldQ), {x}) /\ (f \in {x} => Of(Tail(sldQ), {x}) = {})
    BY <1>0, <2>1, OfTail DEF NoDouble
  <2>5. f \notin Of(Tail(sldQ), Flows)
    BY <2>2, <2>4 DEF Of
  <2> QED BY <1>0, <2>2, <2>3, <2>4, <2>5 DEF Queued
<1> HIDE DEF f
<1>4. /\ Notices' = Notices /\ Announced' = Announced /\ Sortable' = Sortable
      /\ AtSorter = {} /\ AtSorter' = {f} /\ Ejected' = {} /\ Ejected = {}
  BY <1>0, <1>1, <1>2 DEF LineMailSame, Notices, Announced, Sortable, AtSorter, Ejected, Sorting
<1>5. /\ Held("sensor") = {f.wp.uid} /\ Held("sensor")' = {} /\ Held("sorter")' = {f.wp.uid}
      /\ Held("oven")' = Held("oven") /\ Held("mpo")' = Held("mpo")
  <2>1. Held("sensor") = {f.wp.uid} /\ Held("sorter") = {}
    BY <1>0 DEF InTurn, InSorter, One, f, Sorting
  <2> QED BY <1>p, <2>1 DEF Held
<1>6. OvenTalk' /\ InOven' /\ Unfailing' /\ (Burnt' <=> Burnt) /\ Coming' = Coming /\ Burning' = Burning
  BY <1>0, <1>1, <1>2, <1>5, OvenRest DEF LineMailSame
<1>7. Line' = Line
  BY <1>3, <1>4, <1>6 DEF Line
<1>8. NoDouble'
  BY <1>1, <1>3, <1>4 DEF NoDouble
<1>9. InTurn'
  <2>1. ASSUME NEW x \in Queued' \cup Notices PROVE x.wp.uid \in Coming
    <3>1. x # f /\ x \in Line /\ f \in Line /\ x \in Queued \cup Notices
      BY <1>3 DEF NoDouble, Line
    <3>2. x.wp.uid # f.wp.uid
      BY <3>1 DEF LineRight
    <3> QED BY <1>5, <3>1, <3>2 DEF InTurn
  <2>2. ASSUME NEW q \in Coming PROVE \E x \in Queued' \cup Notices : x.wp.uid = q
    <3>1. q # f.wp.uid
      BY <1>5 DEF InOven, Coming, Held
    <3> QED BY <1>3, <3>1 DEF InTurn
  <2> QED BY <1>4, <1>5, <1>6, <2>1, <2>2 DEF InTurn, One
<1>10. InSorter'
  BY <1>0, <1>5 DEF InSorter, Sorting
<1>11. InBays'
  <2>1. "sensor" \notin Bays
    BY DEF Bays
  <2> QED BY <1>p, <1>1, <1>4, <1>7, <2>1, BaysStill
<1> QED BY <1>1, <1>2, <1>6, <1>7, <1>8, <1>9, <1>10, <1>11 DEF Words, LineMailSame

\* The line reads the colour of the first workpiece.
LEMMA ColourRead ==
  ASSUME HandoverInv, LineInv, SldColorDetection, UNCHANGED faults
  PROVE  LineInv'
<1> USE DEF HandoverInv, LineInv
<1>0. /\ sld = "COLOR_DETECTION" /\ seen' \in getDetectedColor /\ OvenStill /\ UNCHANGED <<sldQ, sldReq, at>>
      /\ IF seen' = sldReq.wp.type THEN sld' = "CHECK_COUNT" /\ UNCHANGED mail ELSE sld' = "ENTER_FAULT"
  BY NoMisread DEF SldColorDetection, mpoVars, OvenStill, Handless
<1>1. /\ Words' /\ Orders' /\ OrderRight' /\ TagsTrue' /\ InHands' /\ HistoryTrue'
      /\ UNCHANGED <<vgr, flow, wait, raised, mode, hist, board, asked>>
      /\ Line' = Line /\ (Burnt' <=> Burnt) => LineRight' /\ Shown'
  BY <1>0, StationRest DEF SldRuns, SldStep
<1>2. seen' = sldReq.wp.type
  <2>1. Held("sorter") = {sldReq.wp.uid} /\ sldReq \in Line
    BY <1>0 DEF InSorter, Sorting, Line, AtSorter
  <2>2. sldReq.wp.type = ColourOf[sldReq.wp.uid]
    BY <2>1 DEF LineRight, Right
  <2> QED BY <1>0, <2>1, <2>2 DEF getDetectedColor
<1>3. sld' = "CHECK_COUNT" /\ LineMailSame
  BY <1>0, <1>2, QuietMail
<1>4. /\ Queued' = Queued /\ Notices' = Notices /\ Announced' = Announced /\ Sortable' = Sortable
      /\ AtSorter' = AtSorter /\ Ejected' = Ejected
  BY <1>0, <1>1, <1>3 DEF LineMailSame, Queued, Notices, Announced, Sortable, AtSorter, Ejected, Sorting
<1>5. OvenTalk' /\ InOven' /\ Unfailing' /\ (Burnt' <=> Burnt) /\ Coming' = Coming /\ Burning' = Burning
  BY <1>0, <1>1, <1>3, OvenRest DEF LineMailSame, Held
<1>6. Line' = Line
  BY <1>4, <1>5 DEF Line
<1>7. NoDouble'
  BY <1>0, <1>1, <1>4 DEF NoDouble
<1>8. InTurn'
  <2>1. Held("sensor")' = Held("sensor")
    BY <1>0 DEF Held
  <2>2. \A p \in Held("sensor"), q \in Coming : p \in Parts /\ q \in Parts
    BY DEF InOven, Coming, Held
  <2> QED BY <1>0, <1>3, <1>4, <1>5, <2>1, <2>2 DEF LineMailSame, InTurn
<1>9. InSorter'
  BY <1>0, <1>2, <1>3 DEF InSorter, Held, Sorting
<1>10. InBays'
  BY <1>0, <1>1, <1>4, <1>6, BaysStill
<1> QED BY <1>1, <1>3, <1>5, <1>6, <1>7, <1>8, <1>9, <1>10 DEF Words, LineMailSame

\* Into the bay of its colour.
LEMMA BlownOut ==
  ASSUME HandoverInv, LineInv, SldEject
  PROVE  LineInv'
<1> USE DEF HandoverInv, LineInv
<1>0. /\ sld = "CHECK_COUNT" /\ sld' = "SORTED" /\ Move("sorter", Bay(seen)) /\ OvenStill
      /\ UNCHANGED <<sldQ, sldReq, seen, mail>>
  BY DEF SldEject, SldGoes, mpoVars, OvenStill, Calm
<1>b. Bay(seen) \in Bays /\ "sorter" \notin Bays /\ {"oven", "mpo", "sensor", "sorter"} \cap Bays = {}
  BY DEF Bay, Bays
<1>p. at \in [Parts -> Places] /\ \A p \in Parts : at'[p] = IF at[p] = "sorter" THEN Bay(seen) ELSE at[p]
  BY <1>0 DEF Types, PlantOK, Move
<1>1. /\ Words' /\ Orders' /\ OrderRight' /\ TagsTrue' /\ InHands' /\ HistoryTrue'
      /\ UNCHANGED <<vgr, flow, wait, raised, mode, hist, board, asked>>
      /\ Line' = Line /\ (Burnt' <=> Burnt) => LineRight' /\ Shown'
  <2>1. \A p \in Parts : at'[p] = at[p] \/ (at[p] \in Furnace /\ at'[p] \in Furnace)
    BY <1>p, <1>b DEF Furnace
  <2> QED BY <2>1, StationRest DEF SldRuns, SldStep
<1>2. LineMailSame
  BY <1>0, QuietMail
<1>3. /\ Queued' = Queued /\ Notices' = Notices /\ Announced' = Announced /\ Sortable' = Sortable
      /\ AtSorter = {sldReq} /\ AtSorter' = {} /\ Ejected = {} /\ Ejected' = {sldReq}
  BY <1>0, <1>1, <1>2 DEF LineMailSame, Queued, Notices, Announced, Sortable, AtSorter, Ejected, Sorting
<1>4. /\ Held("sorter") = {sldReq.wp.uid} /\ seen = sldReq.wp.type
      /\ Held("sorter")' = {} /\ \A place \in {"oven", "mpo", "sensor"} : Held(place)' = Held(place)
  <2>1. Held("sorter") = {sldReq.wp.uid} /\ seen = sldReq.wp.type
    BY <1>0 DEF InSorter, Sorting
  <2> QED BY <1>p, <1>b, <2>1 DEF Held
<1>5. OvenTalk' /\ InOven' /\ Unfailing' /\ (Burnt' <=> Burnt) /\ Coming' = Coming /\ Burning' = Burning
  BY <1>0, <1>1, <1>2, <1>4, OvenRest DEF LineMailSame
<1>6. Line' = Line
  BY <1>3, <1>5 DEF Line
<1>7. NoDouble'
  <2>1. sldReq \notin Announced \cup Sortable
    <3>1. at[sldReq.wp.uid] = "sorter"
      BY <1>4 DEF Held
    <3> QED BY <1>b, <3>1, LinePlaces
  <2> QED BY <1>0, <1>1, <1>3, <2>1 DEF NoDouble
<1>8. InTurn'
  <2>1. \A p \in Held("sensor"), q \in Coming : p \in Parts /\ q \in Parts
    BY DEF InOven, Coming, Held
  <2> QED BY <1>0, <1>2, <1>3, <1>4, <1>5, <2>1 DEF LineMailSame, InTurn
<1>9. InSorter'
  BY <1>0, <1>4 DEF InSorter, Sorting
<1>10. InBays'
  <2>1. at'[sldReq.wp.uid] = Bay(sldReq.wp.type)
    BY <1>p, <1>4 DEF Held
  <2>2. \A x \in Announced \cup Sortable : at'[x.wp.uid] = at[x.wp.uid]
    <3>1. \A x \in Announced \cup Sortable : x.wp.uid \in Parts /\ at[x.wp.uid] \in Bays
      BY LinePlaces DEF Line
    <3> QED BY <1>p, <1>b, <3>1
  <2>3. \A x \in Ejected' \cup Announced' \cup Sortable' : at'[x.wp.uid] = Bay(x.wp.type)
    BY <1>3, <2>1, <2>2 DEF InBays
  <2>4. ASSUME vgr = "NFC_PRODUCED"
        PROVE  at'[flow.order.wp.uid] = Bay(flow.order.wp.type) /\ \A x \in Line : x.wp.uid # flow.order.wp.uid
    <3>1. flow.order.wp.uid \in Parts
      BY <2>4 DEF OrderRight, Served, Right, Flow, Workflow
    <3>2. at[flow.order.wp.uid] = Bay(flow.order.wp.type) /\ \A x \in Line : x.wp.uid # flow.order.wp.uid
      BY <2>4 DEF InBays
    <3>3. Bay(flow.order.wp.type) \in Bays
      BY DEF Bay, Bays
    <3> QED BY <1>p, <1>b, <3>1, <3>2, <3>3
  <2> QED BY <1>1, <1>6, <2>3, <2>4 DEF InBays
<1> QED BY <1>1, <1>2, <1>5, <1>6, <1>7, <1>8, <1>9, <1>10 DEF Words, LineMailSame

\* The robot is told.
LEMMA SorterTells ==
  ASSUME HandoverInv, LineInv, SldSorted
  PROVE  LineInv'
<1> DEFINE m == SldAck("SORTED", sldReq)
<1> USE DEF HandoverInv, LineInv
<1>0. /\ sld = "SORTED" /\ sld' = "IDLE" /\ Publish(m) /\ OvenStill /\ UNCHANGED <<sldQ, sldReq, seen, at>>
  BY DEF SldSorted, SldGoes, mpoVars, OvenStill, Handless
<1>1. /\ Words' /\ Orders' /\ OrderRight' /\ TagsTrue' /\ InHands' /\ HistoryTrue'
      /\ UNCHANGED <<vgr, flow, wait, raised, mode, hist, board, asked>>
      /\ Line' = Line /\ (Burnt' <=> Burnt) => LineRight' /\ Shown'
  BY <1>0, StationRest DEF SldRuns, SldStep
<1>2. m \in Letters /\ m.topic = "sld/ack" /\ m.code = "SORTED" /\ m.flow = sldReq
  BY Sendings DEF Types, SldOK, SldAck, Msg
<1> HIDE DEF m
<1>3. Ejected = {sldReq} /\ sldReq \notin Announced \cup Sortable
  BY <1>0 DEF Ejected, NoDouble
<1>4. /\ LineMail' /\ Produce' = Produce /\ Started' = Started /\ Noticed' = Noticed /\ Sorted' = Sorted \cup {m}
      /\ \A p, q \in Parts : Before(mail["SLD"], Naming(p), Naming(q)) => Before(mail'["SLD"], Naming(p), Naming(q))
  <2>1. MailOK /\ LineMail
    BY DEF Types
  <2> QED BY <1>0, <1>2, <1>3, <2>1, LoudPost
<1>5. /\ Queued' = Queued /\ Notices' = Notices /\ Announced' = Announced \cup {sldReq} /\ Sortable' = Sortable
      /\ AtSorter' = AtSorter /\ Ejected' = {}
  BY <1>0, <1>1, <1>2, <1>4 DEF Queued, Notices, Announced, Sortable, AtSorter, Ejected, Sorting
<1>6. OvenTalk' /\ InOven' /\ Unfailing' /\ (Burnt' <=> Burnt) /\ Coming' = Coming /\ Burning' = Burning
  BY <1>0, <1>1, <1>4, OvenRest DEF Held
<1>7. Line' = Line
  BY <1>3, <1>5, <1>6 DEF Line
<1>8. NoDouble'
  BY <1>0, <1>1, <1>3, <1>5 DEF NoDouble
<1>9. InTurn'
  <2>1. Held("sensor")' = Held("sensor")
    BY <1>0 DEF Held
  <2>2. \A p \in Held("sensor"), q \in Coming : p \in Parts /\ q \in Parts
    BY DEF InOven, Coming, Held
  <2> QED BY <1>0, <1>4, <1>5, <1>6, <2>1, <2>2 DEF InTurn
<1>10. InSorter'
  BY <1>0 DEF InSorter, Held, Sorting
<1>11. InBays'
  BY <1>0, <1>1, <1>3, <1>5, <1>7, BaysStill
<1> QED BY <1>1, <1>4, <1>6, <1>7, <1>8, <1>9, <1>10, <1>11 DEF Words

\* The sorting line keeps the invariant.
LEMMA SorterLine ==
  ASSUME HandoverInv, LineInv, SldRuns, UNCHANGED faults
  PROVE  LineInv'
<1> USE DEF HandoverInv, LineInv
<1>1. CASE SldReceive
  <2>1. PICK m \in Arrived("SLD") :
          /\ Received("SLD")
          /\ (m.topic = "ack" /\ UNCHANGED sldQ) \/ (m.topic = "mpo/ack" /\ sldQ' = Append(sldQ, m.flow))
          /\ UNCHANGED <<sld, sldReq, seen, at>> /\ OvenStill
    BY <1>1 DEF SldReceive, mpoVars, OvenStill, Handless
  <2>2. CASE m.topic = "ack"
    <3>1. LineMailSame
      <4>1. "SLD" \in Clients /\ MailOK /\ LineMail
        BY DEF Clients, Types
      <4> QED BY <2>1, <2>2, <4>1, Hearing DEF LineMailSame
    <3> QED BY <2>1, <2>2, <3>1, StationIdles DEF OvenStill
  <2>3. CASE m.topic = "mpo/ack"
    BY <2>1, <2>3, NoticeHeard
  <2> QED BY <2>1, <2>2, <2>3
<1>2. CASE SldInit
  <2>1. LineMailSame
    BY <1>2, QuietMail DEF SldInit, Calm
  <2> QED BY <1>2, <2>1, StationIdles DEF SldInit, SldGoes, mpoVars, Handless, SldRuns, SldStep
<1>3. CASE SldEnterFault \/ SldFault
  BY <1>3 DEF SldEnterFault, SldFault, SldGoes, Unfailing
<1>4. CASE SldIdle \/ SldColorDetection \/ SldEject \/ SldSorted
  BY <1>4, SorterTakes, ColourRead, BlownOut, SorterTells
<1> QED BY <1>1, <1>2, <1>3, <1>4 DEF SldRuns, SldStep

-----------------------------------------------------------------------------
(* What the robot does or hears besides its orders.                        *)

OnOrder == Fetching \cup Served \cup {"MOVE_PICKUP"}
Failing == {"NFC_REJECTED", "WRONG_COLOR", "RECYCLE_TRASH"}
Rejoined == {"NFC_RAW", "STORE_WP_VGR", "STORE_WP", "VGR_WAIT_FETCHED"}
Telling == Ordered \cup {"DSI_PICKUP_DELIVERY", "START_DELIVERY", "HBW2PICKUP", "COLOR_DETECTION", "NFC_RAW",
                         "STORE_WP_VGR", "STORE_WP"}

\* What the desk of the robot keeps while the line does not change and no
\* order moves on.
LEMMA DeskStill ==
  ASSUME HandoverInv, LineInv, UNCHANGED <<stationVars, board>>, AskedGrows, Len(asked') <= MaxRequests,
         Line' = Line, Burnt' <=> Burnt, wait'.orders = wait.orders, raised' \cap {"mpoFault", "sldFault"} = {},
         "reqOrder" \in raised' => "reqOrder" \in raised /\ vgr' = vgr,
         (vgr' = vgr /\ flow'.order = flow.order) \/ (vgr \notin OnOrder /\ vgr' \notin OnOrder), vgr' \notin Failing
  PROVE  Shown' /\ Orders' /\ OrderRight' /\ Unfailing'
<1> USE DEF LineInv
<1>1. Burnt => vgr = "START_PRODUCE" /\ vgr \in OnOrder
  BY DEF OvenTalk, OnOrder, Served
<1>2. Shown'
  <2>1. \A o \in 1 .. MaxRequests : o \notin DOMAIN asked' => board[o] = "WAITING_FOR_ORDER"
    BY DEF Shown, AskedGrows
  <2>2. /\ \A i \in DOMAIN wait'.orders : board[wait'.orders[i].uid] \in {"WAITING_FOR_ORDER", "ORDER_ACKNOWLEDGED"}
        /\ vgr' \in Fetching => board[flow'.order.uid] \in {"ORDER_ACKNOWLEDGED", "FETCHING_FROM_STORAGE"}
    BY DEF Shown, OnOrder
  <2>3. vgr' \in DOMAIN StageOf => board[flow'.order.uid] = StageOf[vgr']
    <3>1. DOMAIN StageOf \subseteq OnOrder
      BY DEF StageOf, OnOrder, Served
    <3> QED BY <3>1 DEF Shown
  <2>4. \A x \in Line : board[x.uid] = "IN_PROCESS" \/ (Burnt /\ x.uid = flow'.order.uid)
    BY <1>1 DEF Shown
  <2> QED BY <2>1, <2>2, <2>3, <2>4 DEF Shown
<1>3. Orders'
  <2>1. \A o : Fresh(o) => Fresh(o)'
    BY DEF Fresh, AskedGrows
  <2>2. vgr' \in Fetching => vgr' = vgr /\ flow'.order = flow.order
    BY DEF OnOrder
  <2> QED BY <2>1, <2>2 DEF Orders
<1>4. OrderRight'
  <2>1. \A f : Right(f) => Right(f)'
    BY DEF Right, AskedGrows
  <2>2. vgr' \in Served \cup {"MOVE_PICKUP"} => vgr' = vgr /\ flow'.order = flow.order
    BY DEF OnOrder
  <2> QED BY <2>1, <2>2 DEF OrderRight, AskedGrows
<1>5. Unfailing'
  BY DEF Unfailing, Failing, stationVars
<1> QED BY <1>2, <1>3, <1>4, <1>5

\* A step that neither shows an order nor touches one.
LEMMA Besides ==
  ASSUME HandoverInv, LineInv, LineLetters, StartKnown, UNCHANGED <<stationVars, board>>, AskedGrows,
         Len(asked') <= MaxRequests, wait'.orders = wait.orders, wait'.sorted = wait.sorted, FurnaceSame,
         raised' \cap {"mpoFault", "sldFault"} = {}, "reqOrder" \in raised' => "reqOrder" \in raised /\ vgr' = vgr,
         (vgr' = vgr /\ flow'.order = flow.order) \/ (vgr \notin OnOrder /\ vgr' \notin OnOrder), vgr' \notin Failing
  PROVE  OvenAndLine' /\ LineMail' /\ Shown' /\ Orders' /\ OrderRight' /\ Unfailing'
<1>1. OvenAndLine /\ OrderRight /\ Near \subseteq OnOrder
  BY DEF LineInv, OvenAndLine, Near, Making, OnOrder, Served
<1>2. OvenAndLine' /\ Line' = Line /\ (Burnt' <=> Burnt)
  <2>1. vgr' = vgr \/ (vgr \notin Near /\ vgr' \notin Near)
    BY <1>1
  <2>2. vgr \in Near => Flow(flow'.order) = Flow(flow.order)
    BY <1>1
  <2>3. UNCHANGED stationVars
    OBVIOUS
  <2> QED BY <1>1, <2>1, <2>2, <2>3, LineStill
<1> QED BY <1>2, DeskStill DEF LineLetters

\* What is said of workpieces stays so when the robot moves on.
LEMMA WordsGo ==
  ASSUME HandoverInv, Words, UNCHANGED <<storage, hbwVars>>, Fetched' \subseteq Fetched,
         \A p \in Parts : at[p] = "rack" => tag'[p] = tag[p],
         Stores' # {} => Stores # {} \/ Honest(hbwReq.wp)',
         "hbwFetched" \in raised' => flow'.hbw = hbwReq.wp,
         vgr' \in Rejoined =>
           \/ vgr' = vgr /\ UNCHANGED tag /\ Sent' = Sent /\ (Brought' => Brought)
              /\ flow'.store.wp = flow.store.wp /\ flow'.order = flow.order
           \/ /\ Honest(flow.store.wp)' \/ vgr' \notin {"NFC_RAW", "STORE_WP_VGR"}
                 \/ (vgr' = "NFC_RAW" /\ flow'.store.wp.type = ColourOf[flow'.store.wp.uid])
              /\ vgr' \in Waiting => hbwQ = <<>> /\ hbw \notin Begun /\ ~Brought'
              /\ vgr' = "STORE_WP" => \A m \in Sent' : Honest(m.flow.wp)'
              /\ vgr' = "VGR_WAIT_FETCHED" => \A m \in Sent' : m.flow = Flow(flow'.order)
  PROVE  Words'
<1> USE DEF HandoverInv, Words
<1>1. UNCHANGED <<wp, nextFetchPos, hbw, hbwQ, hbwReq, hbwFlag>>
  BY DEF storage, hbwVars
<1>2. \A w : Honest(w) /\ at[w.uid] = "rack" => Honest(w)'
  BY DEF Honest
<1>3. \A s \in Slots : wp[s] # Null => Honest(wp[s])'
  <2>1. ASSUME NEW s \in Slots, wp[s] # Null PROVE Honest(wp[s]) /\ at[wp[s].uid] = "rack"
    <3>1. wp[s].uid \in Parts /\ cell[s] = wp[s].uid
      BY <2>1 DEF Shelves, RackExact
    <3>2. cell[s] # NoUid
      BY <3>1, NoUidAssumption
    <3>3. at[cell[s]] = "rack"
      BY <3>2 DEF Shelves, CellsTrue
    <3>4. Honest(wp[s])
      BY <2>1 DEF RecordsHonest
    <3> QED BY <3>1, <3>3, <3>4
  <2> QED BY <1>1, <1>2, <2>1 DEF Honest
<1>4. Stores' # {} \/ ("store" \in hbwFlag /\ hbw = "STORE_WP") => Honest(hbwReq.wp)'
  <2>1. ASSUME Stores # {} \/ ("store" \in hbwFlag /\ hbw = "STORE_WP")
        PROVE  Honest(hbwReq.wp) /\ at[hbwReq.wp.uid] = "rack"
    <3>1. hbw = "STORE_WP" /\ Stocked
      BY <2>1 DEF Talk, OneClose, CloseTrue
    <3>2. nextFetchPos \in Slots
      BY <3>1 DEF Shelves, SlotOut, Out
    <3>3. hbwReq.wp.uid \in Parts /\ cell[nextFetchPos] = hbwReq.wp.uid
      BY <3>1 DEF Stocked
    <3>4. cell[nextFetchPos] # NoUid
      BY <3>3, NoUidAssumption
    <3>5. at[cell[nextFetchPos]] = "rack"
      BY <3>2, <3>4 DEF Shelves, CellsTrue
    <3>6. Honest(hbwReq.wp)
      BY <2>1 DEF RecordsHonest
    <3> QED BY <3>3, <3>5, <3>6
  <2> QED BY <1>1, <1>2, <2>1 DEF Honest
<1>5. \A m \in Fetched' : m.flow.wp = hbwReq.wp
  BY DEF FetchedAsWanted
<1>6. CASE vgr' \notin Rejoined
  <2>1. RecordsHonest'
    BY <1>1, <1>3, <1>4, <1>6 DEF RecordsHonest, Rejoined
  <2>2. FetchedAsWanted'
    BY <1>1, <1>5, <1>6 DEF FetchedAsWanted, Rejoined
  <2> QED BY <2>1, <2>2
<1>7. CASE /\ vgr' = vgr /\ UNCHANGED tag /\ Sent' = Sent /\ (Brought' => Brought)
           /\ flow'.store.wp = flow.store.wp /\ flow'.order = flow.order
  <2>1. \A w : Honest(w)' <=> Honest(w)
    BY <1>7 DEF Honest
  <2>2. RecordsHonest'
    BY <1>1, <1>3, <1>4, <1>7, <2>1 DEF RecordsHonest
  <2>3. FetchedAsWanted'
    BY <1>1, <1>5, <1>7, <2>1 DEF FetchedAsWanted, Wanted
  <2> QED BY <2>2, <2>3
<1>8. CASE /\ \/ Honest(flow.store.wp)' \/ vgr' \notin {"NFC_RAW", "STORE_WP_VGR"}
              \/ (vgr' = "NFC_RAW" /\ flow'.store.wp.type = ColourOf[flow'.store.wp.uid])
           /\ vgr' \in Waiting => hbwQ = <<>> /\ hbw \notin Begun /\ ~Brought'
           /\ vgr' = "STORE_WP" => \A m \in Sent' : Honest(m.flow.wp)'
           /\ vgr' = "VGR_WAIT_FETCHED" => \A m \in Sent' : m.flow = Flow(flow'.order)
  <2>1. RecordsHonest'
    <3>1. vgr' = "NFC_RAW" => flow'.store.wp.type = ColourOf[flow'.store.wp.uid]
      BY <1>8 DEF Honest
    <3>2. vgr' = "STORE_WP_VGR" => Honest(flow.store.wp)'
      BY <1>8
    <3> QED BY <1>1, <1>3, <1>4, <1>8, <3>1, <3>2 DEF RecordsHonest, Waiting
  <2>2. FetchedAsWanted'
    BY <1>1, <1>5, <1>8 DEF FetchedAsWanted, Waiting, Begun
  <2> QED BY <2>1, <2>2
<1> QED BY <1>6, <1>7, <1>8

\* A step that moves, tags and stamps nothing.
LEMMA HandsStill ==
  ASSUME InHands, TagsTrue, HistoryTrue, UNCHANGED <<at, tag, hist>>,
         (vgr' = vgr /\ flow'.order = flow.order) \/ vgr' \notin Telling
  PROVE  InHands' /\ TagsTrue' /\ HistoryTrue'
<1>1. \A place : Held(place)' = Held(place)
  BY DEF Held
<1>2. vgr' \notin Telling => Stamps(vgr') = {} /\ RawStamps(vgr') = {}
  BY DEF Telling, Ordered, Stamps, RawStamps
<1>3. InHands'
  BY <1>1 DEF InHands, Telling
<1>4. TagsTrue'
  BY DEF TagsTrue
<1>5. HistoryTrue'
  BY <1>1, <1>2 DEF HistoryTrue, Telling, Ordered
<1> QED BY <1>3, <1>4, <1>5

-----------------------------------------------------------------------------
(* What the robot hears.                                                   *)

\* Nothing moves at the oven.
LEMMA HandsSame ==
  ASSUME UNCHANGED at PROVE FurnaceSame
BY DEF FurnaceSame, Held

\* An order that arrives gets a number of its own.
LEMMA OrderHeard ==
  ASSUME HandoverInv, LineInv, NEW t \in Wishes, requestOrder(t), LineMailSame, UNCHANGED <<stationVars, board, vgr, flow, at>>
  PROVE  OvenAndLine' /\ LineMail' /\ Shown' /\ Orders' /\ OrderRight' /\ Unfailing'
<1> DEFINE n == Len(asked) + 1
           o == OrderState(n, Wp(NoUid, t, "RAW"), "ORDER_ACKNOWLEDGED")
<1> USE DEF HandoverInv, LineInv
<1>1. asked \in Seq(Wishes) /\ MaxRequests \in Nat
  BY TxtConstants DEF Types, RobotOK
<1>2. /\ Len(asked) < MaxRequests /\ asked' = Append(asked, t) /\ raised' = raised \cup {"reqOrder"}
      /\ wait'.orders = Append(wait.orders, o) /\ wait'.sorted = wait.sorted
  BY DEF requestOrder, Asked, Turn, Types, RobotOK, WaitOK
<1>3. /\ DOMAIN asked = 1 .. Len(asked) /\ DOMAIN asked' = 1 .. n /\ n \notin DOMAIN asked /\ n \in 1 .. MaxRequests
      /\ asked'[n] = t /\ Len(asked') = n /\ AskedGrows
  BY <1>1, <1>2 DEF AskedGrows
<1>4. wait.orders \in Seq(OrderRec)
  BY DEF Types, RobotOK, WaitOK
<1>5. /\ DOMAIN wait'.orders = DOMAIN wait.orders \cup {Len(wait.orders) + 1} /\ Len(wait.orders) + 1 \notin DOMAIN wait.orders
      /\ \A i \in DOMAIN wait.orders : wait'.orders[i] = wait.orders[i]
      /\ wait'.orders[Len(wait.orders) + 1] = o /\ wait'.orders # <<>>
  BY <1>2, <1>4
<1>6. o.uid = n /\ o.wp = Wp(NoUid, t, "RAW")
  BY DEF OrderState
<1> HIDE DEF n, o
<1>7. OvenAndLine' /\ Line' = Line /\ (Burnt' <=> Burnt)
  <2>1. OvenAndLine /\ OrderRight /\ LineLetters /\ StartKnown
    BY <1>2, SameLetters DEF OvenAndLine
  <2> QED BY <1>2, <1>3, <2>1, LineStill, HandsSame
<1>8. Orders'
  <2>1. \A r : Fresh(r) \/ (r.uid = n /\ r.wp = Wp(NoUid, t, "RAW")) => Fresh(r)'
    BY <1>3 DEF Fresh, AskedGrows
  <2>0. \A r : Fresh(r) => r.uid # n
    BY <1>3 DEF Fresh
  <2>2. \A i \in DOMAIN wait'.orders : Fresh(wait.orders[i])'
    BY <1>5, <1>6, <2>1 DEF Orders, Fresh
  <2>3. \A i, j \in DOMAIN wait'.orders : wait'.orders[i].uid = wait'.orders[j].uid => i = j
    BY <1>5, <1>6, <2>0 DEF Orders
  <2>4. vgr \in Fetching => Fresh(flow.order)' /\ \A i \in DOMAIN wait'.orders : wait'.orders[i].uid # flow.order.uid
    BY <1>5, <1>6, <2>0, <2>1 DEF Orders, Fresh
  <2> QED BY <1>1, <1>3, <1>5, <2>2, <2>3, <2>4 DEF Orders
<1>9. Shown'
  <2>1. \A u \in 1 .. MaxRequests : u \notin DOMAIN asked' => board[u] = "WAITING_FOR_ORDER"
    BY <1>3 DEF Shown
  <2>2. \A i \in DOMAIN wait'.orders : board[wait'.orders[i].uid] \in {"WAITING_FOR_ORDER", "ORDER_ACKNOWLEDGED"}
    BY <1>3, <1>5, <1>6 DEF Shown
  <2> QED BY <1>7, <2>1, <2>2 DEF Shown
<1>10. OrderRight'
  BY <1>3, RightKept DEF OrderRight, AskedGrows
<1>11. Unfailing'
  BY <1>2 DEF Unfailing, stationVars
<1> QED BY <1>7, <1>8, <1>9, <1>10, <1>11 DEF LineMailSame

\* A report of the sorting line is noted, and the workpiece stays in its bay.
LEMMA ReportHeard ==
  ASSUME HandoverInv, LineInv, NEW m \in Arrived("VGR"), Received("VGR"), m.topic = "sld/ack", requestSLDsorted(m.flow),
         UNCHANGED <<stationVars, board, asked, vgr, flow, at>>
  PROVE  OvenAndLine' /\ LineMail' /\ Shown' /\ Orders' /\ OrderRight' /\ Unfailing'
<1> DEFINE f == m.flow
           s == OrderState(f.uid, f.wp, "WAITING_FOR_ORDER")
<1> USE DEF HandoverInv, LineInv
<1>1. /\ LineMail' /\ m \in Letters /\ Produce' = Produce /\ Started' = Started
      /\ Noticed' = Noticed /\ Sorted = Sorted' \cup {m} /\ f \notin Announced'
      /\ \A p, q \in Parts : Before(mail["SLD"], Naming(p), Naming(q)) => Before(mail'["SLD"], Naming(p), Naming(q))
  <2>1. "VGR" \in Clients /\ MailOK
    BY DEF Clients, Types
  <2> QED BY <2>1, Hearing
<1>2. f \in Flows /\ f \in Announced /\ Announced = Announced' \cup {f}
  BY <1>1 DEF Letters, Announced
<1>3. asked \in Seq(Wishes) /\ wait.sorted \in Seq(OrderRec) /\ s \in OrderRec /\ Flow(s) = f
  BY <1>2 DEF Types, RobotOK, WaitOK, OrderState, OrderRec, OrderStates, Flow, Workflow, Flows
<1>4. f \in Line /\ f.uid # 0
  <2>1. f \in Line
    BY <1>2 DEF Line
  <2>2. f.uid \in DOMAIN asked
    BY <2>1 DEF LineRight, Right
  <2> QED BY <1>3, <2>1, <2>2
<1>5. /\ wait'.sorted = Append(wait.sorted, s) /\ wait'.orders = wait.orders /\ raised' = raised \cup {"sldSorted"}
  BY <1>4 DEF requestSLDsorted, Turn, Types, RobotOK, WaitOK
<1>6. /\ Sortable' = Sortable \cup {f} /\ \A x \in Flows : Once(wait'.sorted, AsOrder(x))
  <2>1. \A S : /\ Of(Append(wait.sorted, s), S) = Of(wait.sorted, S) \cup ({s} \cap S)
               /\ Once(wait.sorted, S) /\ (s \in S => Of(wait.sorted, S) = {}) => Once(Append(wait.sorted, s), S)
    BY <1>3, OfAppend
  <2>2. \A x : s \in AsOrder(x) <=> x = f
    BY <1>3 DEF AsOrder
  <2>3. Of(wait.sorted, AsOrder(f)) = {}
    BY <1>2 DEF NoDouble, Sortable
  <2>4. \A x \in Flows : Once(wait'.sorted, AsOrder(x))
    BY <1>5, <2>1, <2>2, <2>3 DEF NoDouble
  <2>5. \A x : Of(wait'.sorted, AsOrder(x)) # {} <=> Of(wait.sorted, AsOrder(x)) # {} \/ x = f
    BY <1>5, <2>1, <2>2
  <2> QED BY <1>2, <2>4, <2>5 DEF Sortable
<1> HIDE DEF s, f
<1>7. UNCHANGED <<mpo, mpoQ, mpoReq, sld, sldQ, sldReq, seen>>
  BY DEF stationVars
<1>8. /\ Queued' = Queued /\ Notices' = Notices /\ Burning' = Burning /\ AtSorter' = AtSorter /\ Ejected' = Ejected
      /\ Coming' = Coming
  BY <1>1, <1>7 DEF Queued, Notices, Burning, AtSorter, Ejected, Coming
<1>9. Line' = Line /\ (Burnt' <=> Burnt) /\ AskedGrows
  BY <1>1, <1>2, <1>5, <1>6, <1>8 DEF Line, Burnt, AskedGrows
<1>10. \A place : Held(place)' = Held(place)
  BY DEF Held
<1>11. OvenTalk' /\ InOven' /\ InSorter'
  BY <1>1, <1>5, <1>7, <1>9, <1>10 DEF OvenTalk, InOven, InSorter, Sorting
<1>12. LineRight' /\ NoDouble' /\ InBays'
  <2>1. LineRight'
    BY <1>9, RightKept DEF LineRight
  <2>2. NoDouble'
    BY <1>1, <1>2, <1>6, <1>7, <1>8 DEF NoDouble, f
  <2>3. InBays'
    BY <1>2, <1>6, <1>8, <1>9 DEF InBays
  <2> QED BY <2>1, <2>2, <2>3
<1>13. InTurn'
  <2>1. \A p \in Held("sensor"), q \in Coming : p \in Parts /\ q \in Parts
    BY DEF InOven, Coming, Held
  <2> QED BY <1>1, <1>7, <1>8, <1>10, <2>1 DEF InTurn
<1>14. Shown' /\ Orders' /\ OrderRight' /\ Unfailing'
  <2>1. Len(asked') <= MaxRequests /\ raised' \cap {"mpoFault", "sldFault"} = {} /\ vgr' \notin Failing
    BY <1>5 DEF Orders, Unfailing, Failing
  <2>2. "reqOrder" \in raised' => "reqOrder" \in raised
    BY <1>5
  <2> QED BY <1>5, <1>9, <2>1, <2>2, DeskStill
<1> QED BY <1>1, <1>11, <1>12, <1>13, <1>14 DEF OvenAndLine

\* The robot hears a message.
LEMMA HearLine ==
  ASSUME HandoverInv, LineInv, VgrReceive, UNCHANGED stationVars
  PROVE  LineInv'
<1> USE DEF HandoverInv
<1>1. PICK m \in Arrived("VGR") :
        /\ Received("VGR")
        /\ \/ m.topic = "ack" /\ UNCHANGED <<flow, wait, raised, asked>>
           \/ m.topic = "order" /\ requestOrder(m.code) /\ UNCHANGED flow
           \/ m.topic = "pickup" /\ requestPickup(m.flow.wp.uid) /\ UNCHANGED flow
           \/ m.topic = "store" /\ storeWorkpieceFromDSOIntoHBW /\ UNCHANGED flow
           \/ m.topic = "wm" /\ requestWorkingModeChange(m.code) /\ UNCHANGED <<flow, wait>>
           \/ m.topic = "mpo/ack" /\ Turn({"mpoStarted"}, {}) /\ UNCHANGED <<flow, wait, asked>>
           \/ m.topic = "mpo/fault"
           \/ m.topic = "hbw/ack" /\ requestHBWfetched(m.flow.wp) /\ UNCHANGED <<wait, asked>>
           \/ m.topic = "hbw/fault" /\ Turn({"hbwFault"}, {}) /\ UNCHANGED <<flow, wait, asked>>
           \/ m.topic = "sld/ack" /\ requestSLDsorted(m.flow) /\ UNCHANGED <<flow, asked>>
           \/ m.topic = "sld/fault"
        /\ UNCHANGED <<vgr, hist, board>> /\ UNCHANGED <<cell, at, tag>>
        /\ UNCHANGED storage /\ UNCHANGED hbwVars
  BY DEF VgrReceive, Handless, Elsewhere
<1>2. /\ "VGR" \in Clients /\ MailOK /\ EachOnce /\ asked \in Seq(Wishes) /\ FlowOK /\ WaitOK
  BY DEF Clients, Types, Talk, OneRequest, RobotOK
<1>3. /\ LineMail' /\ m \in Letters /\ Produce' = Produce /\ Noticed' = Noticed
      /\ IF m.topic = "mpo/ack" THEN Started = {m} /\ Started' = {} ELSE Started' = Started
      /\ m.topic # "sld/ack" => Sorted' = Sorted
      /\ m.topic \notin {"mpo/fault", "sld/fault"}
      /\ \A p, q \in Parts : Before(mail["SLD"], Naming(p), Naming(q)) => Before(mail'["SLD"], Naming(p), Naming(q))
  BY <1>1, <1>2, Hearing DEF LineInv
<1>4. /\ flow' = IF m.topic = "hbw/ack" THEN [flow EXCEPT !.hbw = m.flow.wp] ELSE flow
      /\ flow'.order = flow.order /\ flow'.store = flow.store
      /\ m.topic = "hbw/ack" => flow'.hbw = m.flow.wp
  BY <1>1, <1>2, <1>3 DEF requestHBWfetched, FlowOK
<1>5. /\ Sent' = Sent /\ Stores' = Stores /\ Fetched' \subseteq Fetched
      /\ m.topic = "hbw/ack" => m \in Fetched /\ Fetched' = {}
      /\ m.topic = "hbw/fault" => Fetched' = {}
  <2>1. CASE m.topic \in {"hbw/ack", "hbw/fault"}
    <3>1. m \in Answering
      BY <1>3, <2>1 DEF Answering
    <3>2. Replies = {m} /\ Replies' = {} /\ Sent' = Sent /\ Stores' = Stores
      BY <1>1, <1>2, <1>3, <3>1, Receiving
    <3> QED BY <3>2 DEF Fetched
  <2>2. CASE m.topic \notin {"hbw/ack", "hbw/fault"}
    BY <1>1, <1>2, <2>2, Silence DEF MailSame, Fetched
  <2> QED BY <2>1, <2>2
<1>6. "hbwFetched" \in raised' <=> "hbwFetched" \in raised \/ m.topic = "hbw/ack"
  BY <1>1, <1>3 DEF Turn, requestOrder, requestPickup, storeWorkpieceFromDSOIntoHBW, requestWorkingModeChange,
     requestHBWfetched, requestSLDsorted
<1>7. Words'
  <2>1. RecordsHonest /\ FetchedAsWanted
    BY DEF LineInv
  <2>2. "hbwFetched" \in raised' => flow'.hbw = hbwReq.wp
    BY <1>4, <1>5, <1>6, <2>1 DEF FetchedAsWanted
  <2>3. Brought' => Brought
    BY <1>5, <1>6 DEF Brought
  <2>4. vgr' = vgr /\ UNCHANGED tag /\ flow'.store.wp = flow.store.wp /\ UNCHANGED <<storage, hbwVars>>
    BY <1>1, <1>4
  <2> QED BY <1>4, <1>5, <2>1, <2>2, <2>3, <2>4, WordsGo DEF Words
<1>8. InHands' /\ TagsTrue' /\ HistoryTrue'
  BY <1>1, <1>4, HandsStill DEF LineInv
<1>9. OvenAndLine' /\ LineMail' /\ Shown' /\ Orders' /\ OrderRight' /\ Unfailing'
  <2>1. CASE m.topic = "order"
    <3>1. m.code \in Wishes
      BY <1>3, <2>1 DEF Letters, Wishes
    <3>2. LineMailSame
      BY <1>3, <2>1 DEF LineMailSame
    <3>3. requestOrder(m.code) /\ UNCHANGED <<board, vgr, flow, at>>
      BY <1>1, <2>1
    <3> QED BY <3>1, <3>2, <3>3, OrderHeard
  <2>2. CASE m.topic = "sld/ack"
    <3>1. requestSLDsorted(m.flow) /\ UNCHANGED <<board, asked, vgr, flow, at>>
      BY <1>1, <2>2
    <3> QED BY <1>1, <2>2, <3>1, ReportHeard
  <2>3. CASE m.topic \notin {"order", "sld/ack"}
    <3>1. \/ asked' = asked
          \/ Len(asked) < MaxRequests /\ \E r \in Wishes : asked' = Append(asked, r)
      <4>1. m.topic = "wm" => m.code \in Wishes
        BY <1>3 DEF Letters, Wishes
      <4> QED BY <1>1, <1>3, <2>3, <4>1 DEF requestPickup, storeWorkpieceFromDSOIntoHBW, requestWorkingModeChange,
                Asked, Wishes
    <3>2. AskedGrows /\ Len(asked') <= MaxRequests
      <4>1. CASE asked' = asked
        BY <4>1 DEF AskedGrows, LineInv, Orders
      <4>2. CASE Len(asked) < MaxRequests /\ \E r \in Wishes : asked' = Append(asked, r)
        <5>1. MaxRequests \in Nat
          BY TxtConstants
        <5> QED BY <1>2, <4>2, <5>1 DEF AskedGrows
      <4> QED BY <3>1, <4>1, <4>2
    <3>3. wait'.orders = wait.orders /\ wait'.sorted = wait.sorted
      BY <1>1, <1>2, <1>3, <2>3 DEF requestPickup, storeWorkpieceFromDSOIntoHBW, WaitOK, requestWorkingModeChange
    <3>4. /\ \/ raised' \subseteq raised \cup {"reqPickup", "reqStore", "changeMode", "hbwFetched", "hbwFault"}
                /\ m.topic # "mpo/ack"
             \/ m.topic = "mpo/ack" /\ raised' = raised \cup {"mpoStarted"}
          /\ raised \subseteq raised'
      BY <1>1, <1>3, <2>3 DEF Turn, requestPickup, storeWorkpieceFromDSOIntoHBW, requestWorkingModeChange,
         requestHBWfetched
    <3>5. /\ raised' \cap {"mpoFault", "sldFault"} = {} /\ ("reqOrder" \in raised' => "reqOrder" \in raised)
          /\ "mpoStarted" \in raised' <=> "mpoStarted" \in raised \/ m.topic = "mpo/ack"
      BY <3>4 DEF LineInv, Unfailing
    <3>6. LineLetters
      BY <1>3, <2>3 DEF LineLetters
    <3>7. StartKnown
      BY <1>3, <3>5 DEF StartKnown, Burnt, LineInv, OvenTalk
    <3>8. FurnaceSame /\ vgr' \notin Failing
      BY <1>1, HandsSame DEF LineInv, Unfailing, Failing
    <3> QED BY <1>1, <1>4, <3>2, <3>3, <3>5, <3>6, <3>7, <3>8, Besides
  <2> QED BY <2>1, <2>2, <2>3
<1> QED BY <1>7, <1>8, <1>9 DEF LineInv, OvenAndLine, Words

-----------------------------------------------------------------------------
(* Steps of the robot that no order and no station notices.                *)

Aloof ==
  /\ UNCHANGED <<board, asked, storage, hbwVars>> /\ wait'.orders = wait.orders /\ wait'.sorted = wait.sorted
  /\ \A p \in Parts : at'[p] = at[p] \/ (at[p] \notin Furnace /\ at'[p] \notin Furnace)
  /\ raised' \subseteq raised \cup {"storeProcessed", "trashItem", "pickupError", "storeError"}
  /\ "mpoStarted" \in raised => "mpoStarted" \in raised'
  /\ \/ vgr' = vgr /\ flow'.order = flow.order
     \/ vgr \notin OnOrder /\ vgr' \notin OnOrder /\ "reqOrder" \notin raised
  /\ flow'.hbw = flow.hbw /\ vgr' \notin Failing

\* A step of the robot that keeps what it has in hand in order.
LEMMA AloofLine ==
  ASSUME HandoverInv, LineInv, LineMailSame, UNCHANGED stationVars, Aloof, Words', InHands', TagsTrue', HistoryTrue'
  PROVE  LineInv'
<1> USE DEF LineInv, Aloof
<1>1. OvenAndLine' /\ LineMail' /\ Shown' /\ Orders' /\ OrderRight' /\ Unfailing'
  <2>1. LineLetters /\ StartKnown
    BY SameLetters
  <2>2. AskedGrows /\ Len(asked') <= MaxRequests /\ FurnaceSame
    BY DEF AskedGrows, Orders, FurnaceSame, Held
  <2>3. raised' \cap {"mpoFault", "sldFault"} = {}
    BY DEF Unfailing
  <2>4. "reqOrder" \in raised' => "reqOrder" \in raised /\ vgr' = vgr
    OBVIOUS
  <2>5. UNCHANGED <<stationVars, board>>
    OBVIOUS
  <2> QED BY <2>1, <2>2, <2>3, <2>4, <2>5, Besides
<1> QED BY <1>1 DEF OvenAndLine, Words

\* Steps that say nothing and move nothing.
LEMMA QuietStep ==
  ASSUME HandoverInv, LineInv, Aloof, UNCHANGED <<mail, stationVars, at, tag, hist>>,
         (vgr' = vgr /\ flow'.store = flow.store /\ flow'.order = flow.order) \/ vgr' \notin Telling \cup Rejoined
  PROVE  LineInv'
<1>1. LineMailSame /\ Fetched' = Fetched /\ Stores' = Stores /\ Sent' = Sent
  BY QuietMail DEF LineInv, Sent, Stores, Fetched, Replies
<1>2. Words'
  <2>1. Words /\ FetchedAsWanted
    BY DEF LineInv, Words
  <2>2. "hbwFetched" \in raised' => "hbwFetched" \in raised
    BY DEF Aloof
  <2>3. "hbwFetched" \in raised' => flow'.hbw = hbwReq.wp
    BY <2>1, <2>2 DEF FetchedAsWanted, Aloof
  <2>4. Brought' => Brought
    BY <1>1, <2>2 DEF Brought
  <2>5. vgr' \in Rejoined => vgr' = vgr /\ flow'.store = flow.store /\ flow'.order = flow.order
    OBVIOUS
  <2>7. UNCHANGED <<storage, hbwVars>> /\ UNCHANGED tag
    BY DEF Aloof
  <2>8. vgr' \in Rejoined => flow'.store.wp = flow.store.wp
    BY <2>5
  <2> QED BY <1>1, <2>1, <2>3, <2>4, <2>5, <2>7, <2>8, WordsGo
<1>3. InHands' /\ TagsTrue' /\ HistoryTrue'
  BY HandsStill DEF LineInv
<1> QED BY <1>1, <1>2, <1>3, AloofLine

\* Modes, restarts and refusals.
LEMMA QuietSteps ==
  ASSUME HandoverInv, LineInv, UNCHANGED stationVars,
         \/ VgrMode \/ VgrInit \/ VgrFault \/ IdlePickup \/ IdleStore \/ IdleErrors
         \/ (VgrWaitFetchedPickup /\ "hbwFetched" \notin raised) \/ (StoreWp /\ "hbwFault" \in raised)
  PROVE  LineInv'
<1> USE DEF HandoverInv
<1>1. UNCHANGED <<mail, at, tag, hist, board, asked>> /\ UNCHANGED storage /\ UNCHANGED hbwVars
  BY DEF VgrMode, VgrInit, VgrFault, IdlePickup, IdleStore, IdleErrors, VgrWaitFetchedPickup, StoreWp,
     Elsewhere, Handless, Desk, Calm, SetPickup, SetStore
<1>2. wait'.orders = wait.orders /\ wait'.sorted = wait.sorted
  BY DEF VgrMode, VgrInit, VgrFault, IdlePickup, IdleStore, IdleErrors, VgrWaitFetchedPickup, StoreWp, Desk,
     Types, RobotOK, WaitOK
<1>3. /\ raised' \subseteq raised \cup {"pickupError", "storeError"}
      /\ "mpoStarted" \in raised => "mpoStarted" \in raised'
  BY DEF VgrMode, VgrInit, VgrFault, IdlePickup, IdleStore, IdleErrors, VgrWaitFetchedPickup, StoreWp, Turn
<1>4. flow'.order = flow.order /\ flow'.hbw = flow.hbw /\ (VgrMode => flow'.store = flow.store)
  BY DEF VgrMode, VgrInit, VgrFault, IdlePickup, IdleStore, IdleErrors, VgrWaitFetchedPickup, StoreWp,
     SetPickup, SetStore, Types, RobotOK, FlowOK
<1>5. \/ VgrMode /\ vgr' = vgr
      \/ /\ raised \cap HeadMarks = {} /\ vgr \notin OnOrder
         /\ vgr' \in {"ENTER_IDLE", "IDLE", "FETCH_WP_VGR_PICKUP", "STORE_FROM_DSO", "ENTER_FAULT"}
  BY DEF VgrMode, VgrInit, VgrFault, IdlePickup, IdleStore, IdleErrors, VgrWaitFetchedPickup, StoreWp,
     In, Goto, OnOrder, Fetching, Served
<1>6. vgr' \notin Failing
  BY <1>5 DEF LineInv, Unfailing, Failing
<1>7. \/ VgrMode /\ vgr' = vgr
      \/ vgr \notin OnOrder /\ vgr' \notin OnOrder \cup Telling \cup Rejoined /\ "reqOrder" \notin raised
  BY <1>5 DEF OnOrder, Fetching, Served, Telling, Ordered, Rejoined, HeadMarks
<1>9. (vgr' = vgr /\ flow'.order = flow.order) \/ (vgr \notin OnOrder /\ vgr' \notin OnOrder /\ "reqOrder" \notin raised)
  BY <1>4, <1>7
<1>10. \A p \in Parts : at'[p] = at[p] \/ (at[p] \notin Furnace /\ at'[p] \notin Furnace)
  BY <1>1
<1>11. raised' \subseteq raised \cup {"storeProcessed", "trashItem", "pickupError", "storeError"}
  BY <1>3
<1>12. Aloof
  BY <1>1, <1>2, <1>3, <1>4, <1>6, <1>9, <1>10, <1>11 DEF Aloof
<1> QED BY <1>1, <1>4, <1>7, <1>12, QuietStep

\* The robot carries something between its own places.
LEMMA Carried ==
  ASSUME PlantOK, TagsTrue, HistoryTrue, UNCHANGED <<tag, hist>>, vgr' # "MOVE_PICKUP_WAIT",
         NEW from, NEW to \in {"gripper", "dso", "gone"}, Move(from, to), from \notin Furnace,
         IF to = "gripper"
         THEN /\ Held("gripper") = {} /\ Stamps(vgr') = {} /\ from # "gripper"
              /\ \A p \in Held(from) : tag[p].state = "RAW" => RawStamps(vgr') \subseteq hist[p]
         ELSE from = "gripper" /\ (to = "dso" => \A p \in Held(from) : tag[p].state = "RAW" => Delivered \subseteq hist[p])
  PROVE  /\ TagsTrue' /\ HistoryTrue' /\ Held("gripper")' = IF to = "gripper" THEN Held(from) ELSE {}
         /\ \A p \in Parts : at'[p] = at[p] \/ (at[p] \notin Furnace /\ at'[p] \notin Furnace)
<1>1. \A p \in Parts : at'[p] = IF at[p] = from THEN to ELSE at[p]
  BY DEF Move
<1>2. to \notin Furnace
  BY DEF Furnace, Bays
<1>3. Held("gripper")' = IF to = "gripper" THEN Held(from) ELSE {}
  BY <1>1 DEF Held
<1>4. TagsTrue'
  BY DEF TagsTrue
<1>5. ASSUME NEW p \in Parts
      PROVE  /\ "PROCESSING_MILLING" \notin hist[p]
             /\ at'[p] \in {"outside", "dsi"} => tag[p].state # "RAW"
             /\ at'[p] \in {"rack", "dso"} /\ tag[p].state = "RAW" => Delivered \subseteq hist[p]
             /\ at'[p] \in Furnace => Sawn \subseteq hist[p]
             /\ at'[p] = "gripper" => Stamps(vgr') \subseteq hist[p] /\ (tag[p].state = "RAW" => RawStamps(vgr') \subseteq hist[p])
  BY <1>1, <1>2 DEF HistoryTrue, Held
<1>6. HistoryTrue'
  BY <1>5 DEF HistoryTrue
<1> QED BY <1>1, <1>2, <1>3, <1>4, <1>6

\* Steps that say nothing, taken while the rack has nothing to say.
LEMMA MovingStep ==
  ASSUME HandoverInv, LineInv, Aloof, UNCHANGED <<mail, stationVars>>, InHands', TagsTrue', HistoryTrue',
         \A p \in Parts : at[p] = "rack" => tag'[p] = tag[p], vgr \notin Waiting, vgr' \notin Waiting,
         vgr' = "NFC_RAW" => flow'.store.wp.type = ColourOf[flow'.store.wp.uid],
         vgr' = "STORE_WP_VGR" => Honest(flow.store.wp)'
  PROVE  LineInv'
<1>1. LineMailSame /\ Fetched' = Fetched /\ Stores' = Stores /\ Sent' = Sent
  BY QuietMail DEF LineInv, Sent, Stores, Fetched, Replies
<1>2. hbwQ = <<>> /\ hbw \notin Begun /\ Fetched = {} /\ "hbwFetched" \notin raised
  BY Resting DEF HandoverInv, Talk
<1>3. "hbwFetched" \notin raised' /\ ~Brought'
  BY <1>1, <1>2 DEF Aloof, Brought
<1>4. Words /\ UNCHANGED <<storage, hbwVars>>
  BY DEF LineInv, Words, Aloof
<1>5. Words'
  <2>1. vgr' \in Rejoined => vgr' \in {"NFC_RAW", "STORE_WP_VGR"}
    BY DEF Rejoined, Waiting
  <2>2. vgr' \in Waiting => hbwQ = <<>> /\ hbw \notin Begun /\ ~Brought'
    OBVIOUS
  <2>3. Fetched' \subseteq Fetched /\ (Stores' # {} => Stores # {})
    BY <1>1
  <2>4. vgr' # "STORE_WP" /\ vgr' # "VGR_WAIT_FETCHED"
    BY DEF Waiting
  <2>5. \/ Honest(flow.store.wp)' \/ vgr' \notin {"NFC_RAW", "STORE_WP_VGR"}
        \/ (vgr' = "NFC_RAW" /\ flow'.store.wp.type = ColourOf[flow'.store.wp.uid])
    OBVIOUS
  <2> QED BY <1>3, <1>4, <2>2, <2>3, <2>4, <2>5, WordsGo
<1> QED BY <1>1, <1>5, AloofLine

\* The robot picks up, puts down or comes to rest.
LEMMA CarryingSteps ==
  ASSUME HandoverInv, LineInv, UNCHANGED stationVars,
         EnterIdle \/ EnterFault \/ DsiPickupDelivery \/ Pickup2Delivery \/ StoreFromDso \/ Hbw2Pickup \/ IdleDelivery
  PROVE  LineInv'
<1> USE DEF HandoverInv
<1>1. UNCHANGED <<mail, tag, hist, board, asked, wait>> /\ UNCHANGED storage /\ UNCHANGED hbwVars
  BY DEF EnterIdle, EnterFault, DsiPickupDelivery, Pickup2Delivery, StoreFromDso, Hbw2Pickup, IdleDelivery,
     Elsewhere, Handless, Desk, Calm, SetPickup, SetStore
<1>2. raised' \subseteq raised \cup {"storeProcessed"} /\ ("mpoStarted" \in raised => "mpoStarted" \in raised')
  BY DEF EnterIdle, EnterFault, DsiPickupDelivery, Pickup2Delivery, StoreFromDso, Hbw2Pickup, IdleDelivery, Turn
<1>3. flow'.hbw = flow.hbw
  BY DEF EnterIdle, EnterFault, DsiPickupDelivery, Pickup2Delivery, StoreFromDso, Hbw2Pickup, IdleDelivery,
     SetPickup, SetStore, Types, RobotOK, FlowOK
<1>4. /\ raised \cap HeadMarks = {}
      /\ vgr \in {"ENTER_IDLE", "ENTER_FAULT", "IDLE", "DSI_PICKUP_DELIVERY", "PICKUP2DELIVERY", "STORE_FROM_DSO", "HBW2PICKUP"}
      /\ vgr' \in {"IDLE", "FAULT", "START_DELIVERY", "ENTER_IDLE", "DSI_PICKUP_DELIVERY"}
  BY DEF EnterIdle, EnterFault, DsiPickupDelivery, Pickup2Delivery, StoreFromDso, Hbw2Pickup, IdleDelivery, In, Goto
<1>5. /\ vgr \notin OnOrder \cup Waiting /\ vgr' \notin OnOrder \cup Waiting \cup Failing \cup {"NFC_RAW", "STORE_WP_VGR"}
      /\ "reqOrder" \notin raised /\ vgr' # "MOVE_PICKUP_WAIT" /\ Stamps(vgr') = {}
  BY <1>4 DEF OnOrder, Fetching, Served, Waiting, Failing, HeadMarks, Stamps
<1>6. /\ InHands' /\ TagsTrue' /\ HistoryTrue'
      /\ \A p \in Parts : at'[p] = at[p] \/ (at[p] \notin Furnace /\ at'[p] \notin Furnace)
  <2>1. PlantOK /\ InHands /\ TagsTrue /\ HistoryTrue /\ {"gripper", "dsi", "dso"} \cap Furnace = {}
    BY DEF Types, LineInv, Furnace, Bays
  <2>2. CASE EnterIdle \/ EnterFault
    <3>1. Move("gripper", "gone") /\ vgr' \in {"IDLE", "FAULT"}
      BY <2>2 DEF EnterIdle, EnterFault, Drops, Goto
    <3>2. /\ TagsTrue' /\ HistoryTrue'
          /\ \A p \in Parts : at'[p] = at[p] \/ (at[p] \notin Furnace /\ at'[p] \notin Furnace)
      BY <1>1, <1>5, <2>1, <3>1, Carried
    <3> QED BY <3>1, <3>2 DEF InHands, Ordered
  <2>3. CASE Hbw2Pickup
    <3>1. Move("gripper", "dso") /\ vgr' = "ENTER_IDLE" /\ vgr = "HBW2PICKUP"
      BY <2>3 DEF Hbw2Pickup, In, Goto
    <3>2. \A p \in Held("gripper") : tag[p].state = "RAW" => Delivered \subseteq hist[p]
      BY <2>1, <3>1 DEF HistoryTrue, RawStamps, Held
    <3>3. /\ TagsTrue' /\ HistoryTrue'
          /\ \A p \in Parts : at'[p] = at[p] \/ (at[p] \notin Furnace /\ at'[p] \notin Furnace)
      BY <1>1, <1>5, <2>1, <3>1, <3>2, Carried
    <3> QED BY <3>1, <3>3 DEF InHands, Ordered
  <2>4. CASE DsiPickupDelivery
    <3>1. Move("dsi", "gripper") /\ vgr' = "START_DELIVERY" /\ vgr = "DSI_PICKUP_DELIVERY"
      BY <2>4 DEF DsiPickupDelivery, In, Goto
    <3>2. Held("gripper") = {} /\ Held("dsi") # {} /\ \A p \in Held("dsi") : tag[p].state # "RAW"
      BY <2>1, <3>1 DEF InGripper, Loaded, InHands, HistoryTrue, Held
    <3>3. /\ TagsTrue' /\ HistoryTrue' /\ Held("gripper")' = Held("dsi")
          /\ \A p \in Parts : at'[p] = at[p] \/ (at[p] \notin Furnace /\ at'[p] \notin Furnace)
      BY <1>1, <1>5, <2>1, <3>1, <3>2, Carried
    <3> QED BY <3>1, <3>2, <3>3 DEF InHands, Ordered
  <2>5. CASE Pickup2Delivery \/ (StoreFromDso /\ ~is_DOUT)
    <3>1. Move("dso", "gripper") /\ vgr' = "START_DELIVERY" /\ Held("dso") # {} /\ vgr \notin Loaded
      BY <2>5 DEF Pickup2Delivery, StoreFromDso, In, Goto, is_DOUT, Loaded
    <3>2. Held("gripper") = {} /\ \A p \in Held("dso") : tag[p].state = "RAW" => RawStamps(vgr') \subseteq hist[p]
      BY <2>1, <3>1 DEF InGripper, HistoryTrue, Held, RawStamps
    <3>3. /\ TagsTrue' /\ HistoryTrue' /\ Held("gripper")' = Held("dso")
          /\ \A p \in Parts : at'[p] = at[p] \/ (at[p] \notin Furnace /\ at'[p] \notin Furnace)
      BY <1>1, <1>5, <2>1, <3>1, <3>2, Carried
    <3> QED BY <3>1, <3>3 DEF InHands, Ordered
  <2>6. CASE StoreFromDso /\ is_DOUT
    <3>1. UNCHANGED at /\ vgr' = "ENTER_IDLE"
      BY <2>6 DEF StoreFromDso, Goto
    <3>2. vgr' \notin Telling
      BY <3>1 DEF Telling, Ordered
    <3> QED BY <1>1, <2>1, <3>1, <3>2, HandsStill
  <2>7. CASE IdleDelivery
    <3>1. UNCHANGED at /\ vgr' = "DSI_PICKUP_DELIVERY" /\ Held("dsi") # {}
      BY <2>7 DEF IdleDelivery, Goto, Handless, is_DIN
    <3>2. RawStamps(vgr') = {}
      BY <3>1 DEF RawStamps
    <3>3. Held("dsi")' = Held("dsi")
      BY <3>1 DEF Held
    <3>4. InHands' /\ TagsTrue'
      BY <1>1, <2>1, <3>1, <3>3 DEF InHands, TagsTrue, Ordered
    <3>5. HistoryTrue'
      BY <1>1, <1>5, <2>1, <3>1, <3>2 DEF HistoryTrue
    <3> QED BY <3>1, <3>4, <3>5
  <2> QED BY <2>2, <2>3, <2>4, <2>5, <2>6, <2>7
<1>7. Aloof
  <2>1. raised' \subseteq raised \cup {"storeProcessed", "trashItem", "pickupError", "storeError"}
    BY <1>2
  <2> QED BY <1>1, <1>2, <1>3, <1>5, <1>6, <2>1 DEF Aloof
<1> QED BY <1>1, <1>5, <1>6, <1>7, MovingStep

\* The delivery is inspected: its tag, its colour, its tag again.
LEMMA Inspecting ==
  ASSUME HandoverInv, LineInv, UNCHANGED <<stationVars, faults>>, StartDelivery \/ ColorDetection \/ NfcRaw,
         InHands', TagsTrue', HistoryTrue', UNCHANGED at, \A p \in Parts : at[p] = "rack" => tag'[p] = tag[p],
         vgr' \in {"STORE_WP_VGR", "COLOR_DETECTION", "NFC_RAW"},
         vgr' = "NFC_RAW" => flow'.store.wp.type = ColourOf[flow'.store.wp.uid],
         vgr' = "STORE_WP_VGR" => Honest(flow.store.wp)', UNCHANGED <<mail, board, asked, wait, raised>>,
         flow'.order = flow.order, flow'.hbw = flow.hbw
  PROVE  LineInv'
<1>1. UNCHANGED storage /\ UNCHANGED hbwVars /\ vgr \in {"START_DELIVERY", "COLOR_DETECTION", "NFC_RAW"}
      /\ raised \cap HeadMarks = {}
  BY DEF StartDelivery, ColorDetection, NfcRaw, In, Elsewhere
<1>2. /\ vgr \notin OnOrder \cup Waiting /\ vgr' \notin OnOrder \cup Waiting \cup Failing /\ "reqOrder" \notin raised
  BY <1>1 DEF OnOrder, Fetching, Served, Waiting, Failing, HeadMarks
<1>3. Aloof
  BY <1>1, <1>2 DEF Aloof
<1> QED BY <1>2, <1>3, MovingStep

\* The tag of a delivered workpiece is read.
LEMMA TagRead ==
  ASSUME HandoverInv, LineInv, UNCHANGED <<stationVars, faults>>, StartDelivery
  PROVE  LineInv'
<1> DEFINE p == ReadUID
           read == Wp(p, tag[p].type, tag[p].state)
<1> USE DEF HandoverInv
<1>1. In("START_DELIVERY") /\ vgr = "START_DELIVERY" /\ InHands /\ TagsTrue /\ HistoryTrue /\ FlowOK
  BY DEF StartDelivery, In, LineInv, Types, RobotOK
<1>2. p \in Parts /\ Held("gripper") = {p} /\ p # NoUid
  <2>1. Held("gripper") # {}
    BY <1>1 DEF InHands
  <2>2. p \in Held("gripper") /\ p \in Parts
    BY <2>1 DEF ReadUID, Held
  <2> QED BY <2>2, NoUidAssumption DEF InGripper, One
<1>3. ~Misread
  BY NoMisread
<1>4. /\ SetStore(With([NoStore EXCEPT !.state = "STORE_ACKNOWLEDGED"], read)) /\ UNCHANGED raised
      /\ IF "storeProcessed" \in raised /\ read.state # "NONE" /\ read.type # "NONE"
           THEN vgr' = "STORE_WP_VGR" /\ UNCHANGED hist
           ELSE vgr' = "COLOR_DETECTION" /\ hist' = [hist EXCEPT ![p] = {"DELIVERY_RAW"}]
      /\ UNCHANGED <<at, tag, mail, asked, wait>>
  BY <1>2, <1>3 DEF StartDelivery, Handless, Desk, Calm, Goto
<1>5. /\ flow'.store.wp = read /\ flow'.order = flow.order /\ flow'.hbw = flow.hbw /\ UNCHANGED board
      /\ read.uid = p /\ read.type = tag[p].type /\ read.state = tag[p].state
  BY <1>1, <1>4 DEF SetStore, With, FlowOK, Wp
<1> HIDE DEF p, read
<1>6. InHands' /\ TagsTrue'
  BY <1>1, <1>4 DEF InHands, TagsTrue, Ordered
<1>7. hist \in [Parts -> SUBSET HistoryIndex] /\ at[p] = "gripper" /\ "gripper" \notin Furnace
  BY <1>2 DEF Types, RobotOK, Held, Furnace, Bays
<1>8. HistoryTrue'
  <2>1. ASSUME NEW q \in Parts, q # p PROVE hist'[q] = hist[q] /\ at[q] # "gripper"
    BY <1>2, <1>4, <1>7, <2>1 DEF Held
  <2>2. CASE vgr' = "STORE_WP_VGR"
    <3>1. UNCHANGED hist /\ Stamps(vgr') = {} /\ RawStamps(vgr') \subseteq RawStamps("START_DELIVERY")
      BY <1>4, <2>2 DEF Stamps, RawStamps, Delivered
    <3> QED BY <1>1, <1>4, <2>1, <2>2, <3>1 DEF HistoryTrue
  <2>3. CASE vgr' = "COLOR_DETECTION"
    <3>1. hist'[p] = {"DELIVERY_RAW"} /\ Stamps(vgr') = {"DELIVERY_RAW"} /\ RawStamps(vgr') = {}
      BY <1>2, <1>4, <1>7, <2>3 DEF Stamps, RawStamps
    <3> QED BY <1>1, <1>4, <1>7, <2>1, <2>3, <3>1 DEF HistoryTrue
  <2> QED BY <1>4, <2>2, <2>3
<1>9. vgr' = "STORE_WP_VGR" => Honest(flow.store.wp)'
  <2>1. vgr' = "STORE_WP_VGR" => tag[p].type = ColourOf[p]
    BY <1>2, <1>4, <1>5, <1>1 DEF TagsTrue
  <2> QED BY <1>2, <1>4, <1>5, <2>1 DEF Honest
<1> QED BY <1>4, <1>5, <1>6, <1>8, <1>9, Inspecting

\* Its colour is read.
LEMMA ColourSeen ==
  ASSUME HandoverInv, LineInv, UNCHANGED <<stationVars, faults>>, ColorDetection
  PROVE  LineInv'
<1> DEFINE u == flow.store.wp.uid
<1> USE DEF HandoverInv
<1>1. vgr = "COLOR_DETECTION" /\ InHands /\ TagsTrue /\ HistoryTrue /\ FlowOK /\ ~Misread
  BY NoMisread DEF ColorDetection, In, LineInv, Types, RobotOK
<1>2. Held("gripper") = {u}
  BY <1>1 DEF InGripper, Identified
<1>3. u \in Parts
  BY <1>2 DEF Held
<1>4. /\ hist' = [hist EXCEPT ![u] = @ \cup {"INSPECTION"}] /\ vgr' = "NFC_RAW"
      /\ flow' = [flow EXCEPT !.store.wp.type = ColourOf[u], !.store.state = "IDENTIFICATION", !.seen = ColourOf[u]]
      /\ UNCHANGED <<at, tag, mail, asked, wait, raised, board>>
  BY <1>1, <1>3 DEF ColorDetection, Handless, Desk, Calm, Goto, Stamp
<1>5. flow'.store.wp.type = ColourOf[u] /\ flow'.store.wp.uid = u /\ flow'.order = flow.order /\ flow'.hbw = flow.hbw
  BY <1>1, <1>4 DEF FlowOK, StoreRec, Workpiece
<1> HIDE DEF u
<1>6. InHands' /\ TagsTrue'
  BY <1>1, <1>4 DEF InHands, TagsTrue, Ordered
<1>7. hist \in [Parts -> SUBSET HistoryIndex] /\ at[u] = "gripper" /\ "gripper" \notin Furnace
  BY <1>2 DEF Types, RobotOK, Held, Furnace, Bays
<1>8. HistoryTrue'
  <2>1. ASSUME NEW q \in Parts, q # u PROVE hist'[q] = hist[q] /\ at[q] # "gripper"
    BY <1>2, <1>4, <1>7, <2>1 DEF Held
  <2>2. hist'[u] = hist[u] \cup {"INSPECTION"}
    BY <1>3, <1>4, <1>7
  <2>3. Stamps(vgr') \subseteq hist'[u] /\ RawStamps(vgr') = {}
    BY <1>1, <1>3, <1>4, <1>7, <2>2 DEF HistoryTrue, Stamps, RawStamps
  <2> QED BY <1>1, <1>4, <1>7, <2>1, <2>2, <2>3 DEF HistoryTrue
<1> QED BY <1>4, <1>5, <1>6, <1>8, Inspecting

\* Its tag is written.
LEMMA TagWritten ==
  ASSUME HandoverInv, LineInv, UNCHANGED <<stationVars, faults>>, NfcRaw
  PROVE  LineInv'
<1> DEFINE u == flow.store.wp.uid
           new == [type |-> flow.store.wp.type, state |-> "RAW"]
<1> USE DEF HandoverInv
<1>1. vgr = "NFC_RAW" /\ InHands /\ TagsTrue /\ HistoryTrue /\ FlowOK /\ ~Misread
  BY NoMisread DEF NfcRaw, In, LineInv, Types, RobotOK
<1>2. Held("gripper") = {u} /\ flow.store.wp.type = ColourOf[u]
  BY <1>1 DEF InGripper, Identified, LineInv, RecordsHonest
<1>3. u \in Parts
  BY <1>2 DEF Held
<1>4. /\ tag' = [p \in Parts |-> IF p = u THEN new ELSE tag[p]] /\ vgr' = "STORE_WP_VGR"
      /\ SetStore([flow.store EXCEPT !.wp.state = "RAW"])
      /\ UNCHANGED <<at, hist, mail, asked, wait, raised, board>>
  BY <1>1, <1>2 DEF NfcRaw, Desk, Calm, Goto, Written, SetStore
<1>5. flow'.store.wp = [flow.store.wp EXCEPT !.state = "RAW"] /\ flow'.order = flow.order /\ flow'.hbw = flow.hbw
  BY <1>1, <1>4 DEF FlowOK, StoreRec, SetStore
<1>6. new.type = ColourOf[u] /\ new.state = "RAW"
  BY <1>2
<1> HIDE DEF u, new
<1>7. InHands' /\ TagsTrue'
  BY <1>1, <1>3, <1>4, <1>6 DEF InHands, TagsTrue, Ordered
<1>8. at[u] = "gripper" /\ "gripper" \notin Furnace
  BY <1>2 DEF Held, Furnace, Bays
<1>9. HistoryTrue'
  <2>1. ASSUME NEW q \in Parts, q # u PROVE tag'[q] = tag[q] /\ at[q] # "gripper"
    BY <1>2, <1>4, <2>1 DEF Held
  <2>2. Stamps(vgr') = {} /\ RawStamps(vgr') \subseteq Stamps("NFC_RAW")
    BY <1>4 DEF Stamps, RawStamps
  <2> QED BY <1>1, <1>3, <1>4, <1>8, <2>1, <2>2 DEF HistoryTrue
<1>10. Honest(flow.store.wp)'
  <2>1. flow'.store.wp.uid = u /\ flow'.store.wp.type = ColourOf[u] /\ flow'.store.wp.state = "RAW" /\ tag'[u] = new
    BY <1>1, <1>2, <1>3, <1>4, <1>5 DEF FlowOK, StoreRec, Workpiece, u
  <2> QED BY <1>3, <1>6, <2>1 DEF Honest
<1>11. \A p \in Parts : at[p] = "rack" => tag'[p] = tag[p]
  BY <1>4, <1>8
<1> QED BY <1>4, <1>5, <1>7, <1>9, <1>10, <1>11, Inspecting

-----------------------------------------------------------------------------
(* The robot asks the rack for itself, or the factory for one more.        *)

\* What the robot sends to the rack or reports to the customer is none of
\* the letters of the line.
LEMMA RobotPosts ==
  ASSUME HandoverInv, LineInv, NEW m \in Letters, Publish(m), m.topic \in {"vgr/do", "order"},
         m.topic = "vgr/do" => m.code # "PRODUCE"
  PROVE  /\ LineMailSame /\ Fetched' = Fetched
         /\ Sent' = Sent \cup ({m} \cap Requesting) /\ Stores' = Stores \cup ({m} \cap Storing)
<1>1. MailOK /\ EachOnce /\ LineMail
  BY DEF HandoverInv, Types, Talk, OneRequest, LineInv
<1>2. LineMailSame
  BY <1>1, QuietPost
<1>3. /\ Sent' = Sent \cup ({m} \cap Requesting) /\ Stores' = Stores \cup ({m} \cap Storing)
      /\ Replies' = Replies \cup ({m} \cap Answering)
  BY <1>1, Posting
<1>4. m \notin Answering
  BY DEF Answering
<1>5. Replies' = Replies
  BY <1>3, <1>4
<1> QED BY <1>2, <1>3, <1>5 DEF Fetched

\* Steps that only say something, taken while the rack has nothing to say.
LEMMA TellingStep ==
  ASSUME HandoverInv, LineInv, Aloof, UNCHANGED <<stationVars, at, tag, hist>>, NEW m \in Letters, Publish(m),
         m.topic \in {"vgr/do", "order"}, m.code \notin {"PRODUCE", "STORE_WP"}, vgr \notin Waiting,
         vgr' \notin Telling \cup Rejoined \/ (vgr' = "STORE_WP" /\ Honest(m.flow.wp) /\ Held("gripper") # {} /\
           \A p \in Held("gripper") : tag[p].state = "RAW" => RawStamps("STORE_WP") \subseteq hist[p])
  PROVE  LineInv'
<1>1. /\ LineMailSame /\ Fetched' = Fetched /\ Sent' = Sent \cup ({m} \cap Requesting) /\ Stores' = Stores \cup ({m} \cap Storing)
  BY RobotPosts
<1>2. Sent = {} /\ hbwQ = <<>> /\ hbw \notin Begun /\ Fetched = {} /\ "hbwFetched" \notin raised
  BY Resting DEF HandoverInv, Talk
<1>3. "hbwFetched" \notin raised' /\ ~Brought' /\ Sent' \subseteq {m} /\ Stores' = Stores
  BY <1>1, <1>2 DEF Aloof, Brought, Storing
<1>4. Words /\ UNCHANGED <<storage, hbwVars>>
  BY DEF LineInv, Words, Aloof
<1>5. Words'
  <2>1. Honest(m.flow.wp) => Honest(m.flow.wp)'
    BY DEF Honest
  <2>2. vgr' \in Rejoined => vgr' = "STORE_WP" /\ Honest(m.flow.wp)'
    BY <2>1
  <2>3. vgr' \in Rejoined => \A n \in Sent' : Honest(n.flow.wp)'
    BY <1>3, <2>2
  <2>4. /\ Fetched' \subseteq Fetched /\ (Stores' # {} => Stores # {})
        /\ \A p \in Parts : at[p] = "rack" => tag'[p] = tag[p]
    BY <1>1, <1>3
  <2>5. "hbwFetched" \in raised' => flow'.hbw = hbwReq.wp
    BY <1>3
  <2> QED BY <1>2, <1>3, <1>4, <2>2, <2>3, <2>4, <2>5, WordsGo
<1>6. InHands' /\ TagsTrue' /\ HistoryTrue'
  <2>1. InHands /\ TagsTrue /\ HistoryTrue
    BY DEF LineInv
  <2>2. CASE vgr' \notin Telling
    BY <2>1, <2>2, HandsStill
  <2>3. CASE vgr' \in Telling
    <3>1. vgr' = "STORE_WP" /\ Stamps(vgr') = {}
      BY <2>3 DEF Stamps
    <3>2. InHands' /\ TagsTrue'
      BY <2>1, <3>1 DEF InHands, TagsTrue, Ordered
    <3>3. HistoryTrue'
      BY <2>1, <2>3, <3>1 DEF HistoryTrue, Held
    <3> QED BY <3>2, <3>3
  <2> QED BY <2>2, <2>3
<1> QED BY <1>1, <1>5, <1>6, AloofLine

\* The robot asks for a container or for one more order.
LEMMA AskingSteps ==
  ASSUME HandoverInv, LineInv, UNCHANGED stationVars, OrderWp \/ FetchWpVgrPickup \/ StoreWpVgr
  PROVE  LineInv'
<1> USE DEF HandoverInv
<1>1. /\ UNCHANGED <<at, tag, hist, board, asked, wait, raised>> \/ StoreWpVgr
      /\ raised \cap HeadMarks = {} /\ UNCHANGED storage /\ UNCHANGED hbwVars
  BY DEF OrderWp, FetchWpVgrPickup, StoreWpVgr, Elsewhere, Handless, Desk, SetPickup, In
<1>2. FlowOK /\ InHands /\ HistoryTrue
  BY DEF Types, RobotOK, LineInv
<1>3. StoreWpVgr =>
        /\ vgr' = "STORE_WP" /\ UNCHANGED <<at, tag, hist, board, asked, wait, raised>> /\ vgr = "STORE_WP_VGR"
        /\ flow' = [flow EXCEPT !.store = [StoreIs("STORING") EXCEPT !.wp.type = flow.seen]]
        /\ Publish(VgrDo("FETCHCONTAINER", Flow(flow.store)))
  BY DEF StoreWpVgr, Desk, In, InGripper, Goto, SetStore
<1>4. flow'.order = flow.order /\ flow'.hbw = flow.hbw
  BY <1>2, <1>3 DEF OrderWp, FetchWpVgrPickup, SetPickup, FlowOK
<1>5. /\ vgr \in {"ORDER_WP", "FETCH_WP_VGR_PICKUP", "STORE_WP_VGR"}
      /\ vgr' \in {"ENTER_IDLE", "VGR_WAIT_FETCHED_PICKUP"} \/ (vgr' = "STORE_WP" /\ StoreWpVgr)
  BY <1>3 DEF OrderWp, FetchWpVgrPickup, In, Goto
<1>6. /\ vgr \notin OnOrder \cup Waiting /\ vgr' \notin OnOrder \cup Failing /\ "reqOrder" \notin raised
      /\ vgr' \notin Telling \cup Rejoined \/ (vgr' = "STORE_WP" /\ StoreWpVgr)
  BY <1>1, <1>5 DEF OnOrder, Fetching, Served, Waiting, Failing, HeadMarks, Telling, Ordered, Rejoined
<1>7. Aloof
  BY <1>1, <1>3, <1>4, <1>6 DEF Aloof
<1>8. PICK m \in Letters : /\ Publish(m) /\ m.topic \in {"vgr/do", "order"} /\ m.code \notin {"PRODUCE", "STORE_WP"}
                           /\ StoreWpVgr => m.flow = Flow(flow.store)
  <2>1. /\ OrderMsg(flow.store.wp.type) \in Letters /\ VgrDo("FETCH_WP", Flow(flow.pickup)) \in Letters
        /\ VgrDo("FETCHCONTAINER", Flow(flow.store)) \in Letters
    <3>1. flow.store.wp.type \in Kinds
      BY <1>2 DEF FlowOK, StoreRec, Workpiece, Kinds
    <3> QED BY <1>2, <3>1, Rewritten, Sendings DEF RackCodes, ReqCodes
  <2>2. flow.store.wp.type \notin {"PRODUCE", "STORE_WP"}
    BY <1>2 DEF FlowOK, StoreRec, Workpiece, Colours
  <2>3. CASE StoreWpVgr
    BY <1>3, <2>1, <2>3 DEF VgrDo, Msg
  <2>4. CASE ~StoreWpVgr /\ OrderWp
    BY <2>1, <2>2, <2>4 DEF OrderWp, OrderMsg, Msg
  <2>5. CASE ~StoreWpVgr /\ FetchWpVgrPickup
    BY <2>1, <2>5 DEF FetchWpVgrPickup, VgrDo, Msg
  <2> QED BY <2>3, <2>4, <2>5
<1>9. StoreWpVgr => /\ Honest(m.flow.wp) /\ Held("gripper") # {}
                    /\ \A p \in Held("gripper") : tag[p].state = "RAW" => RawStamps("STORE_WP") \subseteq hist[p]
  <2>1. SUFFICES ASSUME StoreWpVgr PROVE /\ Honest(m.flow.wp) /\ Held("gripper") # {}
                    /\ \A p \in Held("gripper") : tag[p].state = "RAW" => RawStamps("STORE_WP") \subseteq hist[p]
    OBVIOUS
  <2>2. m.flow.wp = flow.store.wp /\ Honest(flow.store.wp) /\ Held("gripper") # {}
    BY <1>3, <1>8, <2>1 DEF Flow, Workflow, LineInv, RecordsHonest, InGripper, Identified
  <2>3. RawStamps("STORE_WP") = RawStamps("STORE_WP_VGR")
    BY DEF RawStamps
  <2> QED BY <1>2, <1>3, <2>1, <2>2, <2>3 DEF HistoryTrue, Held
<1>10. UNCHANGED <<at, tag, hist>>
  BY <1>1, <1>3
<1> QED BY <1>6, <1>7, <1>8, <1>9, <1>10, TellingStep

-----------------------------------------------------------------------------
(* The robot and the tray of the rack.                                     *)

\* What is taken off the tray is what the rack has told.
LEMMA OffTray ==
  ASSUME HandoverInv, "hbwFetched" \in raised, TakeFromTray, vgr # "STORE_WP"
  PROVE  /\ flow.hbw.uid \in Parts /\ at[flow.hbw.uid] = "rack" /\ flow.hbw.uid = hbwReq.wp.uid
         /\ Held("gripper") = {} /\ Held("gripper")' = {flow.hbw.uid}
         /\ \A p \in Parts : at'[p] = IF p = flow.hbw.uid THEN "gripper" ELSE at[p]
         /\ \A place : place \notin {"rack", "gripper"} => Held(place)' = Held(place)
<1> USE DEF HandoverInv
<1>1. hbw = "FETCH_WP_WAIT" /\ Stocked /\ vgr \in Waiting /\ flow.hbw.uid = hbwReq.wp.uid
  BY ToldFetched
<1>2. nextFetchPos \in Slots /\ tray = nextFetchPos
  BY <1>1 DEF Shelves, SlotOut, Out
<1>3. cell[tray] = flow.hbw.uid /\ flow.hbw.uid \in Parts
  BY <1>1, <1>2 DEF Stocked
<1>4. at[flow.hbw.uid] = "rack"
  BY <1>2, <1>3, NoUidAssumption DEF Shelves, CellsTrue
<1>5. \A p \in Parts : at'[p] = IF p = flow.hbw.uid THEN "gripper" ELSE at[p]
  BY <1>3 DEF TakeFromTray
<1>6. Held("gripper") = {}
  BY <1>1 DEF InGripper, Loaded, Waiting
<1>7. Held("gripper")' = {flow.hbw.uid} /\ \A place : place \notin {"rack", "gripper"} => Held(place)' = Held(place)
  BY <1>3, <1>4, <1>5, <1>6 DEF Held
<1> QED BY <1>1, <1>3, <1>4, <1>5, <1>6, <1>7

\* A workpiece to be collected comes from the rack.
LEMMA PickedUp ==
  ASSUME HandoverInv, LineInv, UNCHANGED stationVars, VgrWaitFetchedPickup
  PROVE  LineInv'
<1> DEFINE u == flow.hbw.uid
<1> USE DEF HandoverInv
<1>1. CASE "hbwFetched" \notin raised
  BY <1>1, QuietSteps
<1>2. CASE "hbwFetched" \in raised
  <2>1. /\ TakeFromTray /\ UNCHANGED <<board, asked, wait, tag, hist>> /\ UNCHANGED storage /\ UNCHANGED hbwVars
        /\ vgr' = "HBW2PICKUP" /\ vgr = "VGR_WAIT_FETCHED_PICKUP" /\ raised \cap HeadMarks = {}
        /\ raised' = raised \ {"hbwFetched", "hbwFault"} /\ SetPickup(With(flow.pickup, flow.hbw))
        /\ Publish(VgrDo("STORECONTAINER", Workflow(0, flow.hbw)))
    BY <1>2 DEF VgrWaitFetchedPickup, Elsewhere, Desk, In, Goto, SetPickup, Turn
  <2>2. FlowOK /\ InHands /\ TagsTrue /\ HistoryTrue /\ Words
    BY DEF Types, RobotOK, LineInv, Words
  <2>3. flow'.order = flow.order /\ flow'.hbw = flow.hbw
    BY <2>1, <2>2 DEF SetPickup, FlowOK
  <2>4. /\ u \in Parts /\ at[u] = "rack" /\ Held("gripper")' = {u}
        /\ \A p \in Parts : at'[p] = IF p = u THEN "gripper" ELSE at[p]
    BY <1>2, <2>1, OffTray
  <2>5. PICK m \in Letters : Publish(m) /\ m.topic = "vgr/do" /\ m.code = "STORECONTAINER"
    BY <2>1, <2>2, Rewritten, Sendings DEF VgrDo, Msg, RackCodes
  <2> HIDE DEF u
  <2>6. /\ LineMailSame /\ Fetched' = Fetched /\ Sent' = Sent \cup ({m} \cap Requesting) /\ Stores' = Stores \cup ({m} \cap Storing)
    BY <2>5, RobotPosts
  <2>7. Stores' = Stores
    BY <2>5, <2>6 DEF Storing
  <2>8. /\ vgr \notin OnOrder /\ vgr' \notin OnOrder \cup Failing \cup Rejoined /\ "reqOrder" \notin raised
    BY <2>1 DEF OnOrder, Fetching, Served, Failing, Rejoined, HeadMarks
  <2>9. Aloof
    <3>1. \A p \in Parts : at'[p] = at[p] \/ (at[p] \notin Furnace /\ at'[p] \notin Furnace)
      BY <2>4 DEF Furnace, Bays
    <3> QED BY <2>1, <2>3, <2>8, <3>1 DEF Aloof
  <2>10. Words'
    <3>1. "hbwFetched" \notin raised'
      BY <2>1
    <3>2. /\ Fetched' \subseteq Fetched /\ (Stores' # {} => Stores # {})
          /\ \A p \in Parts : at[p] = "rack" => tag'[p] = tag[p]
      BY <2>1, <2>6, <2>7
    <3> QED BY <2>1, <2>2, <2>8, <3>1, <3>2, WordsGo
  <2>11. InHands' /\ TagsTrue'
    BY <2>1, <2>2, <2>4 DEF InHands, TagsTrue, Ordered
  <2>12. HistoryTrue'
    <3>1. Stamps(vgr') = {} /\ RawStamps(vgr') = Delivered
      BY <2>1 DEF Stamps, RawStamps
    <3>2. "gripper" \notin Furnace /\ \A p \in Parts : at'[p] = "gripper" => p = u
      BY <2>4 DEF Furnace, Bays, Held
    <3> QED BY <2>1, <2>2, <2>4, <3>1, <3>2 DEF HistoryTrue
  <2> QED BY <2>6, <2>9, <2>10, <2>11, <2>12, AloofLine
<1> QED BY <1>1, <1>2

\* A workpiece goes into the rack.
LEMMA PutAway ==
  ASSUME HandoverInv, LineInv, UNCHANGED stationVars, StoreWp
  PROVE  LineInv'
<1> DEFINE u == flow.hbw.uid
<1> USE DEF HandoverInv
<1>1. CASE "hbwFault" \in raised
  BY <1>1, QuietSteps
<1>2. CASE "hbwFault" \notin raised
  <2>1. /\ PutOnTray /\ UNCHANGED <<board, asked, wait, tag>> /\ UNCHANGED storage /\ UNCHANGED hbwVars
        /\ vgr' \in {"ORDER_WP", "ENTER_IDLE"} /\ vgr = "STORE_WP" /\ raised \cap HeadMarks = {}
        /\ "hbwFetched" \in raised /\ raised' = raised \ {"hbwFetched"}
        /\ SetStore(With([flow.store EXCEPT !.state = "STORE_DONE"], flow.hbw)) /\ Stamp(u, {"WAREHOUSING"})
        /\ Publish(VgrDo("STORE_WP", Workflow(0, flow.hbw)))
    BY <1>2 DEF StoreWp, Elsewhere, Desk, In, Goto, SetStore, Turn
  <2>2. FlowOK /\ InHands /\ TagsTrue /\ HistoryTrue /\ Words /\ hist \in [Parts -> SUBSET HistoryIndex]
    BY DEF Types, RobotOK, LineInv, Words
  <2>3. flow'.order = flow.order /\ flow'.hbw = flow.hbw
    BY <2>1, <2>2 DEF SetStore, FlowOK
  <2>4. Held("gripper") = {u} /\ hbwReq.wp.uid = u /\ Brought
    <3>1. flow.hbw.uid = hbwReq.wp.uid /\ ForGripper(hbwReq) /\ Brought
      BY <2>1, ToldFetched
    <3> QED BY <2>1, <3>1 DEF ForGripper, InGripper, Identified
  <2>5. u \in Parts /\ at[u] = "gripper" /\ \A p \in Parts : at[p] = "gripper" => p = u
    BY <2>4 DEF Held
  <2>6. PICK m \in Letters : Publish(m) /\ m.topic = "vgr/do" /\ m.code = "STORE_WP"
    BY <2>1, <2>2, Rewritten, Sendings DEF VgrDo, Msg, RackCodes
  <2> HIDE DEF u
  <2>7. \A p \in Parts : at'[p] = IF p = u THEN "rack" ELSE at[p]
    BY <2>1, <2>5 DEF PutOnTray, Move
  <2>8. hist' = [hist EXCEPT ![u] = @ \cup {"WAREHOUSING"}]
    BY <2>1, <2>5 DEF Stamp
  <2>9. /\ LineMailSame /\ Fetched' = Fetched /\ Sent' = Sent \cup ({m} \cap Requesting) /\ Stores' = Stores \cup ({m} \cap Storing)
    BY <2>6, RobotPosts
  <2>10. /\ vgr \notin OnOrder /\ vgr' \notin OnOrder \cup Failing \cup Rejoined /\ "reqOrder" \notin raised
    BY <2>1 DEF OnOrder, Fetching, Served, Failing, Rejoined, HeadMarks
  <2>11. Aloof
    <3>1. \A p \in Parts : at'[p] = at[p] \/ (at[p] \notin Furnace /\ at'[p] \notin Furnace)
      BY <2>5, <2>7 DEF Furnace, Bays
    <3> QED BY <2>1, <2>3, <2>10, <3>1 DEF Aloof
  <2>12. Words'
    <3>1. "hbwFetched" \notin raised' /\ Fetched' \subseteq Fetched /\ UNCHANGED tag
      BY <2>1, <2>9
    <3>2. Honest(hbwReq.wp)
      BY <2>1, <2>2, <2>4 DEF Words, RecordsHonest
    <3>3. Honest(hbwReq.wp)'
      BY <2>1, <3>2 DEF Honest, hbwVars
    <3> QED BY <2>1, <2>2, <2>10, <3>1, <3>3, WordsGo
  <2>13. InHands' /\ TagsTrue'
    BY <2>1, <2>2 DEF InHands, TagsTrue, Ordered
  <2>14. HistoryTrue'
    <3>1. ASSUME NEW p \in Parts, p # u PROVE at'[p] = at[p] /\ at[p] # "gripper" /\ hist'[p] = hist[p]
      BY <2>2, <2>5, <2>7, <2>8, <3>1
    <3>2. hist'[u] = hist[u] \cup {"WAREHOUSING"} /\ at'[u] = "rack" /\ "rack" \notin Furnace
      BY <2>2, <2>5, <2>7, <2>8 DEF Furnace, Bays
    <3>3. RawStamps(vgr) = {"DELIVERY_RAW", "INSPECTION"}
      BY <2>1 DEF RawStamps
    <3> QED BY <2>1, <2>2, <2>5, <3>1, <3>2, <3>3 DEF HistoryTrue, Delivered
  <2> QED BY <2>9, <2>11, <2>12, <2>13, <2>14, AloofLine
<1> QED BY <1>1, <1>2

-----------------------------------------------------------------------------
(* An order on its way: what the dashboard shows, and what waits.          *)

\* An order that was asked for has its line on the dashboard.
LEMMA AskedOnBoard ==
  ASSUME HandoverInv, LineInv, NEW u \in DOMAIN asked, NEW s
  PROVE  /\ u \in 1 .. MaxRequests /\ Show(u, s) = [board EXCEPT ![u] = s]
         /\ \A o \in 1 .. MaxRequests : Show(u, s)[o] = IF o = u THEN s ELSE board[o]
<1>1. asked \in Seq(Wishes) /\ Len(asked) <= MaxRequests /\ MaxRequests \in Nat /\ BoardOK
  BY TxtConstants DEF HandoverInv, LineInv, Orders, Types, RobotOK
<1>2. u \in 1 .. MaxRequests /\ u # 0
  BY <1>1
<1> QED BY <1>1, <1>2 DEF Show, BoardOK

\* The order that the robot serves is neither a waiting one nor in the line.
LEMMA OneOrder ==
  ASSUME HandoverInv, LineInv, vgr \in OnOrder
  PROVE  /\ flow.order.uid \in DOMAIN asked
         /\ \A i \in DOMAIN wait.orders : wait.orders[i].uid # flow.order.uid
         /\ ~Burnt => \A x \in Line : x.uid # flow.order.uid
<1> USE DEF LineInv
<1>1. CASE vgr \in Fetching
  BY <1>1 DEF Orders, Fresh, Shown
<1>2. CASE vgr \in Served \cup {"MOVE_PICKUP"}
  <2>1. flow.order.uid \in DOMAIN asked
    BY <1>2 DEF OrderRight, Right, Flow, Workflow
  <2>2. vgr \in DOMAIN StageOf
    BY <1>2 DEF Served, StageOf
  <2>3. StageOf[vgr] \notin {"WAITING_FOR_ORDER", "ORDER_ACKNOWLEDGED", "IN_PROCESS"}
    BY <2>2 DEF StageOf
  <2> QED BY <2>1, <2>2, <2>3 DEF Shown
<1> QED BY <1>1, <1>2 DEF OnOrder

\* The order in hand goes one stage further.
LEMMA OnTheWay ==
  ASSUME HandoverInv, LineInv, UNCHANGED <<stationVars, asked>>, wait'.orders = wait.orders, Line' = Line, ~Burnt, ~Burnt',
         vgr \in OnOrder, flow'.order.uid = flow.order.uid, raised' \subseteq raised, "reqOrder" \notin raised,
         vgr' \notin Failing \cup {"FETCH_WP_VGR_ORDER"}, NEW s, board' = Show(flow.order.uid, s),
         vgr' = "VGR_WAIT_FETCHED" =>
           vgr \in Fetching /\ flow'.order = flow.order /\ s \in {"ORDER_ACKNOWLEDGED", "FETCHING_FROM_STORAGE"},
         vgr' \in DOMAIN StageOf => s = StageOf[vgr']
  PROVE  Shown' /\ Orders' /\ Unfailing'
<1> DEFINE u == flow.order.uid
<1> USE DEF LineInv
<1>1. /\ u \in DOMAIN asked /\ \A i \in DOMAIN wait.orders : wait.orders[i].uid # u
      /\ \A x \in Line : x.uid # u
  BY OneOrder
<1>2. u \in 1 .. MaxRequests /\ \A o \in 1 .. MaxRequests : board'[o] = IF o = u THEN s ELSE board[o]
  BY <1>1, AskedOnBoard
<1>3. \A o \in DOMAIN asked : o \in 1 .. MaxRequests
  BY AskedOnBoard
<1> HIDE DEF u
<1>4. Orders'
  <2>1. \A o : Fresh(o)' <=> Fresh(o)
    BY DEF Fresh
  <2>2. vgr' \in Fetching => vgr' = "VGR_WAIT_FETCHED"
    BY DEF Fetching
  <2> QED BY <2>1, <2>2 DEF Orders
<1>5. Shown'
  <2>1. \A o \in 1 .. MaxRequests : o \notin DOMAIN asked' => board'[o] = "WAITING_FOR_ORDER"
    BY <1>1, <1>2 DEF Shown
  <2>2. \A i \in DOMAIN wait'.orders : board'[wait'.orders[i].uid] \in {"WAITING_FOR_ORDER", "ORDER_ACKNOWLEDGED"}
    <3>1. \A i \in DOMAIN wait.orders : wait.orders[i].uid \in 1 .. MaxRequests
      BY <1>3 DEF Orders, Fresh
    <3> QED BY <1>1, <1>2, <3>1 DEF Shown
  <2>3. vgr' \in Fetching => board'[flow'.order.uid] \in {"ORDER_ACKNOWLEDGED", "FETCHING_FROM_STORAGE"}
    BY <1>2 DEF Fetching, u
  <2>4. vgr' \in DOMAIN StageOf => board'[flow'.order.uid] = StageOf[vgr']
    BY <1>2 DEF u
  <2>5. \A x \in Line : board'[x.uid] = "IN_PROCESS"
    <3>1. \A x \in Line : x.uid \in 1 .. MaxRequests
      BY <1>3 DEF LineRight, Right
    <3> QED BY <1>1, <1>2, <3>1 DEF Shown
  <2> QED BY <2>1, <2>2, <2>3, <2>4, <2>5 DEF Shown
<1>6. Unfailing'
  BY DEF Unfailing, Failing, stationVars
<1> QED BY <1>4, <1>5, <1>6

\* What does not hang on the robot.
LEMMA LineRests ==
  ASSUME OvenAndLine, UNCHANGED stationVars, Noticed' = Noticed, Sorted' = Sorted, wait'.sorted = wait.sorted, AskedGrows,
         \A p, q \in Parts : Before(mail["SLD"], Naming(p), Naming(q)) => Before(mail'["SLD"], Naming(p), Naming(q)),
         Held("sensor")' = Held("sensor"), Held("sorter")' = Held("sorter"), vgr' # "NFC_PRODUCED",
         \A x \in Line : at'[x.wp.uid] = at[x.wp.uid]
  PROVE  Line' = Line /\ LineRight' /\ NoDouble' /\ InTurn' /\ InSorter' /\ InBays'
<1> USE DEF OvenAndLine
<1>1. UNCHANGED <<mpo, mpoQ, mpoReq, sld, sldQ, sldReq, seen>>
  BY DEF stationVars
<1>2. /\ Queued' = Queued /\ Notices' = Notices /\ Announced' = Announced /\ Sortable' = Sortable
      /\ Burning' = Burning /\ AtSorter' = AtSorter /\ Ejected' = Ejected /\ Coming' = Coming
  BY <1>1 DEF Queued, Notices, Announced, Sortable, Burning, AtSorter, Ejected, Coming
<1>3. Line' = Line
  BY <1>2 DEF Line
<1>4. LineRight'
  BY <1>3, RightKept DEF LineRight
<1>5. NoDouble'
  BY <1>1, <1>2 DEF NoDouble
<1>6. InTurn'
  <2>1. \A p \in Held("sensor"), q \in Coming : p \in Parts /\ q \in Parts
    BY DEF LineRight, InOven, Coming, Held
  <2> QED BY <1>1, <1>2, <2>1 DEF InTurn
<1>7. InSorter'
  BY <1>1 DEF InSorter
<1>8. InBays'
  <2>1. Ejected \cup Announced \cup Sortable \subseteq Line
    BY DEF Line
  <2> QED BY <1>2, <2>1 DEF InBays
<1> QED BY <1>3, <1>4, <1>5, <1>6, <1>7, <1>8

\* What is said and held when a step neither moves nor says anything.
LEMMA SilentStep ==
  ASSUME HandoverInv, LineInv, UNCHANGED <<mail, stationVars, storage, hbwVars>>, raised' \subseteq raised,
         flow'.hbw = flow.hbw
  PROVE  /\ LineMailSame /\ Fetched' = Fetched /\ Stores' = Stores /\ Sent' = Sent /\ (Brought' => Brought)
         /\ ("hbwFetched" \in raised' => flow'.hbw = hbwReq.wp)
<1>1. LineMailSame /\ Fetched' = Fetched /\ Stores' = Stores /\ Sent' = Sent
  BY QuietMail DEF LineInv, Sent, Stores, Fetched, Replies
<1> QED BY <1>1 DEF Brought, LineInv, FetchedAsWanted

\* The head of the loop may acknowledge an order: the first in the queue or,
\* with none in the queue, the one being fetched.
LEMMA HeadShows ==
  ASSUME HandoverInv, LineInv, VgrHead
  PROVE  UNCHANGED board \/ \E u \in DOMAIN asked :
           /\ board' = Show(u, "ORDER_ACKNOWLEDGED")
           /\ board[u] \in {"WAITING_FOR_ORDER", "ORDER_ACKNOWLEDGED", "FETCHING_FROM_STORAGE"}
<1> USE DEF HandoverInv, LineInv
<1>1. CASE "reqOrder" \notin raised
  BY <1>1 DEF VgrHead
<1>2. CASE "reqOrder" \in raised /\ wait.orders # <<>>
  <2>1. 1 \in DOMAIN wait.orders /\ Head(wait.orders) = wait.orders[1]
    BY <1>2 DEF Types, RobotOK, WaitOK
  <2>2. wait.orders[1].uid \in DOMAIN asked
    BY <2>1 DEF Orders, Fresh
  <2>3. wait.orders[1].uid # 0
    BY <2>2, AskedOnBoard
  <2> QED BY <1>2, <2>1, <2>2, <2>3 DEF VgrHead, Shown
<1>3. CASE "reqOrder" \in raised /\ wait.orders = <<>>
  <2>1. vgr = "FETCH_WP_VGR_ORDER" /\ flow.order.uid \in DOMAIN asked
    BY <1>3 DEF Orders, Fetching, Fresh
  <2>2. flow.order.uid # 0
    BY <2>1, AskedOnBoard
  <2> QED BY <1>3, <2>1, <2>2 DEF VgrHead, Shown, Fetching
<1> QED BY <1>1, <1>2, <1>3

\* The acknowledgement of the order that waits first.
LEMMA HeadLine ==
  ASSUME HandoverInv, LineInv, UNCHANGED stationVars, VgrHead
  PROVE  LineInv'
<1> USE DEF HandoverInv, LineInv
<1>1. /\ UNCHANGED <<vgr, flow, wait, hist, asked, mail, at, tag>> /\ UNCHANGED storage /\ UNCHANGED hbwVars
      /\ raised' = raised \ {"reqOrder", "reqPickup", "reqStore"}
  BY DEF VgrHead, Desk, Calm, Handless, Elsewhere, Turn
<1>2. /\ LineMailSame /\ Fetched' = Fetched /\ Stores' = Stores /\ Sent' = Sent /\ (Brought' => Brought)
      /\ ("hbwFetched" \in raised' => flow'.hbw = hbwReq.wp)
  <2>1. UNCHANGED <<storage, hbwVars>>
    BY <1>1
  <2> QED BY <1>1, <2>1, SilentStep
<1>3. Words'
  <2>1. Words /\ UNCHANGED <<storage, hbwVars>>
    BY <1>1 DEF Words
  <2> QED BY <1>1, <1>2, <2>1, WordsGo
<1>4. InHands' /\ TagsTrue' /\ HistoryTrue'
  BY <1>1, HandsStill
<1>5. OvenAndLine' /\ Line' = Line /\ (Burnt' <=> Burnt)
  <2>1. OvenAndLine /\ OrderRight
    BY DEF OvenAndLine
  <2>2. LineLetters /\ StartKnown
    BY <1>1, <1>2, SameLetters
  <2>3. AskedGrows /\ FurnaceSame
    BY <1>1, HandsSame DEF AskedGrows
  <2> QED BY <1>1, <2>1, <2>2, <2>3, LineStill
<1>7. Orders' /\ OrderRight' /\ Unfailing'
  BY <1>1 DEF Orders, Fresh, OrderRight, Right, Unfailing, stationVars
<1>8. Shown'
  <2>1. CASE UNCHANGED board
    BY <1>1, <1>5, <2>1 DEF Shown
  <2>2. ASSUME NEW u \in DOMAIN asked, board' = Show(u, "ORDER_ACKNOWLEDGED"),
               board[u] \in {"WAITING_FOR_ORDER", "ORDER_ACKNOWLEDGED", "FETCHING_FROM_STORAGE"}
        PROVE  Shown'
    <3>1. u \in 1 .. MaxRequests /\ \A o \in 1 .. MaxRequests : board'[o] = IF o = u THEN "ORDER_ACKNOWLEDGED" ELSE board[o]
      BY <2>2, AskedOnBoard
    <3>2. board[u] \in {"WAITING_FOR_ORDER", "ORDER_ACKNOWLEDGED", "FETCHING_FROM_STORAGE"} /\ u \in DOMAIN asked
      BY <2>2
    <3>3. \A o \in DOMAIN asked : o \in 1 .. MaxRequests
      BY AskedOnBoard
    <3>4. \A o \in 1 .. MaxRequests : o \notin DOMAIN asked' => board'[o] = "WAITING_FOR_ORDER"
      BY <1>1, <3>1, <3>2 DEF Shown
    <3>5. \A i \in DOMAIN wait.orders : board'[wait.orders[i].uid] \in {"WAITING_FOR_ORDER", "ORDER_ACKNOWLEDGED"}
      <4>1. \A i \in DOMAIN wait.orders : wait.orders[i].uid \in 1 .. MaxRequests
        BY <3>3 DEF Orders, Fresh
      <4> QED BY <3>1, <4>1 DEF Shown
    <3>6. vgr \in Fetching => board'[flow.order.uid] \in {"ORDER_ACKNOWLEDGED", "FETCHING_FROM_STORAGE"}
      <4>1. vgr \in Fetching => flow.order.uid \in 1 .. MaxRequests
        BY <3>3 DEF Orders, Fresh
      <4> QED BY <3>1, <4>1 DEF Shown
    <3>7. vgr \in DOMAIN StageOf => board'[flow.order.uid] = StageOf[vgr]
      <4>1. ASSUME vgr \in DOMAIN StageOf PROVE flow.order.uid \in 1 .. MaxRequests /\ flow.order.uid # u
        <5>1. vgr \in OnOrder
          BY <4>1 DEF StageOf, OnOrder, Served
        <5>2. StageOf[vgr] \notin {"WAITING_FOR_ORDER", "ORDER_ACKNOWLEDGED", "FETCHING_FROM_STORAGE"}
          BY <4>1 DEF StageOf
        <5> QED BY <3>2, <3>3, <4>1, <5>1, <5>2, OneOrder DEF Shown
      <4> QED BY <3>1, <4>1 DEF Shown
    <3>8. \A x \in Line : board'[x.uid] = "IN_PROCESS" \/ (Burnt /\ x.uid = flow.order.uid)
      <4>1. \A x \in Line : x.uid \in 1 .. MaxRequests
        BY <3>3 DEF LineRight, Right
      <4> QED BY <3>1, <3>2, <4>1 DEF Shown
    <3> QED BY <1>1, <1>5, <3>4, <3>5, <3>6, <3>7, <3>8 DEF Shown
  <2> QED BY HeadShows, <2>1, <2>2
<1> QED BY <1>2, <1>3, <1>4, <1>5, <1>7, <1>8 DEF OvenAndLine, Words, LineMailSame

-----------------------------------------------------------------------------
(* An order is taken, and fetched from the rack.                           *)

\* The order at hand changes its state, far from the oven and the bays.
LEMMA FarFromLine ==
  ASSUME HandoverInv, LineInv, LineMailSame, UNCHANGED <<stationVars, asked>>, wait'.sorted = wait.sorted, FurnaceSame,
         vgr \notin Near, vgr' \notin Near, "mpoStarted" \in raised' <=> "mpoStarted" \in raised
  PROVE  OvenAndLine' /\ Line' = Line /\ ~Burnt /\ ~Burnt' /\ LineMail'
<1>1. OvenAndLine /\ OrderRight
  BY DEF LineInv, OvenAndLine
<1>2. LineLetters /\ StartKnown
  BY <1>1, SameLetters DEF OvenAndLine
<1>3. AskedGrows /\ UNCHANGED stationVars
  BY DEF AskedGrows
<1>4. OvenAndLine' /\ Line' = Line /\ (Burnt' <=> Burnt)
  BY <1>1, <1>2, <1>3, LineStill
<1>5. ~Burnt
  BY <1>1 DEF OvenAndLine, OvenTalk, Near
<1> QED BY <1>4, <1>5 DEF LineMailSame

\* An order may be shown again as it is.
LEMMA AlreadyShown ==
  ASSUME HandoverInv, LineInv, vgr \in OnOrder
  PROVE  board = Show(flow.order.uid, board[flow.order.uid])
<1> DEFINE u == flow.order.uid
<1>1. u \in DOMAIN asked
  BY OneOrder
<1>2. Show(u, board[u]) = [board EXCEPT ![u] = board[u]] /\ u \in 1 .. MaxRequests
  BY <1>1, AskedOnBoard
<1>3. BoardOK
  BY DEF HandoverInv, Types, RobotOK
<1> HIDE DEF u
<1>4. [board EXCEPT ![u] = board[u]] = board
  BY <1>2, <1>3 DEF BoardOK
<1> QED BY <1>2, <1>4 DEF u

\* The rack is asked for the workpiece of an order.
LEMMA FetchLine ==
  ASSUME HandoverInv, LineInv, UNCHANGED stationVars, FetchWpVgrOrder
  PROVE  LineInv'
<1> DEFINE m == VgrDo("FETCH_WP", Flow(flow.order))
<1> USE DEF HandoverInv, LineInv
<1>1. /\ vgr = "FETCH_WP_VGR_ORDER" /\ vgr' = "VGR_WAIT_FETCHED" /\ raised \cap HeadMarks = {} /\ Publish(m)
      /\ UNCHANGED <<flow, raised, hist, board, wait, asked, at, tag>> /\ UNCHANGED storage /\ UNCHANGED hbwVars
  BY DEF FetchWpVgrOrder, In, Goto, Desk, Handless, Elsewhere
<1>2. m \in Letters /\ m.topic = "vgr/do" /\ m.code = "FETCH_WP" /\ m.flow = Flow(flow.order)
  BY Rewritten, Sendings DEF VgrDo, Msg, RackCodes, ReqCodes, Types, RobotOK
<1> HIDE DEF m
<1>3. LineMailSame /\ Fetched' = Fetched /\ Sent' = Sent \cup ({m} \cap Requesting) /\ Stores' = Stores \cup ({m} \cap Storing)
  BY <1>1, <1>2, RobotPosts
<1>4. Sent = {} /\ hbwQ = <<>> /\ hbw \notin Begun /\ Fetched = {} /\ "hbwFetched" \notin raised
  BY <1>1, Resting DEF Talk, Waiting
<1>5. Sent' \subseteq {m} /\ Stores' = Stores /\ "hbwFetched" \notin raised' /\ ~Brought'
  BY <1>1, <1>2, <1>3, <1>4 DEF Storing, Brought
<1>6. Words'
  <2>1. Words /\ UNCHANGED <<storage, hbwVars>>
    BY <1>1 DEF Words
  <2>2. vgr' = "VGR_WAIT_FETCHED" => \A n \in Sent' : n.flow = Flow(flow'.order)
    BY <1>1, <1>2, <1>5
  <2> QED BY <1>1, <1>3, <1>4, <1>5, <2>1, <2>2, WordsGo
<1>7. InHands' /\ TagsTrue' /\ HistoryTrue'
  BY <1>1, HandsStill DEF Telling, Ordered
<1>8. OvenAndLine' /\ Line' = Line /\ ~Burnt /\ ~Burnt' /\ LineMail'
  BY <1>1, <1>3, FarFromLine, HandsSame DEF Near, Making
<1>9. Shown' /\ Orders' /\ Unfailing'
  <2>1. flow.order.uid \in DOMAIN asked /\ board[flow.order.uid] \in {"ORDER_ACKNOWLEDGED", "FETCHING_FROM_STORAGE"}
    BY <1>1 DEF Orders, Fresh, Shown, Fetching
  <2>2. board' = Show(flow.order.uid, board[flow.order.uid])
    <3>1. vgr \in OnOrder
      BY <1>1 DEF OnOrder, Fetching
    <3> QED BY <1>1, <3>1, AlreadyShown
  <2>3. /\ vgr \in OnOrder /\ vgr \in Fetching /\ vgr' \notin Failing \cup {"FETCH_WP_VGR_ORDER"}
        /\ vgr' \notin DOMAIN StageOf /\ "reqOrder" \notin raised
    BY <1>1 DEF OnOrder, Fetching, Failing, StageOf, HeadMarks
  <2> QED BY <1>1, <1>8, <2>1, <2>2, <2>3, OnTheWay
<1>10. OrderRight'
  BY <1>1 DEF OrderRight, Served
<1> QED BY <1>6, <1>7, <1>8, <1>9, <1>10 DEF OvenAndLine, Words

\* The workpiece for the order, or the word that there is none.
LEMMA FetchedLine ==
  ASSUME HandoverInv, LineInv, UNCHANGED stationVars, VgrWaitFetched
  PROVE  LineInv'
<1> DEFINE u == flow.hbw.uid
           o == flow.order.uid
<1> USE DEF HandoverInv, LineInv
<1>1. /\ vgr = "VGR_WAIT_FETCHED" /\ raised \cap HeadMarks = {} /\ raised' = raised \ {"hbwFetched", "hbwFault"}
      /\ UNCHANGED <<wait, asked, tag>> /\ UNCHANGED storage /\ UNCHANGED hbwVars
  BY DEF VgrWaitFetched, In, Turn, Desk, Elsewhere
<1>2. FlowOK /\ hist \in [Parts -> SUBSET HistoryIndex] /\ Words
  BY DEF Types, RobotOK, Words
<1>3. vgr \notin Near /\ vgr \in OnOrder /\ "reqOrder" \notin raised /\ ("mpoStarted" \in raised' <=> "mpoStarted" \in raised)
  BY <1>1 DEF Near, Making, OnOrder, Fetching, HeadMarks
<1>4. CASE "hbwFetched" \in raised
  <2>1. /\ TakeFromTray /\ Stamp(u, {"OUTSOURCING"}) /\ vgr' = "MOVE_VGR2MPO"
        /\ ReportOrder(OrderState(o, flow.hbw, "FETCHED_FROM_STORAGE"))
        /\ Publish(VgrDo("STORECONTAINER", Workflow(o, flow.hbw)))
    BY <1>4 DEF VgrWaitFetched, Goto
  <2>2. /\ u \in Parts /\ at[u] = "rack" /\ Held("gripper")' = {u}
        /\ \A p \in Parts : at'[p] = IF p = u THEN "gripper" ELSE at[p]
        /\ \A place : place \notin {"rack", "gripper"} => Held(place)' = Held(place)
    BY <1>1, <1>4, <2>1, OffTray
  <2>3. PICK m \in Letters : Publish(m) /\ m.topic = "vgr/do" /\ m.code = "STORECONTAINER"
    BY <1>2, <2>1, Rewritten, Sendings DEF VgrDo, Msg, RackCodes
  <2>4. flow'.order.uid = o /\ flow'.order.wp = flow.hbw /\ board' = Show(o, "FETCHED_FROM_STORAGE")
    BY <1>2, <2>1 DEF ReportOrder, OrderState, FlowOK
  <2>5. Honest(flow.hbw) /\ flow.hbw.type = flow.order.wp.type /\ flow.hbw.state = "RAW"
    <3>1. flow.hbw = hbwReq.wp
      BY <1>4 DEF FetchedAsWanted
    <3>2. Wanted(hbwReq.wp)
      BY <1>1, <1>4 DEF FetchedAsWanted, Brought
    <3> QED BY <3>1, <3>2 DEF Wanted
  <2>6. o \in DOMAIN asked /\ flow.order.wp.type = asked[o]
    BY <1>1 DEF Orders, Fresh, Fetching, Wp
  <2>7. hist' = [hist EXCEPT ![u] = @ \cup {"OUTSOURCING"}]
    BY <2>1, <2>2 DEF Stamp
  <2> HIDE DEF u, o
  <2>8. LineMailSame /\ Fetched' = Fetched /\ Sent' = Sent \cup ({m} \cap Requesting) /\ Stores' = Stores \cup ({m} \cap Storing)
    BY <2>3, RobotPosts
  <2>9. Stores' = Stores
    BY <2>3, <2>8 DEF Storing
  <2>10. Words'
    <3>1. "hbwFetched" \notin raised' /\ vgr' \notin Rejoined
      BY <1>1, <2>1 DEF Rejoined
    <3>2. /\ Fetched' \subseteq Fetched /\ (Stores' # {} => Stores # {})
          /\ \A p \in Parts : at[p] = "rack" => tag'[p] = tag[p]
      BY <1>1, <2>8, <2>9
    <3> QED BY <1>1, <1>2, <3>1, <3>2, WordsGo
  <2>11. OvenAndLine' /\ Line' = Line /\ ~Burnt /\ ~Burnt' /\ LineMail'
    <3>1. FurnaceSame /\ vgr' \notin Near
      BY <2>1, <2>2 DEF FurnaceSame, Furnace, Bays, Near, Making
    <3> QED BY <1>1, <1>3, <2>8, <3>1, FarFromLine
  <2>12. Shown' /\ Orders' /\ Unfailing'
    <3>1. /\ vgr' \notin Failing \cup {"FETCH_WP_VGR_ORDER"} /\ vgr' # "VGR_WAIT_FETCHED"
          /\ StageOf[vgr'] = "FETCHED_FROM_STORAGE"
      BY <2>1 DEF Failing, StageOf
    <3> QED BY <1>1, <1>3, <2>4, <2>11, <3>1, OnTheWay DEF o
  <2>13. OrderRight'
    <3>1. Right(Flow(flow.order))'
      BY <1>1, <2>2, <2>4, <2>5, <2>6 DEF Right, Flow, Workflow, Honest, u
    <3> QED BY <2>1, <3>1 DEF OrderRight
  <2>14. InHands' /\ TagsTrue'
    <3>1. flow'.order.wp.uid = u
      BY <2>4 DEF u
    <3> QED BY <1>1, <2>1, <2>2, <3>1 DEF InHands, TagsTrue
  <2>15. HistoryTrue'
    <3>1. Stamps(vgr') = Delivered \cup {"OUTSOURCING"} /\ RawStamps(vgr') = {}
      BY <2>1 DEF Stamps, RawStamps
    <3>2. ASSUME NEW p \in Parts, p # u PROVE at'[p] = at[p] /\ at'[p] # "gripper" /\ hist'[p] = hist[p]
      BY <1>2, <2>2, <2>7, <3>2 DEF Held
    <3>3. hist'[u] = hist[u] \cup {"OUTSOURCING"} /\ at'[u] = "gripper" /\ "gripper" \notin Furnace /\ tag[u].state = "RAW"
      BY <1>2, <2>2, <2>5, <2>7 DEF Furnace, Bays, Honest, u
    <3> QED BY <1>1, <2>1, <2>2, <3>1, <3>2, <3>3 DEF HistoryTrue
  <2> QED BY <2>10, <2>11, <2>12, <2>13, <2>14, <2>15 DEF OvenAndLine, Words
<1>5. CASE "hbwFetched" \notin raised
  <2>1. /\ vgr' = "ENTER_FAULT" /\ ReportOrder(OrderIs("ORDER_FAULT")) /\ UNCHANGED <<mail, hist, at>>
    BY <1>5 DEF VgrWaitFetched, Goto, TakeFromTray
  <2>2. flow'.order.uid = o /\ flow'.hbw = flow.hbw /\ board' = Show(o, "ORDER_FAULT")
    BY <1>2, <2>1 DEF ReportOrder, OrderIs, OrderRec, FlowOK
  <2>3. /\ LineMailSame /\ Fetched' = Fetched /\ Stores' = Stores /\ Sent' = Sent
        /\ ("hbwFetched" \in raised' => flow'.hbw = hbwReq.wp)
    <3>1. UNCHANGED <<storage, hbwVars>> /\ raised' \subseteq raised
      BY <1>1
    <3> QED BY <1>1, <2>1, <2>2, <3>1, SilentStep
  <2>4. Words'
    <3>1. vgr' \notin Rejoined /\ (Stores' # {} => Stores # {}) /\ UNCHANGED <<storage, hbwVars>>
      BY <1>1, <2>1, <2>3 DEF Rejoined
    <3> QED BY <1>1, <1>2, <2>3, <3>1, WordsGo
  <2>5. InHands' /\ TagsTrue' /\ HistoryTrue'
    BY <1>1, <2>1, HandsStill DEF Telling, Ordered
  <2>6. OvenAndLine' /\ Line' = Line /\ ~Burnt /\ ~Burnt' /\ LineMail'
    <3>1. FurnaceSame /\ vgr' \notin Near
      BY <2>1, HandsSame DEF Near, Making
    <3> QED BY <1>1, <1>3, <2>3, <3>1, FarFromLine
  <2>7. Shown' /\ Orders' /\ Unfailing'
    <3>1. /\ vgr' \notin Failing \cup {"FETCH_WP_VGR_ORDER"} /\ vgr' # "VGR_WAIT_FETCHED" /\ vgr' \notin DOMAIN StageOf
      BY <2>1 DEF Failing, StageOf
    <3> QED BY <1>1, <1>3, <2>2, <2>6, <3>1, OnTheWay DEF o
  <2>8. OrderRight'
    BY <2>1 DEF OrderRight, Served
  <2> QED BY <2>4, <2>5, <2>6, <2>7, <2>8 DEF OvenAndLine, Words
<1> QED BY <1>4, <1>5

\* An order is taken from the queue.
LEMMA Behind ==
  ASSUME NEW T, NEW s \in Seq(T), s # <<>>
  PROVE  /\ 1 \in DOMAIN s /\ Head(s) = s[1]
         /\ \A i \in DOMAIN Tail(s) : i + 1 \in DOMAIN s /\ i + 1 # 1 /\ Tail(s)[i] = s[i + 1] /\ i \in Nat
OBVIOUS

\* What is said and held when the robot says nothing.
LEMMA SilentWords ==
  ASSUME HandoverInv, LineInv, UNCHANGED <<mail, stationVars>>, UNCHANGED storage, UNCHANGED hbwVars, raised' \subseteq raised,
         flow'.hbw = flow.hbw, vgr' \notin Rejoined, \A p \in Parts : at[p] = "rack" => tag'[p] = tag[p]
  PROVE  LineMailSame /\ Words'
<1>1. UNCHANGED <<storage, hbwVars>> /\ Words
  BY DEF LineInv, Words
<1>2. /\ LineMailSame /\ Fetched' = Fetched /\ Stores' = Stores
      /\ ("hbwFetched" \in raised' => flow'.hbw = hbwReq.wp)
  BY <1>1, SilentStep
<1> QED BY <1>1, <1>2, WordsGo

\* The first of the waiting orders is taken.
LEMMA OrderTaken ==
  ASSUME HandoverInv, LineInv, UNCHANGED stationVars, IdleOrder
  PROVE  LineInv'
<1> DEFINE q == wait.orders
           o == Head(q)
<1> USE DEF HandoverInv, LineInv
<1>1. /\ vgr = "IDLE" /\ vgr' = "FETCH_WP_VGR_ORDER" /\ q # <<>>
      /\ UNCHANGED <<raised, hist, asked, mail, at, tag>> /\ UNCHANGED storage /\ UNCHANGED hbwVars
  BY DEF IdleOrder, Goto, Handless, Calm, Elsewhere
<1>2. q \in Seq(OrderRec) /\ FlowOK
  BY DEF Types, RobotOK, WaitOK
<1>3. /\ wait'.orders = Tail(q) /\ wait'.sorted = wait.sorted
  BY DEF IdleOrder, Types, RobotOK, WaitOK
<1>4. o \in OrderRec
  BY <1>1, <1>2
<1>5. flow'.order.uid = o.uid /\ flow'.order.wp = o.wp /\ flow'.hbw = flow.hbw /\ board' = Show(o.uid, "FETCHING_FROM_STORAGE")
  BY <1>2, <1>4 DEF IdleOrder, ReportOrder, FlowOK, OrderRec
<1>6. /\ 1 \in DOMAIN q /\ o = q[1]
      /\ \A i \in DOMAIN Tail(q) : i + 1 \in DOMAIN q /\ i + 1 # 1 /\ Tail(q)[i] = q[i + 1] /\ i \in Nat
  BY <1>1, <1>2, Behind
<1> HIDE DEF q, o
<1>7. LineMailSame /\ Words'
  BY <1>1, <1>5, SilentWords DEF Rejoined
<1>8. InHands' /\ TagsTrue' /\ HistoryTrue'
  BY <1>1, HandsStill DEF Telling, Ordered
<1>9. OvenAndLine' /\ Line' = Line /\ ~Burnt /\ ~Burnt' /\ LineMail'
  BY <1>1, <1>3, <1>7, FarFromLine, HandsSame DEF Near, Making
<1>10. Fresh(o) /\ \A i \in DOMAIN Tail(q) : Fresh(Tail(q)[i]) /\ Tail(q)[i].uid # o.uid
  BY <1>6 DEF Orders, q
<1>11. /\ o.uid \in DOMAIN asked /\ board[o.uid] \in {"WAITING_FOR_ORDER", "ORDER_ACKNOWLEDGED"}
  BY <1>6, <1>10 DEF Shown, Fresh, q
<1>12. o.uid \in 1 .. MaxRequests /\ \A u \in 1 .. MaxRequests : board'[u] = IF u = o.uid THEN "FETCHING_FROM_STORAGE" ELSE board[u]
  BY <1>5, <1>11, AskedOnBoard
<1>13. \A u \in DOMAIN asked : u \in 1 .. MaxRequests
  BY AskedOnBoard
<1>14. Orders'
  <2>1. \A i \in DOMAIN wait'.orders : Fresh(wait.orders[i])' /\ wait'.orders[i].uid # flow'.order.uid
    BY <1>1, <1>3, <1>5, <1>10 DEF Fresh
  <2>2. \A i, j \in DOMAIN wait'.orders : wait'.orders[i].uid = wait'.orders[j].uid => i = j
    <3>1. SUFFICES ASSUME NEW i \in DOMAIN Tail(q), NEW j \in DOMAIN Tail(q), Tail(q)[i].uid = Tail(q)[j].uid PROVE i = j
      BY <1>3
    <3>2. i + 1 = j + 1
      BY <1>6, <3>1 DEF Orders, q
    <3> QED BY <1>6, <3>2
  <2>3. Fresh(flow.order)'
    BY <1>1, <1>5, <1>10 DEF Fresh
  <2> QED BY <1>1, <2>1, <2>2, <2>3 DEF Orders
<1>15. Shown'
  <2>1. \A u \in 1 .. MaxRequests : u \notin DOMAIN asked' => board'[u] = "WAITING_FOR_ORDER"
    BY <1>1, <1>11, <1>12 DEF Shown
  <2>2. \A i \in DOMAIN wait'.orders : board'[wait'.orders[i].uid] \in {"WAITING_FOR_ORDER", "ORDER_ACKNOWLEDGED"}
    <3>1. ASSUME NEW i \in DOMAIN Tail(q)
          PROVE  board[Tail(q)[i].uid] \in {"WAITING_FOR_ORDER", "ORDER_ACKNOWLEDGED"} /\ Tail(q)[i].uid \in 1 .. MaxRequests
      <4>1. Tail(q)[i].uid \in DOMAIN asked
        BY <1>10 DEF Fresh
      <4> QED BY <1>6, <1>13, <4>1 DEF Shown, q
    <3> QED BY <1>3, <1>10, <1>12, <3>1
  <2>3. vgr' \in Fetching => board'[flow'.order.uid] \in {"ORDER_ACKNOWLEDGED", "FETCHING_FROM_STORAGE"}
    BY <1>5, <1>12
  <2>4. vgr' \notin DOMAIN StageOf
    BY <1>1 DEF StageOf
  <2>5. \A x \in Line : board'[x.uid] = "IN_PROCESS"
    <3>1. \A x \in Line : x.uid \in 1 .. MaxRequests
      BY <1>13 DEF LineRight, Right
    <3> QED BY <1>9, <1>11, <1>12, <3>1 DEF Shown
  <2> QED BY <1>9, <2>1, <2>2, <2>3, <2>4, <2>5 DEF Shown
<1>16. OrderRight' /\ Unfailing'
  BY <1>1 DEF OrderRight, Served, Unfailing, stationVars
<1> QED BY <1>7, <1>8, <1>9, <1>14, <1>15, <1>16 DEF OvenAndLine, Words

-----------------------------------------------------------------------------
(* The workpiece that is ready goes to the pickup station.                 *)

\* What moves elsewhere does not concern oven and line.
LEMMA FurnaceFar ==
  ASSUME \A p \in Parts : at'[p] = at[p] \/ (at[p] \notin Furnace /\ at'[p] \notin Furnace)
  PROVE  FurnaceSame
BY DEF FurnaceSame, Held

\* A report changes the state of the order and nothing else of it.
LEMMA OrderSays ==
  ASSUME FlowOK, NEW s, ReportOrder(OrderIs(s))
  PROVE  /\ flow'.order.uid = flow.order.uid /\ flow'.order.wp = flow.order.wp
         /\ flow'.hbw = flow.hbw /\ flow'.store = flow.store /\ board' = Show(flow.order.uid, s)
BY DEF ReportOrder, OrderIs, FlowOK, OrderRec

\* The workpiece is brought to the output and shipped.
LEMMA ShippingSteps ==
  ASSUME HandoverInv, LineInv, UNCHANGED stationVars, MovePickupWait \/ MovePickup
  PROVE  LineInv'
<1> USE DEF HandoverInv, LineInv
<1>1. PICK s \in OrderStates :
        /\ ReportOrder(OrderIs(s)) /\ UNCHANGED <<wait, asked, raised, hist, mail, tag>> /\ raised \cap HeadMarks = {}
        /\ UNCHANGED storage /\ UNCHANGED hbwVars
        /\ \/ vgr = "MOVE_PICKUP_WAIT" /\ vgr' = "MOVE_PICKUP" /\ Move("gripper", "dso") /\ s = "TRANSPORT_WP_TO_DSO"
           \/ vgr = "MOVE_PICKUP" /\ vgr' \in {"ENTER_IDLE", "PICKUP2DELIVERY"} /\ UNCHANGED at
  BY DEF MovePickupWait, MovePickup, In, Goto, Desk, Calm, Handless, Elsewhere, OrderStates
<1>2. /\ flow'.order.uid = flow.order.uid /\ flow'.order.wp = flow.order.wp /\ flow'.hbw = flow.hbw
      /\ board' = Show(flow.order.uid, s)
  BY <1>1, OrderSays DEF Types, RobotOK
<1>3. /\ vgr \in OnOrder /\ vgr' \notin Rejoined \cup Telling \cup Failing \cup Fetching \cup Served /\ "reqOrder" \notin raised
      /\ vgr \notin Near /\ vgr' \notin Near
  BY <1>1 DEF OnOrder, Served, Rejoined, Telling, Ordered, Failing, Fetching, HeadMarks, Near, Making
<1>4. LineMailSame /\ Words'
  BY <1>1, <1>2, <1>3, SilentWords
<1>5. InHands' /\ TagsTrue' /\ HistoryTrue' /\ FurnaceSame
  <2>1. CASE UNCHANGED at
    BY <1>1, <1>3, <2>1, HandsStill, HandsSame
  <2>2. CASE vgr = "MOVE_PICKUP_WAIT" /\ Move("gripper", "dso")
    <3>1. \A p \in Held("gripper") : tag[p].state # "RAW"
      <4>1. HistoryTrue
        OBVIOUS
      <4>2. \A p \in Held("gripper") : tag[p] = [type |-> ColourOf[p], state |-> "PROCESSED"]
        BY <2>2, <4>1 DEF HistoryTrue
      <4>3. \A c : [type |-> c, state |-> "PROCESSED"].state # "RAW"
        OBVIOUS
      <4> QED BY <4>2, <4>3
    <3>2. "gripper" \notin Furnace /\ vgr' # "MOVE_PICKUP_WAIT" /\ PlantOK
      BY <1>3 DEF Furnace, Bays, Served, Types
    <3>3. UNCHANGED <<tag, hist>>
      BY <1>1
    <3>4. /\ TagsTrue' /\ HistoryTrue'
          /\ \A p \in Parts : at'[p] = at[p] \/ (at[p] \notin Furnace /\ at'[p] \notin Furnace)
      BY <2>2, <3>1, <3>2, <3>3, Carried
    <3>5. InHands'
      BY <1>3 DEF InHands, Telling
    <3> QED BY <3>4, <3>5, FurnaceFar
  <2> QED BY <1>1, <2>1, <2>2
<1>6. OvenAndLine' /\ Line' = Line /\ ~Burnt /\ ~Burnt' /\ LineMail'
  BY <1>1, <1>3, <1>4, <1>5, FarFromLine
<1>7. Shown' /\ Orders' /\ Unfailing'
  <2>1. vgr' \in DOMAIN StageOf => s = StageOf[vgr']
    BY <1>1 DEF StageOf
  <2>2. vgr' # "VGR_WAIT_FETCHED" /\ vgr' \notin Failing \cup {"FETCH_WP_VGR_ORDER"}
    BY <1>3 DEF Fetching
  <2> QED BY <1>1, <1>2, <1>3, <1>6, <2>1, <2>2, OnTheWay
<1>8. OrderRight'
  BY <1>1, <1>2, <1>3, OneOrder DEF OrderRight
<1> QED BY <1>4, <1>5, <1>6, <1>7, <1>8 DEF OvenAndLine, Words

-----------------------------------------------------------------------------
(* The workpiece for an order goes to the oven.                            *)

\* Whom the robot asks to burn it.
LEMMA OvenOrdered ==
  ASSUME HandoverInv, LineInv, UNCHANGED stationVars, MoveVgr2Mpo
  PROVE  LineInv'
<1> DEFINE m == VgrDo("PRODUCE", Flow(flow.order))
           p == flow.order.wp.uid
<1> USE DEF HandoverInv, LineInv
<1>1. /\ vgr = "MOVE_VGR2MPO" /\ vgr' = "RELEASE_MPO" /\ raised \cap HeadMarks = {} /\ Publish(m)
      /\ ReportOrder(OrderIs("TRANSPORT_TO_PROCESS_STATION")) /\ Stamp(p, {"PROCESSING_OVEN"})
      /\ UNCHANGED <<raised, wait, asked, at, tag>> /\ UNCHANGED storage /\ UNCHANGED hbwVars
  BY DEF MoveVgr2Mpo, In, Goto, Desk, Handless, Elsewhere
<1>2. FlowOK /\ MailOK /\ hist \in [Parts -> SUBSET HistoryIndex] /\ Words
  BY DEF Types, RobotOK, Words
<1>3. /\ flow'.order.uid = flow.order.uid /\ flow'.order.wp = flow.order.wp /\ flow'.hbw = flow.hbw
      /\ board' = Show(flow.order.uid, "TRANSPORT_TO_PROCESS_STATION")
  BY <1>1, <1>2, OrderSays
<1>4. m \in Letters /\ m.topic = "vgr/do" /\ m.code = "PRODUCE" /\ m.flow = Flow(flow.order)
  BY <1>2, Rewritten, Sendings DEF VgrDo, Msg
<1>5. /\ p \in Parts /\ Right(Flow(flow.order)) /\ Held("gripper") = {p}
      /\ hist' = [hist EXCEPT ![p] = @ \cup {"PROCESSING_OVEN"}]
  BY <1>1 DEF OrderRight, Served, Right, Flow, Workflow, InHands, Ordered, Stamp
<1>6. /\ vgr \in OnOrder /\ vgr' \notin Rejoined \cup Failing \cup Fetching /\ "reqOrder" \notin raised /\ vgr \notin Making
      /\ vgr' # "NFC_PRODUCED" /\ vgr' \in Making /\ vgr' # "START_PRODUCE" /\ vgr # "START_PRODUCE"
  BY <1>1 DEF OnOrder, Served, Rejoined, Failing, Fetching, HeadMarks, Making
<1> HIDE DEF m, p
<1>7. Produce = {} /\ mpoQ = <<>> /\ mpo # "WAIT_OVEN" /\ ~Burnt
  BY <1>6 DEF OvenTalk
<1>8. /\ LineMail' /\ Produce' = {m} /\ Started' = Started /\ Noticed' = Noticed /\ Sorted' = Sorted
      /\ \A x, y \in Parts : Before(mail["SLD"], Naming(x), Naming(y)) => Before(mail'["SLD"], Naming(x), Naming(y))
  BY <1>1, <1>2, <1>4, <1>7, LoudPost
<1>9. ~Burnt'
  BY <1>1, <1>7, <1>8 DEF Burnt
<1>10. Words'
  <2>1. Sent' = Sent /\ Stores' = Stores /\ Fetched' = Fetched
    <3>1. m.code \notin RackCodes /\ EachOnce
      BY <1>4 DEF RackCodes, ReqCodes, Talk, OneRequest
    <3>2. MailSame
      BY <1>1, <1>2, <1>4, <3>1, Silence
    <3> QED BY <3>2 DEF MailSame, Fetched
  <2>2. "hbwFetched" \in raised' => flow'.hbw = hbwReq.wp
    BY <1>1, <1>3 DEF FetchedAsWanted
  <2>3. UNCHANGED <<storage, hbwVars>>
    BY <1>1
  <2> QED BY <1>1, <1>2, <1>6, <2>1, <2>2, <2>3, WordsGo
<1>11. \A place : Held(place)' = Held(place)
  BY <1>1 DEF Held
<1>12. Line' = Line /\ LineRight' /\ NoDouble' /\ InTurn' /\ InSorter' /\ InBays'
  <2>1. OvenAndLine /\ AskedGrows /\ UNCHANGED stationVars
    BY <1>1 DEF OvenAndLine, AskedGrows
  <2> QED BY <1>1, <1>6, <1>8, <1>11, <2>1, LineRests
<1>13. UNCHANGED <<mpo, mpoQ, mpoReq>>
  BY DEF stationVars
<1>14. OvenTalk' /\ InOven'
  <2>1. Flow(flow.order)' = Flow(flow.order)
    BY <1>3 DEF Flow
  <2>2. OvenTalk'
    <3>1. Started' = {} /\ mpoQ' = <<>> /\ mpo' # "WAIT_OVEN"
      BY <1>7, <1>9, <1>13 DEF Burnt
    <3>2. Len(mpoQ') <= 1
      BY <1>13 DEF OvenTalk
    <3> QED BY <1>4, <1>6, <1>8, <1>9, <2>1, <3>1, <3>2 DEF OvenTalk
  <2>3. InOven'
    BY <1>6, <1>11, <1>13 DEF InOven
  <2> QED BY <2>2, <2>3
<1>15. Shown' /\ Orders' /\ Unfailing'
  <2>1. vgr' \in DOMAIN StageOf => StageOf[vgr'] = "TRANSPORT_TO_PROCESS_STATION"
    BY <1>1 DEF StageOf
  <2>2. UNCHANGED <<stationVars, asked>> /\ wait'.orders = wait.orders /\ raised' \subseteq raised
    BY <1>1
  <2>3. vgr' \notin Failing \cup {"FETCH_WP_VGR_ORDER"} /\ vgr' # "VGR_WAIT_FETCHED"
    BY <1>6 DEF Fetching
  <2> QED BY <1>3, <1>6, <1>7, <1>9, <1>12, <2>1, <2>2, <2>3, OnTheWay
<1>16. OrderRight'
  BY <1>1, <1>3, <1>5 DEF OrderRight, Right, Flow, Workflow
<1>17. InHands' /\ TagsTrue'
  BY <1>1, <1>3, <1>5, <1>11 DEF InHands, TagsTrue, p
<1>18. HistoryTrue'
  <2>1. Stamps(vgr') = Stamps(vgr) \cup {"PROCESSING_OVEN"} /\ RawStamps(vgr') = {}
    BY <1>1 DEF Stamps, RawStamps, Sawn
  <2>2. \A x \in Parts : hist'[x] = IF x = p THEN hist[x] \cup {"PROCESSING_OVEN"} ELSE hist[x]
    BY <1>2, <1>5
  <2>3. \A x \in Parts : at[x] = "gripper" <=> x = p
    BY <1>5 DEF Held
  <2> QED BY <1>1, <2>1, <2>2, <2>3 DEF HistoryTrue
<1> QED BY <1>8, <1>10, <1>12, <1>14, <1>15, <1>16, <1>17, <1>18 DEF Words

\* The workpiece goes into the oven, and the request to it.
LEMMA OvenLoaded ==
  ASSUME HandoverInv, LineInv, UNCHANGED stationVars, ReleaseMpo
  PROVE  LineInv'
<1> DEFINE p == flow.order.wp.uid
<1> USE DEF HandoverInv, LineInv
<1>1. /\ vgr = "RELEASE_MPO" /\ vgr' = "START_PRODUCE" /\ raised \cap HeadMarks = {} /\ Held("oven") = {} /\ Move("gripper", "oven")
      /\ UNCHANGED <<flow, raised, hist, board, wait, asked, mail, tag>> /\ UNCHANGED storage /\ UNCHANGED hbwVars
  BY DEF ReleaseMpo, In, Goto, Desk, Calm, Elsewhere
<1>2. Right(Flow(flow.order)) /\ p \in Parts /\ Held("gripper") = {p}
  BY <1>1 DEF OrderRight, Served, Right, Flow, Workflow, InHands, Ordered
<1>3. /\ vgr \in OnOrder /\ vgr' \notin Rejoined \cup Failing \cup Fetching \cup Telling /\ "reqOrder" \notin raised
      /\ vgr' # "NFC_PRODUCED" /\ vgr' \in Making /\ vgr \in Making /\ vgr # "START_PRODUCE"
  BY <1>1 DEF OnOrder, Served, Rejoined, Failing, Fetching, Telling, Ordered, HeadMarks, Making
<1>4. \A x \in Parts : at'[x] = IF at[x] = "gripper" THEN "oven" ELSE at[x]
  BY <1>1 DEF Move
<1>5. /\ Held("oven")' = {p} /\ \A place : place \notin {"gripper", "oven"} => Held(place)' = Held(place)
  BY <1>1, <1>2, <1>4 DEF Held
<1>6. LineMailSame /\ Words'
  BY <1>1, <1>3, SilentWords
<1>7. ~Burnt /\ ~Burnt'
  BY <1>1, <1>3, <1>6 DEF OvenTalk, Burnt, LineMailSame
<1> HIDE DEF p
<1>8. Line' = Line /\ LineRight' /\ NoDouble' /\ InTurn' /\ InSorter' /\ InBays'
  <2>1. OvenAndLine /\ AskedGrows /\ UNCHANGED stationVars
    BY <1>1 DEF OvenAndLine, AskedGrows
  <2>2. \A x \in Line : at'[x.wp.uid] = at[x.wp.uid]
    <3>1. \A x \in Line : x.wp.uid \in Parts /\ at[x.wp.uid] # "gripper"
      BY LinePlaces DEF Line, Bays
    <3> QED BY <1>4, <3>1
  <2> QED BY <1>1, <1>3, <1>5, <1>6, <2>1, <2>2, LineRests DEF LineMailSame
<1>9. UNCHANGED <<mpo, mpoQ, mpoReq>>
  BY DEF stationVars
<1>10. OvenTalk' /\ InOven'
  <2>1. OvenTalk'
    BY <1>1, <1>3, <1>6, <1>7, <1>9 DEF OvenTalk, LineMailSame, Flow
  <2>2. mpo # "BURN"
    BY <1>1 DEF InOven
  <2>3. InOven'
    BY <1>1, <1>5, <1>7, <1>9, <2>2 DEF InOven, p
  <2> QED BY <2>1, <2>3
<1>11. Shown' /\ Orders' /\ Unfailing'
  <2>1. board' = Show(flow.order.uid, board[flow.order.uid])
    BY <1>1, <1>3, AlreadyShown
  <2>2. vgr' \in DOMAIN StageOf => board[flow.order.uid] = StageOf[vgr']
    BY <1>1 DEF StageOf, Shown
  <2>3. UNCHANGED <<stationVars, asked>> /\ wait'.orders = wait.orders /\ raised' \subseteq raised /\ flow'.order.uid = flow.order.uid
    BY <1>1
  <2>4. vgr' \notin Failing \cup {"FETCH_WP_VGR_ORDER"} /\ vgr' # "VGR_WAIT_FETCHED"
    BY <1>3 DEF Fetching
  <2> QED BY <1>3, <1>7, <1>8, <2>1, <2>2, <2>3, <2>4, OnTheWay
<1>12. OrderRight'
  BY <1>1, <1>2 DEF OrderRight, Right, Flow, Workflow
<1>13. InHands' /\ TagsTrue'
  BY <1>1, <1>3 DEF InHands, TagsTrue, Telling
<1>14. HistoryTrue'
  <2>1. Stamps(vgr) = Sawn /\ Stamps(vgr') = {} /\ RawStamps(vgr') = {}
    BY <1>1 DEF Stamps, RawStamps
  <2> QED BY <1>1, <1>4, <2>1 DEF HistoryTrue
<1> QED BY <1>6, <1>8, <1>10, <1>11, <1>12, <1>13, <1>14 DEF Words, LineMailSame

\* The oven has started.
LEMMA OvenStarted ==
  ASSUME HandoverInv, LineInv, UNCHANGED stationVars, StartProduce
  PROVE  LineInv'
<1> DEFINE u == flow.order.uid
<1> USE DEF HandoverInv, LineInv
<1>1. /\ vgr = "START_PRODUCE" /\ vgr' = "ENTER_IDLE" /\ raised \cap HeadMarks = {} /\ "mpoStarted" \in raised
      /\ raised' = raised \ {"mpoStarted"} /\ ReportOrder(OrderIs("IN_PROCESS"))
      /\ UNCHANGED <<hist, wait, asked, mail, at, tag>> /\ UNCHANGED storage /\ UNCHANGED hbwVars
  BY DEF StartProduce, In, Goto, Desk, Calm, Elsewhere, Handless, Turn, Unfailing
<1>2. flow'.hbw = flow.hbw /\ board' = Show(u, "IN_PROCESS")
  BY <1>1, OrderSays DEF Types, RobotOK
<1>3. /\ vgr \in OnOrder /\ vgr' \notin Rejoined \cup Failing \cup Fetching \cup Telling \cup Making \cup Served
      /\ vgr' \notin DOMAIN StageOf /\ vgr' # "MOVE_PICKUP" /\ vgr' # "NFC_PRODUCED"
  BY <1>1 DEF OnOrder, Served, Rejoined, Failing, Fetching, Telling, Ordered, Making, StageOf
<1>4. LineMailSame /\ Words'
  BY <1>1, <1>2, <1>3, SilentWords
<1>5. Burnt /\ Started = {} /\ Produce = {} /\ mpoQ = <<>> /\ mpo # "WAIT_OVEN"
  BY <1>1 DEF OvenTalk, Burnt
<1>6. ~Burnt'
  BY <1>1, <1>4, <1>5 DEF Burnt, LineMailSame
<1>7. \A place : Held(place)' = Held(place)
  BY <1>1 DEF Held
<1>8. Line' = Line /\ LineRight' /\ NoDouble' /\ InTurn' /\ InSorter' /\ InBays'
  <2>1. OvenAndLine /\ AskedGrows /\ UNCHANGED stationVars
    BY <1>1 DEF OvenAndLine, AskedGrows
  <2> QED BY <1>1, <1>3, <1>4, <1>7, <2>1, LineRests DEF LineMailSame
<1>9. UNCHANGED <<mpo, mpoQ, mpoReq, sld>>
  BY DEF stationVars
<1>10. OvenTalk' /\ InOven'
  <2>1. Produce' = {} /\ Started' = {} /\ Len(mpoQ') <= 1
    BY <1>4, <1>5, <1>9 DEF LineMailSame, OvenTalk
  <2>2. OvenTalk'
    BY <1>3, <1>5, <1>6, <1>9, <2>1 DEF OvenTalk
  <2>3. InOven'
    BY <1>1, <1>5, <1>6, <1>7, <1>9 DEF InOven
  <2> QED BY <2>2, <2>3
<1>11. u \in DOMAIN asked /\ \A i \in DOMAIN wait.orders : wait.orders[i].uid # u
  BY <1>3, OneOrder
<1>12. u \in 1 .. MaxRequests /\ \A o \in 1 .. MaxRequests : board'[o] = IF o = u THEN "IN_PROCESS" ELSE board[o]
  BY <1>2, <1>11, AskedOnBoard
<1>13. \A o \in DOMAIN asked : o \in 1 .. MaxRequests
  BY AskedOnBoard
<1> HIDE DEF u
<1>14. Shown'
  <2>1. \A o \in 1 .. MaxRequests : o \notin DOMAIN asked' => board'[o] = "WAITING_FOR_ORDER"
    BY <1>1, <1>11, <1>12 DEF Shown
  <2>2. \A i \in DOMAIN wait'.orders : board'[wait'.orders[i].uid] \in {"WAITING_FOR_ORDER", "ORDER_ACKNOWLEDGED"}
    <3>1. \A i \in DOMAIN wait.orders : wait.orders[i].uid \in 1 .. MaxRequests
      BY <1>13 DEF Orders, Fresh
    <3> QED BY <1>1, <1>11, <1>12, <3>1 DEF Shown
  <2>3. \A x \in Line : board'[x.uid] = "IN_PROCESS"
    <3>1. \A x \in Line : x.uid \in 1 .. MaxRequests
      BY <1>13 DEF LineRight, Right
    <3> QED BY <1>12, <3>1 DEF Shown, u
  <2> QED BY <1>3, <1>8, <2>1, <2>2, <2>3 DEF Shown
<1>15. Orders' /\ OrderRight' /\ Unfailing'
  BY <1>1, <1>3, <1>9 DEF Orders, Fresh, OrderRight, Unfailing, Failing, HeadMarks
<1>16. InHands' /\ TagsTrue' /\ HistoryTrue'
  BY <1>1, <1>3, HandsStill
<1> QED BY <1>4, <1>8, <1>10, <1>14, <1>15, <1>16 DEF Words, LineMailSame

-----------------------------------------------------------------------------
(* The robot takes the workpiece from its bay.                             *)

\* The robot finds in the bay the workpiece of its order.
LEMMA TakenFromBay ==
  ASSUME HandoverInv, LineInv, NfcProduced, UNCHANGED faults
  PROVE  LET p == flow.order.wp.uid IN
         /\ p \in Parts /\ Right(Flow(flow.order)) /\ at[p] = Bay(flow.order.wp.type)
         /\ vgr' = "MOVE_PICKUP_WAIT" /\ at' = [at EXCEPT ![p] = "gripper"]
         /\ flow'.order.uid = flow.order.uid /\ flow'.order.wp = flow.order.wp /\ flow'.hbw = flow.hbw
         /\ board' = Show(flow.order.uid, "WAITING_FOR_QA")
         /\ \A x \in Parts : hist'[x] = IF x = p THEN hist[x] \cup {"SORTING", "SHIPPING"} ELSE hist[x]
         /\ tag' = [tag EXCEPT ![p] = [type |-> flow.order.wp.type, state |-> "PROCESSED"]]
<1> DEFINE p == flow.order.wp.uid
           bay == Held(Bay(flow.order.wp.type))
           o == [flow.order EXCEPT !.state = "WAITING_FOR_QA", !.wp.uid = p]
<1> USE DEF HandoverInv, LineInv
<1>1. vgr = "NFC_PRODUCED"
  BY DEF NfcProduced, In
<1>2. Right(Flow(flow.order)) /\ p \in Parts /\ at[p] = Bay(flow.order.wp.type)
  BY <1>1 DEF OrderRight, Served, Right, Flow, Workflow, InBays
<1>3. p \in bay
  BY <1>2 DEF Held
<1>4. ~Misread /\ FlowOK /\ hist \in [Parts -> SUBSET HistoryIndex]
  BY NoMisread DEF Types, RobotOK
<1>5. /\ ReportOrder(o) /\ vgr' = "MOVE_PICKUP_WAIT" /\ at' = [at EXCEPT ![p] = "gripper"]
      /\ hist' = [[hist EXCEPT ![p] = @ \cup {"SORTING"}] EXCEPT ![p] = @ \cup {"SHIPPING"}]
      /\ tag' = [tag EXCEPT ![p] = [type |-> flow.order.wp.type, state |-> "PROCESSED"]]
  BY <1>2, <1>3, <1>4 DEF NfcProduced, Goto
<1>6. \A x \in Parts : hist'[x] = IF x = p THEN hist[x] \cup {"SORTING", "SHIPPING"} ELSE hist[x]
  BY <1>2, <1>4, <1>5
<1>7. o.uid = flow.order.uid /\ o.wp = flow.order.wp /\ o.state = "WAITING_FOR_QA"
  BY <1>4 DEF FlowOK, OrderRec, Workpiece
<1> HIDE DEF o
<1>8. /\ flow'.order.uid = flow.order.uid /\ flow'.order.wp = flow.order.wp /\ flow'.hbw = flow.hbw
      /\ board' = Show(flow.order.uid, "WAITING_FOR_QA")
  BY <1>4, <1>5, <1>7 DEF ReportOrder, FlowOK
<1> QED BY <1>2, <1>5, <1>6, <1>8

\* So that the invariant is kept.
LEMMA ReadyLine ==
  ASSUME HandoverInv, LineInv, UNCHANGED <<stationVars, faults>>, NfcProduced
  PROVE  LineInv'
<1> DEFINE p == flow.order.wp.uid
<1> USE DEF HandoverInv, LineInv
<1>1. /\ vgr = "NFC_PRODUCED" /\ raised \cap HeadMarks = {}
      /\ UNCHANGED <<raised, wait, asked, mail>> /\ UNCHANGED storage /\ UNCHANGED hbwVars
  BY DEF NfcProduced, In, Desk, Calm, Elsewhere
<1>2. /\ p \in Parts /\ Right(Flow(flow.order)) /\ at[p] = Bay(flow.order.wp.type)
      /\ vgr' = "MOVE_PICKUP_WAIT" /\ at' = [at EXCEPT ![p] = "gripper"]
      /\ flow'.order.uid = flow.order.uid /\ flow'.order.wp = flow.order.wp /\ flow'.hbw = flow.hbw
      /\ board' = Show(flow.order.uid, "WAITING_FOR_QA")
      /\ \A x \in Parts : hist'[x] = IF x = p THEN hist[x] \cup {"SORTING", "SHIPPING"} ELSE hist[x]
      /\ tag' = [tag EXCEPT ![p] = [type |-> flow.order.wp.type, state |-> "PROCESSED"]]
  BY TakenFromBay
<1>3. /\ vgr \in OnOrder /\ vgr' \notin Rejoined \cup Failing \cup Fetching /\ "reqOrder" \notin raised
      /\ vgr' # "NFC_PRODUCED" /\ vgr' \notin Making /\ vgr \notin Making /\ Held("gripper") = {} /\ vgr' \in Ordered
      /\ vgr # "START_PRODUCE" /\ vgr' # "START_PRODUCE"
  BY <1>1, <1>2 DEF OnOrder, Served, Rejoined, Failing, Fetching, HeadMarks, Making, InGripper, Loaded, Ordered
<1>4. at[p] \in Bays /\ flow.order.wp.type = ColourOf[p]
  BY <1>2 DEF Bay, Bays, Right, Flow, Workflow
<1>5. at \in [Parts -> Places] /\ tag \in [Parts -> Tags] /\ p \in Parts
  BY <1>2 DEF Types, PlantOK
<1> HIDE DEF p
<1>6. /\ \A x \in Parts : at'[x] = IF x = p THEN "gripper" ELSE at[x]
      /\ \A x \in Parts : tag'[x] = IF x = p THEN [type |-> ColourOf[p], state |-> "PROCESSED"] ELSE tag[x]
  BY <1>2, <1>4, <1>5 DEF p
<1>7. /\ Held("gripper")' = {p}
      /\ \A place : place \notin Bays \cup {"gripper"} => Held(place)' = Held(place)
  BY <1>3, <1>4, <1>5, <1>6 DEF Held
<1>8. LineMailSame /\ Words'
  <2>1. \A x \in Parts : at[x] = "rack" => tag'[x] = tag[x]
    BY <1>4, <1>6 DEF Bays
  <2>2. flow'.hbw = flow.hbw /\ vgr' \notin Rejoined /\ UNCHANGED <<mail, stationVars>> /\ raised' \subseteq raised
    BY <1>1, <1>2, <1>3
  <2> QED BY <1>1, <2>1, <2>2, SilentWords
<1>9. ~Burnt /\ ~Burnt'
  BY <1>1, <1>3, <1>8 DEF OvenTalk, Burnt, LineMailSame
<1>10. Line' = Line /\ LineRight' /\ NoDouble' /\ InTurn' /\ InSorter' /\ InBays'
  <2>1. OvenAndLine /\ AskedGrows /\ UNCHANGED stationVars
    BY <1>1 DEF OvenAndLine, AskedGrows
  <2>2. \A x \in Line : at'[x.wp.uid] = at[x.wp.uid]
    <3>1. \A x \in Line : x.wp.uid \in Parts /\ x.wp.uid # p
      BY <1>1 DEF LineRight, Right, InBays, p
    <3> QED BY <1>6, <3>1
  <2>3. Held("sensor")' = Held("sensor") /\ Held("sorter")' = Held("sorter")
    BY <1>7 DEF Bays
  <2> QED BY <1>1, <1>3, <1>8, <2>1, <2>2, <2>3, LineRests DEF LineMailSame
<1>11. UNCHANGED <<mpo, mpoQ, mpoReq>>
  BY DEF stationVars
<1>12. OvenTalk' /\ InOven'
  <2>1. Produce' = {} /\ Started' = {} /\ mpoQ' = <<>> /\ mpo' # "WAIT_OVEN" /\ Len(mpoQ') <= 1
    BY <1>3, <1>8, <1>11 DEF OvenTalk, Burnt, LineMailSame
  <2>2. OvenTalk'
    BY <1>3, <1>9, <2>1 DEF OvenTalk
  <2>3. Held("oven")' = Held("oven") /\ Held("mpo")' = Held("mpo")
    BY <1>7 DEF Bays
  <2>4. InOven'
    BY <1>3, <1>11, <2>3 DEF InOven
  <2> QED BY <2>2, <2>4
<1>13. Shown' /\ Orders' /\ Unfailing'
  <2>1. vgr' \in DOMAIN StageOf => StageOf[vgr'] = "WAITING_FOR_QA"
    BY <1>2 DEF StageOf
  <2>2. UNCHANGED <<stationVars, asked>> /\ wait'.orders = wait.orders /\ raised' \subseteq raised
    BY <1>1
  <2>3. vgr' \notin Failing \cup {"FETCH_WP_VGR_ORDER"} /\ vgr' # "VGR_WAIT_FETCHED"
    BY <1>3 DEF Fetching
  <2> QED BY <1>2, <1>3, <1>9, <1>10, <2>1, <2>2, <2>3, OnTheWay
<1>14. OrderRight'
  BY <1>1, <1>2 DEF OrderRight, Right, Flow, Workflow
<1>15. InHands' /\ TagsTrue'
  <2>1. InHands'
    BY <1>2, <1>7 DEF InHands, p
  <2>2. TagsTrue'
    BY <1>6 DEF TagsTrue
  <2> QED BY <2>1, <2>2
<1>16. HistoryTrue'
  <2>1. Stamps(vgr') = Sawn \cup {"SORTING", "SHIPPING"} /\ RawStamps(vgr') = {}
    BY <1>2 DEF Stamps, RawStamps
  <2>2. \A x \in Parts : hist'[x] = IF x = p THEN hist[x] \cup {"SORTING", "SHIPPING"} ELSE hist[x]
    BY <1>2 DEF p
  <2>3. "gripper" \notin Furnace /\ at[p] \in Furnace
    BY <1>4 DEF Furnace, Bays
  <2>4. \A x \in Parts : x # p => at[x] # "gripper"
    BY <1>3 DEF Held
  <2>5. \A x \in Held("gripper")' : tag'[x] = [type |-> ColourOf[x], state |-> "PROCESSED"]
    BY <1>5, <1>6, <1>7
  <2>6. /\ "PROCESSING_MILLING" \notin hist'[p] /\ at'[p] = "gripper" /\ at'[p] \notin Furnace
        /\ Stamps(vgr') \subseteq hist'[p] /\ RawStamps(vgr') = {}
    BY <1>5, <1>6, <2>1, <2>2, <2>3 DEF HistoryTrue
  <2>7. ASSUME NEW x \in Parts, x # p
        PROVE  /\ "PROCESSING_MILLING" \notin hist'[x] /\ at'[x] # "gripper"
               /\ at'[x] \in {"outside", "dsi"} => tag'[x].state # "RAW"
               /\ at'[x] \in {"rack", "dso"} /\ tag'[x].state = "RAW" => Delivered \subseteq hist'[x]
               /\ at'[x] \in Furnace => Sawn \subseteq hist'[x]
    BY <1>6, <2>2, <2>4, <2>7 DEF HistoryTrue
  <2> QED BY <2>5, <2>6, <2>7 DEF HistoryTrue
<1> QED BY <1>8, <1>10, <1>12, <1>13, <1>14, <1>15, <1>16 DEF Words, LineMailSame

\* The robot goes for the workpiece that is sorted.
LEMMA SortedTaken ==
  ASSUME HandoverInv, LineInv, IdleSorted
  PROVE  LET f == Flow(Head(wait.sorted)) IN
         /\ vgr = "IDLE" /\ vgr' = "NFC_PRODUCED" /\ "reqOrder" \notin raised /\ raised' \subseteq raised
         /\ "mpoStarted" \in raised' <=> "mpoStarted" \in raised
         /\ f \in Sortable /\ f \in Line /\ Right(f)
         /\ flow'.order.uid = f.uid /\ flow'.order.wp = f.wp /\ flow'.hbw = flow.hbw /\ board' = Show(f.uid, "ORDER_PROCESSED")
         /\ wait'.orders = wait.orders /\ wait'.sorted = Tail(wait.sorted)
         /\ Sortable' = Sortable \ {f} /\ \A x \in Flows : Once(wait'.sorted, AsOrder(x))
<1> DEFINE q == wait.sorted
           s == Head(q)
           f == Flow(s)
           o == [s EXCEPT !.state = "ORDER_PROCESSED"]
<1> USE DEF HandoverInv, LineInv
<1>1. q \in Seq(OrderRec) /\ q # <<>> /\ FlowOK /\ WaitOK
  BY DEF IdleSorted, SortedPending, Types, RobotOK, WaitOK
<1>2. s \in OrderRec /\ s = q[1] /\ 1 \in DOMAIN q
  BY <1>1, Behind
<1>3. f \in Flows /\ s \in AsOrder(f)
  BY <1>2 DEF Flow, Workflow, Flows, OrderRec, AsOrder
<1>4. s \in Of(q, AsOrder(f))
  BY <1>2, <1>3 DEF Of
<1>5. f \in Sortable /\ f \in Line /\ Right(f)
  BY <1>3, <1>4 DEF Sortable, Line, LineRight
<1>6. s.wp.type \in Colours /\ f.uid = s.uid /\ f.wp = s.wp
  BY <1>5, TxtConstants DEF Right, Flow, Workflow
<1>7. /\ vgr = "IDLE" /\ vgr' = "NFC_PRODUCED" /\ raised \cap HeadMarks = {} /\ raised' = raised \ {"sldSorted"}
      /\ ReportOrder(o) /\ wait' = [wait EXCEPT !.sorted = Tail(q)]
  BY <1>6 DEF IdleSorted, In, Goto, Turn
<1>8. wait'.orders = wait.orders /\ wait'.sorted = Tail(q)
  BY <1>1, <1>7 DEF WaitOK
<1>9. o.uid = s.uid /\ o.wp = s.wp /\ o.state = "ORDER_PROCESSED"
  BY <1>2 DEF OrderRec
<1> HIDE DEF o
<1>10. flow'.order.uid = f.uid /\ flow'.order.wp = f.wp /\ flow'.hbw = flow.hbw /\ board' = Show(f.uid, "ORDER_PROCESSED")
  BY <1>1, <1>6, <1>7, <1>9 DEF ReportOrder, FlowOK
<1>11. /\ \A x \in Flows : Once(Tail(q), AsOrder(x)) /\ (x # f => Of(Tail(q), AsOrder(x)) = Of(q, AsOrder(x)))
       /\ Of(Tail(q), AsOrder(f)) = {}
  <2>1. ASSUME NEW x \in Flows
        PROVE  /\ Once(Tail(q), AsOrder(x)) /\ (x # f => Of(Tail(q), AsOrder(x)) = Of(q, AsOrder(x)))
               /\ x = f => Of(Tail(q), AsOrder(x)) = {}
    <3>1. Once(q, AsOrder(x))
      BY DEF NoDouble
    <3>2. x # f => s \notin AsOrder(x)
      BY DEF AsOrder
    <3> HIDE DEF q, f
    <3>3. s = Head(q)
      OBVIOUS
    <3> HIDE DEF s
    <3> QED BY <1>1, <1>3, <3>1, <3>2, <3>3, OfTail
  <2> QED BY <1>3, <2>1
<1>12. Sortable' = Sortable \ {f}
  BY <1>8, <1>11 DEF Sortable, AsOrder
<1>13. "reqOrder" \notin raised
  BY <1>7 DEF HeadMarks
<1> QED BY <1>5, <1>7, <1>8, <1>10, <1>11, <1>12, <1>13

\* A sorted request becomes the order in hand.
LEMMA SortedLine ==
  ASSUME HandoverInv, LineInv, UNCHANGED stationVars, IdleSorted
  PROVE  LineInv'
<1> DEFINE f == Flow(Head(wait.sorted))
<1> USE DEF HandoverInv, LineInv
<1>1. UNCHANGED <<hist, asked, mail, at, tag>> /\ UNCHANGED storage /\ UNCHANGED hbwVars
  BY DEF IdleSorted, Handless, Calm, Elsewhere
<1>2. /\ vgr = "IDLE" /\ vgr' = "NFC_PRODUCED" /\ "reqOrder" \notin raised /\ raised' \subseteq raised
      /\ "mpoStarted" \in raised' <=> "mpoStarted" \in raised
      /\ f \in Sortable /\ f \in Line /\ Right(f)
      /\ flow'.order.uid = f.uid /\ flow'.order.wp = f.wp /\ flow'.hbw = flow.hbw /\ board' = Show(f.uid, "ORDER_PROCESSED")
      /\ wait'.orders = wait.orders /\ wait'.sorted = Tail(wait.sorted)
      /\ Sortable' = Sortable \ {f} /\ \A x \in Flows : Once(wait'.sorted, AsOrder(x))
  BY SortedTaken
<1> HIDE DEF f
<1>3. vgr' \notin Rejoined \cup Failing \cup Fetching \cup Telling \cup Making /\ vgr \notin Making
  BY <1>2 DEF Rejoined, Failing, Fetching, Telling, Ordered, Making
<1>4. LineMailSame /\ Words'
  BY <1>1, <1>2, <1>3, SilentWords
<1>5. InHands' /\ TagsTrue' /\ HistoryTrue'
  BY <1>1, <1>3, HandsStill
<1>6. ~Burnt /\ ~Burnt' /\ \A place : Held(place)' = Held(place)
  BY <1>1, <1>2, <1>3, <1>4 DEF OvenTalk, Burnt, LineMailSame, Held
<1>7. UNCHANGED <<mpo, mpoQ, mpoReq, sld, sldQ, sldReq, seen>>
  BY DEF stationVars
<1>8. /\ Queued' = Queued /\ Notices' = Notices /\ Announced' = Announced
      /\ Burning' = Burning /\ AtSorter' = AtSorter /\ Ejected' = Ejected /\ Coming' = Coming
  BY <1>4, <1>7 DEF LineMailSame, Queued, Notices, Announced, Burning, AtSorter, Ejected, Coming
<1>9. Line' = Line \ {f}
  <2>1. f \notin Burning \cup Queued \cup Notices \cup AtSorter
    BY <1>2, LinePlaces DEF Bays
  <2>2. f \notin Announced \cup Ejected
    BY <1>2 DEF NoDouble
  <2> QED BY <1>2, <1>8, <2>1, <2>2 DEF Line
<1>10. \A x \in Line' : x \in Line /\ x.uid # f.uid /\ x.wp.uid # f.wp.uid
  BY <1>2, <1>9 DEF LineRight
<1>11. LineRight' /\ NoDouble' /\ InTurn' /\ InSorter'
  <2>1. LineRight'
    BY <1>1, <1>9 DEF LineRight, Right
  <2>2. NoDouble'
    BY <1>2, <1>7, <1>8 DEF NoDouble, AsOrder
  <2>3. InTurn'
    <3>1. \A p \in Held("sensor"), q \in Coming : p \in Parts /\ q \in Parts
      BY DEF InOven, Coming, Held
    <3> QED BY <1>4, <1>6, <1>7, <1>8, <3>1 DEF InTurn, LineMailSame
  <2>4. InSorter'
    BY <1>6, <1>7 DEF InSorter, Sorting
  <2> QED BY <2>1, <2>2, <2>3, <2>4
<1>12. InBays'
  <2>1. at'[f.wp.uid] = Bay(f.wp.type)
    BY <1>1, <1>2 DEF InBays
  <2>2. \A x \in Ejected' \cup Announced' \cup Sortable' : at'[x.wp.uid] = Bay(x.wp.type)
    BY <1>1, <1>2, <1>8 DEF InBays
  <2> QED BY <1>2, <1>10, <2>1, <2>2 DEF InBays
<1>13. OvenTalk' /\ InOven'
  <2>1. Produce' = {} /\ Started' = {} /\ mpoQ' = <<>> /\ mpo' # "WAIT_OVEN" /\ Len(mpoQ') <= 1
    BY <1>3, <1>4, <1>6, <1>7 DEF OvenTalk, Burnt, LineMailSame
  <2>2. OvenTalk'
    BY <1>3, <1>6, <2>1 DEF OvenTalk
  <2>3. InOven'
    BY <1>2, <1>6, <1>7 DEF InOven
  <2> QED BY <2>2, <2>3
<1>14. OrderRight'
  BY <1>1, <1>2 DEF OrderRight, Right, Flow, Workflow
<1>15. Orders' /\ Unfailing'
  BY <1>1, <1>2, <1>3, <1>7 DEF Orders, Fresh, Unfailing, Failing
<1>16. f.uid \in DOMAIN asked /\ board[f.uid] = "IN_PROCESS"
  BY <1>2, <1>6 DEF Shown, Right
<1>17. f.uid \in 1 .. MaxRequests /\ \A u \in 1 .. MaxRequests : board'[u] = IF u = f.uid THEN "ORDER_PROCESSED" ELSE board[u]
  BY <1>2, <1>16, AskedOnBoard
<1>18. \A u \in DOMAIN asked : u \in 1 .. MaxRequests
  BY AskedOnBoard
<1>19. Shown'
  <2>1. \A u \in 1 .. MaxRequests : u \notin DOMAIN asked' => board'[u] = "WAITING_FOR_ORDER"
    BY <1>1, <1>16, <1>17 DEF Shown
  <2>2. \A i \in DOMAIN wait'.orders : board'[wait'.orders[i].uid] \in {"WAITING_FOR_ORDER", "ORDER_ACKNOWLEDGED"}
    <3>1. \A i \in DOMAIN wait.orders : wait.orders[i].uid \in 1 .. MaxRequests /\ wait.orders[i].uid # f.uid
      BY <1>16, <1>18 DEF Orders, Fresh, Shown
    <3> QED BY <1>2, <1>17, <3>1 DEF Shown
  <2>3. vgr' \in DOMAIN StageOf => StageOf[vgr'] = "ORDER_PROCESSED"
    BY <1>2 DEF StageOf
  <2>4. \A x \in Line' : board'[x.uid] = "IN_PROCESS"
    <3>1. \A x \in Line : x.uid \in 1 .. MaxRequests
      BY <1>18 DEF LineRight, Right
    <3> QED BY <1>6, <1>10, <1>17, <3>1 DEF Shown
  <2> QED BY <1>2, <1>3, <1>17, <2>1, <2>2, <2>3, <2>4 DEF Shown
<1> QED BY <1>4, <1>5, <1>11, <1>12, <1>13, <1>14, <1>15, <1>19 DEF Words, LineMailSame

-----------------------------------------------------------------------------
(* Every step of the factory without a failure.                            *)

\* The robot keeps the invariant.
LEMMA RobotLine ==
  ASSUME HandoverInv, LineInv, VgrRuns, UNCHANGED faults
  PROVE  LineInv'
<1>1. UNCHANGED stationVars /\ UNCHANGED <<stationVars, faults>>
  BY DEF VgrRuns
<1>2. CASE VgrReceive
  BY <1>1, <1>2, HearLine
<1>3. CASE VgrHead
  BY <1>1, <1>3, HeadLine
<1>4. CASE VgrMode \/ VgrInit \/ VgrFault \/ IdlePickup \/ IdleStore \/ IdleErrors
  BY <1>1, <1>4, QuietSteps
<1>5. CASE EnterIdle \/ EnterFault \/ DsiPickupDelivery \/ Pickup2Delivery \/ StoreFromDso \/ Hbw2Pickup \/ IdleDelivery
  BY <1>1, <1>5, CarryingSteps
<1>6. CASE IdleFault \/ NfcRejected \/ WrongColor \/ RecycleTrash
  BY <1>6 DEF LineInv, Unfailing, IdleFault, FaultPending, NfcRejected, WrongColor, RecycleTrash, In
<1>7. CASE IdleSorted \/ IdleOrder
  BY <1>1, <1>7, SortedLine, OrderTaken
<1>8. CASE FetchWpVgrOrder \/ VgrWaitFetched
  BY <1>1, <1>8, FetchLine, FetchedLine
<1>9. CASE MoveVgr2Mpo \/ ReleaseMpo \/ StartProduce
  BY <1>1, <1>9, OvenOrdered, OvenLoaded, OvenStarted
<1>10. CASE NfcProduced \/ MovePickupWait \/ MovePickup
  BY <1>1, <1>10, ReadyLine, ShippingSteps
<1>11. CASE StartDelivery \/ ColorDetection \/ NfcRaw
  BY <1>1, <1>11, TagRead, ColourSeen, TagWritten
<1>12. CASE StoreWpVgr \/ OrderWp \/ FetchWpVgrPickup
  BY <1>1, <1>12, AskingSteps
<1>13. CASE StoreWp \/ VgrWaitFetchedPickup
  BY <1>1, <1>13, PutAway, PickedUp
<1> QED BY <1>2, <1>3, <1>4, <1>5, <1>6, <1>7, <1>8, <1>9, <1>10, <1>11, <1>12, <1>13 DEF VgrRuns, VgrStep

\* A stutter keeps it.
LEMMA StandStill ==
  ASSUME HandoverInv, LineInv, UNCHANGED txtVars
  PROVE  LineInv'
<1>1. /\ UNCHANGED <<vgrVars, stationVars, tag>> /\ UNCHANGED <<mail, at>> /\ UNCHANGED <<storage, hbwVars>>
      /\ UNCHANGED <<vgr, flow, raised, tag, storage, hbwVars>>
  BY DEF txtVars, plant, vgrVars
<1>2. LineMailSame /\ MailSame
  BY <1>1, QuietMail, Silence DEF HandoverInv, Types, Talk, OneRequest, LineInv
<1>3. Words'
  BY <1>1, <1>2, StillWords DEF LineInv, Words
<1>4. FurnaceSame /\ Held("gripper")' = Held("gripper") /\ Held("dsi") \subseteq Held("dsi")'
  BY <1>1, HandsSame DEF Held
<1> QED BY <1>1, <1>2, <1>3, <1>4, Bystander

\* Every step without a failure keeps it.
LEMMA LineKept ==
  ASSUME HandoverInv, LineInv, [TxtNext]_txtVars, UNCHANGED faults
  PROVE  LineInv'
<1>1. CASE HbwRuns
  BY <1>1, RackLine
<1>2. CASE VgrRuns
  BY <1>2, RobotLine
<1>3. CASE MpoRuns
  BY <1>3, OvenLine
<1>4. CASE SldRuns
  BY <1>4, SorterLine
<1>5. CASE People
  BY <1>5, PeopleLine
<1>6. CASE UNCHANGED txtVars
  BY <1>6, StandStill
<1> QED BY <1>1, <1>2, <1>3, <1>4, <1>5, <1>6 DEF TxtNext

\* Failures are counted, and never forgotten.
LEMMA FaultsCount ==
  ASSUME HandoverInv, [TxtNext]_txtVars
  PROVE  UNCHANGED faults \/ faults' = faults + 1
<1>1. CASE HbwRuns \/ People \/ UNCHANGED txtVars
  <2>1. CASE HbwRuns \/ UNCHANGED txtVars
    BY <2>1 DEF HbwRuns, vgrVars, txtVars
  <2>2. CASE People
    <3>1. UNCHANGED vgrVars
      BY <2>2, PeopleParts DEF HandoverInv, Controllers
    <3> QED BY <3>1 DEF vgrVars
  <2> QED BY <1>1, <2>1, <2>2
<1>2. CASE VgrRuns
  BY <1>2, VgrStepParts DEF VgrRuns, VgrReceive, Misread
<1>3. CASE MpoRuns
  BY <1>3 DEF MpoRuns, MpoStep, MpoReceive, MpoInit, MpoEnterFault, MpoFault, MpoIdle, MpoStarted, MpoTimeout,
     MpoProcess, MpoEject, MpoTransport, MpoGoes, RobotAside, Misread, vgrVars
<1>4. CASE SldRuns
  BY <1>4 DEF SldRuns, SldStep, SldReceive, SldInit, SldEnterFault, SldFault, SldIdle, SldColorDetection,
     SldEject, SldSorted, SldGoes, RobotAside, Misread, vgrVars
<1> QED BY <1>1, <1>2, <1>3, <1>4 DEF TxtNext

\* Nothing has failed if nothing has failed after the step.
LEMMA NoneFailed ==
  ASSUME HandoverInv, [TxtNext]_txtVars, faults' = 0
  PROVE  faults = 0 /\ UNCHANGED faults
<1>1. faults \in Nat
  BY TxtConstants DEF HandoverInv, Types, RobotOK
<1> QED BY <1>1, FaultsCount

\* The factory starts with it.
LEMMA LineHolds == TxtInit => LineInv
<1> SUFFICES ASSUME TxtInit PROVE LineInv
  OBVIOUS
<1> USE DEF TxtInit
<1>1. \A c \in Clients : \A S : Of(mail[c], S) = {} /\ Once(mail[c], S)
  BY DEF Of, Once
<1>2. Produce = {} /\ Started = {} /\ Noticed = {} /\ Sorted = {} /\ BadNews = {} /\ ~Burnt
  BY <1>1 DEF Produce, Started, Noticed, Sorted, BadNews, Burnt, Clients
<1>3. Sent = {} /\ Stores = {} /\ Fetched = {} /\ ~Brought
  BY <1>1 DEF Sent, Stores, Fetched, Replies, Brought, Clients
<1>4. Queued = {} /\ Sortable = {} /\ \A S : Once(sldQ, S) /\ Once(wait.sorted, S)
  BY DEF Queued, Sortable, Of, Once
<1>5. Notices = {} /\ Announced = {} /\ Burning = {} /\ AtSorter = {} /\ Ejected = {} /\ Coming = {} /\ Line = {}
  BY <1>2, <1>4 DEF Notices, Announced, Burning, AtSorter, Sorting, Ejected, Coming, Line
<1>6. \A place : place \notin {"rack", "outside"} => Held(place) = {}
  BY DEF Held
<1>7. Unfailing /\ LineMail /\ InHands
  BY <1>1, <1>2 DEF Unfailing, LineMail, InHands, Clients, Ordered
<1>8. TagsTrue
  BY DEF TagsTrue
<1>9. RecordsHonest /\ FetchedAsWanted
  <2>1. ASSUME NEW s \in Slots, wp[s] # Null PROVE Honest(wp[s])
    <3>1. Stored[s] # NoUid /\ wp[s] = Raw(Stored[s])
      BY <2>1
    <3>2. Stored[s] \in Parts /\ InRack(Stored[s])
      BY <3>1, TxtConstants DEF InRack
    <3> QED BY <3>1, <3>2 DEF Honest, Raw, Wp
  <2> QED BY <1>3, <2>1 DEF RecordsHonest, FetchedAsWanted
<1>10. Orders /\ OrderRight
  BY TxtConstants DEF Orders, OrderRight, Served, Fetching
<1>11. OvenTalk /\ InOven
  BY <1>2, <1>6 DEF OvenTalk, InOven
<1>12. LineRight /\ NoDouble /\ InTurn /\ InSorter /\ InBays
  BY <1>4, <1>5, <1>6 DEF LineRight, NoDouble, InTurn, One, InSorter, Sorting, InBays
<1>13. Shown
  BY <1>5 DEF Shown, Fetching, StageOf
<1>14. HistoryTrue
  <2>1. Furnace \cap {"rack", "outside", "gripper", "dsi", "dso"} = {}
    BY DEF Furnace, Bays
  <2> QED BY <2>1 DEF HistoryTrue, Delivered
<1> QED BY <1>7, <1>8, <1>9, <1>10, <1>11, <1>12, <1>13, <1>14 DEF LineInv

Sound == HandoverInv /\ (faults = 0 => LineInv)
LEMMA SoundHolds == TxtInit => Sound
BY InvHolds, LineHolds DEF Sound

\* Up to the first failure it is kept.
LEMMA SoundKept == Sound /\ [TxtNext]_txtVars => Sound'
<1> SUFFICES ASSUME HandoverInv, faults = 0 => LineInv, [TxtNext]_txtVars PROVE Sound'
  BY DEF Sound
<1>1. HandoverInv'
  BY InvKept
<1>2. ASSUME faults' = 0 PROVE LineInv'
  BY <1>2, NoneFailed, LineKept
<1> QED BY <1>1, <1>2 DEF Sound

-----------------------------------------------------------------------------
(* What follows for the orders.                                            *)

\* The one about to be shipped is right, and its history is whole.
LEMMA SoundShips == Sound => ShippedAsOrdered /\ HistoryComplete
<1> SUFFICES ASSUME HandoverInv, LineInv, AboutToShip, NEW p \in Held("gripper")
             PROVE  /\ flow.order.uid \in DOMAIN asked /\ ColourOf[p] = asked[flow.order.uid]
                    /\ tag[p] = [type |-> ColourOf[p], state |-> "PROCESSED"]
                    /\ hist[p] = HistoryIndex \ {"PROCESSING_MILLING"}
  BY DEF Sound, NothingFailed, ShippedAsOrdered, HistoryComplete
<1> USE DEF LineInv
<1>1. vgr = "MOVE_PICKUP_WAIT" /\ p = flow.order.wp.uid /\ p \in Parts /\ at[p] = "gripper"
  BY DEF AboutToShip, InHands, Ordered, Held
<1>2. flow.order.uid \in DOMAIN asked /\ ColourOf[p] = asked[flow.order.uid]
  BY <1>1 DEF OrderRight, Served, Right, Flow, Workflow
<1>3. tag[p] = [type |-> ColourOf[p], state |-> "PROCESSED"]
  BY <1>1 DEF HistoryTrue
<1>4. hist[p] = HistoryIndex \ {"PROCESSING_MILLING"}
  <2>1. hist[p] \subseteq HistoryIndex
    BY <1>1 DEF HandoverInv, Types, RobotOK
  <2>2. Sawn \cup {"SORTING", "SHIPPING"} \subseteq hist[p] /\ "PROCESSING_MILLING" \notin hist[p]
    BY <1>1 DEF HistoryTrue, Stamps
  <2> QED BY <2>1, <2>2 DEF Sawn, Delivered, HistoryIndex
<1> QED BY <1>2, <1>3, <1>4

\* Who is sorted lies in its bay.
LEMMA SoundSorts == Sound => SortedLiesInBay
<1> SUFFICES ASSUME HandoverInv, LineInv, NEW i \in DOMAIN wait.sorted, NEW j \in DOMAIN wait.sorted
             PROVE  /\ wait.sorted[i].wp.uid \in Held(Bay(wait.sorted[i].wp.type))
                    /\ wait.sorted[i].wp.uid = wait.sorted[j].wp.uid => i = j
  BY DEF Sound, NothingFailed, SortedLiesInBay
<1> USE DEF LineInv
<1>1. \A k \in DOMAIN wait.sorted :
        LET f == Flow(wait.sorted[k]) IN
        f \in Flows /\ wait.sorted[k] \in AsOrder(f) /\ f.wp = wait.sorted[k].wp /\ f \in Sortable /\ f \in Line
  <2> TAKE k \in DOMAIN wait.sorted
  <2> DEFINE s == wait.sorted[k]
             f == Flow(s)
  <2>1. s \in OrderRec
    BY DEF HandoverInv, Types, RobotOK, WaitOK
  <2>2. f \in Flows /\ s \in Of(wait.sorted, AsOrder(f)) /\ s \in AsOrder(f) /\ f.wp = s.wp
    BY <2>1 DEF Flow, Workflow, Flows, OrderRec, AsOrder, Of
  <2> HIDE DEF s, f
  <2>3. f \in Sortable /\ f \in Line
    BY <2>2 DEF Sortable, Line
  <2> QED BY <2>2, <2>3 DEF s, f
<1>2. wait.sorted[i].wp.uid \in Held(Bay(wait.sorted[i].wp.type))
  BY <1>1 DEF LineRight, Right, InBays, Held
<1>3. ASSUME wait.sorted[i].wp.uid = wait.sorted[j].wp.uid PROVE i = j
  <2>1. Flow(wait.sorted[i]) = Flow(wait.sorted[j])
    BY <1>1, <1>3 DEF LineRight
  <2> QED BY <1>1, <2>1 DEF NoDouble, Once
<1> QED BY <1>2, <1>3

\* An order is shown one stage further.
LEMMA Advances ==
  ASSUME HandoverInv, LineInv, NEW u \in DOMAIN asked, NEW s \in OrdersAdvance!Successors(board[u]), board' = Show(u, s)
  PROVE  OrdersAdvance!LifeNext
<1>1. u \in 1 .. MaxRequests /\ board' = [board EXCEPT ![u] = s]
  BY AskedOnBoard
<1> QED BY <1>1 DEF OrdersAdvance!LifeNext, OrdersAdvance!Advance

\* The steps of the robot that show the order in hand.
LEMMA OrderAdvances ==
  ASSUME HandoverInv, LineInv, UNCHANGED faults,
         VgrWaitFetched \/ MoveVgr2Mpo \/ StartProduce \/ NfcProduced \/ MovePickupWait \/ MovePickup
  PROVE  OrdersAdvance!LifeNext
<1> DEFINE u == flow.order.uid
<1> USE DEF HandoverInv, LineInv
<1>1. FlowOK /\ u \in DOMAIN asked
  <2>1. vgr \in OnOrder
    BY Zenon DEF VgrWaitFetched, MoveVgr2Mpo, StartProduce, NfcProduced, MovePickupWait, MovePickup, In, OnOrder, Fetching, Served
  <2> QED BY <2>1, OneOrder DEF Types, RobotOK
<1>2. SUFFICES \E s \in OrdersAdvance!Successors(board[u]) : board' = Show(u, s)
  BY <1>1, Advances
<1> USE DEF OrdersAdvance!Successors
<1>3. CASE VgrWaitFetched
  <2>1. board[u] \in {"ORDER_ACKNOWLEDGED", "FETCHING_FROM_STORAGE"}
    BY <1>3 DEF VgrWaitFetched, In, Shown, Fetching
  <2>2. board' = Show(u, "FETCHED_FROM_STORAGE") \/ board' = Show(u, "ORDER_FAULT")
    BY <1>1, <1>3, OrderSays DEF VgrWaitFetched, ReportOrder, OrderState
  <2> QED BY <2>1, <2>2
<1>4. CASE MoveVgr2Mpo
  <2>1. board[u] = "FETCHED_FROM_STORAGE" /\ board' = Show(u, "TRANSPORT_TO_PROCESS_STATION")
    BY <1>1, <1>4, OrderSays DEF MoveVgr2Mpo, In, Shown, StageOf
  <2> QED BY <2>1
<1>5. CASE StartProduce
  <2>1. board[u] = "TRANSPORT_TO_PROCESS_STATION" /\ board' = Show(u, "IN_PROCESS")
    BY <1>1, <1>5, OrderSays DEF StartProduce, In, Shown, StageOf, Unfailing
  <2> QED BY <2>1
<1>6. CASE NfcProduced
  <2>1. board[u] = "ORDER_PROCESSED" /\ board' = Show(u, "WAITING_FOR_QA")
    BY <1>6, TakenFromBay DEF NfcProduced, In, Shown, StageOf
  <2> QED BY <2>1
<1>7. CASE MovePickupWait
  <2>1. board[u] = "WAITING_FOR_QA" /\ board' = Show(u, "TRANSPORT_WP_TO_DSO")
    BY <1>1, <1>7, OrderSays DEF MovePickupWait, In, Shown, StageOf
  <2> QED BY <2>1
<1>8. CASE MovePickup
  <2>1. board[u] = "TRANSPORT_WP_TO_DSO" /\ board' = Show(u, "SHIPPED")
    BY <1>1, <1>8, OrderSays DEF MovePickup, In, Shown, StageOf
  <2> QED BY <2>1
<1> QED BY <1>3, <1>4, <1>5, <1>6, <1>7, <1>8

\* What the robot leaves unsaid.
LEMMA Unreported ==
  ASSUME VgrStep
  PROVE  \/ UNCHANGED board \/ VgrHead \/ IdleFault \/ IdleSorted \/ IdleOrder
         \/ VgrWaitFetched \/ MoveVgr2Mpo \/ StartProduce \/ NfcProduced \/ MovePickupWait \/ MovePickup
BY DEF VgrStep, VgrMode, VgrInit, EnterIdle, EnterFault, VgrFault, IdleDelivery, IdlePickup, IdleStore, IdleErrors,
       FetchWpVgrOrder, ReleaseMpo, DsiPickupDelivery, Pickup2Delivery, StoreFromDso, StartDelivery,
       ColorDetection, NfcRaw, NfcRejected, WrongColor, RecycleTrash, StoreWpVgr, StoreWp,
       OrderWp, FetchWpVgrPickup, VgrWaitFetchedPickup, Hbw2Pickup, SetPickup, SetStore

\* Every step shows one order one stage further, or none.
LEMMA BoardAdvances ==
  ASSUME Sound, [TxtNext]_txtVars, faults' = 0
  PROVE  OrdersAdvance!LifeNext \/ UNCHANGED board
<1>1. HandoverInv /\ LineInv /\ UNCHANGED faults
  BY NoneFailed DEF Sound
<1> USE <1>1
<1>2. CASE VgrStep
  <2>1. CASE VgrHead
    <3>1. UNCHANGED board \/ \E u \in DOMAIN asked : /\ board' = Show(u, "ORDER_ACKNOWLEDGED")
            /\ board[u] \in {"WAITING_FOR_ORDER", "ORDER_ACKNOWLEDGED", "FETCHING_FROM_STORAGE"}
      BY <2>1, HeadShows
    <3> QED BY <3>1, Advances DEF OrdersAdvance!Successors
  <2>2. CASE IdleOrder
    <3>1. PICK u \in DOMAIN asked : board' = Show(u, "FETCHING_FROM_STORAGE") /\ board[u] \in {"WAITING_FOR_ORDER", "ORDER_ACKNOWLEDGED"}
      <4>1. wait.orders \in Seq(OrderRec) /\ FlowOK
        BY DEF HandoverInv, Types, RobotOK, WaitOK
      <4>2. /\ 1 \in DOMAIN wait.orders /\ Head(wait.orders) = wait.orders[1] /\ wait.orders[1] \in OrderRec
            /\ board' = Show([Head(wait.orders) EXCEPT !.state = "FETCHING_FROM_STORAGE"].uid, "FETCHING_FROM_STORAGE")
        <5>1. /\ wait.orders # <<>>
              /\ board' = Show([Head(wait.orders) EXCEPT !.state = "FETCHING_FROM_STORAGE"].uid,
                               [Head(wait.orders) EXCEPT !.state = "FETCHING_FROM_STORAGE"].state)
          BY <2>2 DEF IdleOrder, ReportOrder
        <5>2. 1 \in DOMAIN wait.orders /\ Head(wait.orders) = wait.orders[1] /\ wait.orders[1] \in OrderRec
          BY <4>1, <5>1
        <5>3. [Head(wait.orders) EXCEPT !.state = "FETCHING_FROM_STORAGE"].state = "FETCHING_FROM_STORAGE"
          BY <5>2 DEF OrderRec
        <5> QED BY <5>1, <5>2, <5>3
      <4>3. [Head(wait.orders) EXCEPT !.state = "FETCHING_FROM_STORAGE"].uid = wait.orders[1].uid
        BY <4>2 DEF OrderRec
      <4>4. wait.orders[1].uid \in DOMAIN asked /\ board[wait.orders[1].uid] \in {"WAITING_FOR_ORDER", "ORDER_ACKNOWLEDGED"}
        BY <4>2 DEF LineInv, Orders, Fresh, Shown
      <4> QED BY <4>2, <4>3, <4>4
    <3> QED BY <3>1, Advances DEF OrdersAdvance!Successors
  <2>3. CASE IdleSorted
    <3>1. PICK f \in Line : Right(f) /\ vgr = "IDLE" /\ board' = Show(f.uid, "ORDER_PROCESSED")
      BY <2>3, SortedTaken
    <3>2. f.uid \in DOMAIN asked /\ board[f.uid] = "IN_PROCESS"
      BY <3>1 DEF Right, LineInv, OvenTalk, Making, Shown
    <3> QED BY <3>1, <3>2, Advances DEF OrdersAdvance!Successors
  <2>4. ~IdleFault
    BY DEF LineInv, Unfailing, IdleFault, FaultPending
  <2> QED BY <1>2, <2>1, <2>2, <2>3, <2>4, Unreported, OrderAdvances
<1>3. CASE VgrReceive
  BY <1>3 DEF VgrReceive
<1>4. CASE HbwRuns \/ UNCHANGED txtVars
  BY <1>4 DEF HbwRuns, vgrVars, txtVars
<1>5. CASE People
  <2>1. UNCHANGED vgrVars
    BY <1>5, PeopleParts DEF HandoverInv, Controllers
  <2> QED BY <2>1 DEF vgrVars
<1>6. CASE MpoRuns \/ SldRuns
  <2>1. UNCHANGED board
    BY <1>6, StationParts DEF RobotRests, vgrVars
  <2> QED BY <2>1
<1> QED BY <1>2, <1>3, <1>4, <1>5, <1>6 DEF TxtNext, VgrRuns

-----------------------------------------------------------------------------
\* As long as no reading, tag or transport has failed: the workpiece about to
\* be shipped has the colour ordered, and its tag says processed.
THEOREM RightOneShipped == TxtSpec => []ShippedAsOrdered
BY SoundHolds, SoundKept, SoundShips, PTL DEF TxtSpec

\* ... and its history names every stage that a controller stamps.
THEOREM WholeHistory == TxtSpec => []HistoryComplete
BY SoundHolds, SoundKept, SoundShips, PTL DEF TxtSpec

\* ... and each sorted request that waits at the robot has a workpiece of its own
\* in the bay it names, however many requests are in the line.
THEOREM BayServes == TxtSpec => []SortedLiesInBay
BY SoundHolds, SoundKept, SoundSorts, PTL DEF TxtSpec

\* The dashboard shows every order in the stages of its life, one after the
\* other, until the first failure.
THEOREM StagesInOrder == TxtSpec => OrdersAdvance!LifeInit /\ [][faults' = 0 => OrdersAdvance!LifeNext]_board
<1>1. TxtInit => OrdersAdvance!LifeInit
  BY DEF TxtInit, OrdersAdvance!LifeInit
<1>2. Sound /\ [TxtNext]_txtVars => [faults' = 0 => OrdersAdvance!LifeNext]_board
  BY BoardAdvances
<1> QED BY <1>1, <1>2, SoundHolds, SoundKept, PTL DEF TxtSpec

\* So a factory in which nothing fails implements the life of an order.
THEOREM LifeFollowed == ASSUME MaxFaults = 0 PROVE TxtSpec => LifeKept
<1>1. TxtInit => OrdersAdvance!LifeInit
  BY DEF TxtInit, OrdersAdvance!LifeInit
<1>2. Sound => faults = 0
  BY DEF Sound, HandoverInv, Types, RobotOK
<1>3. Sound /\ Sound' /\ [TxtNext]_txtVars => [OrdersAdvance!LifeNext]_board
  <2>1. Sound' => faults' = 0
    BY DEF Sound, HandoverInv, Types, RobotOK
  <2> QED BY <2>1, BoardAdvances
<1> QED BY <1>1, <1>3, SoundHolds, SoundKept, PTL DEF TxtSpec, LifeKept, OrdersAdvance!Life

=============================================================================
