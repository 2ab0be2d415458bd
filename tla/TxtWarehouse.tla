---------------------------- MODULE TxtWarehouse ----------------------------
(***************************************************************************)
(* TxtHighBayWarehouse: the controller of the rack.  One action for each   *)
(* stretch of fsmStep between two moments at which the other controllers   *)
(* or a crash can notice the difference.  Axes either arrive or end the    *)
(* program (TxtAxis), so that a crane move has no failure of its own.  *)
(***************************************************************************)
EXTENDS TxtPlant

VARIABLES hbw,      \* currentState of fsmStep, and the stretch within it
          hbwQ,     \* requests: fetch orders not yet begun
          hbwReq,   \* request: the workflow being served
          hbwFlag   \* reqVGRstore, reqVGRstoreContainer, reqVGRresetStorage
hbwVars == <<hbw, hbwQ, hbwReq, hbwFlag>>

HbwStates ==
  {"INIT", "IDLE", "FAULT",
   "FETCH_CONTAINER", "BRING_CONTAINER", "STORE_WP", "RETURN_WP", "SAVE_STORED",
   "FETCH_WP", "BRING_WP", "SAVE_FETCHED", "FETCH_WP_WAIT",
   "STORE_CONTAINER", "RETURN_CONTAINER", "SAVE_RETURNED"}
HbwTypeOK ==
  /\ hbw \in HbwStates
  /\ hbwFlag \subseteq {"store", "storeContainer", "reset"}

\* The request methods, called by the thread that receives the messages.
requestVGRfetchContainer(flow) == hbwQ' = Append(hbwQ, [type |-> "FETCH_CONTAINER", flow |-> flow])
requestVGRfetch(flow) == hbwQ' = Append(hbwQ, [type |-> "FETCH_WP", flow |-> flow])
HbwRaise(flag) == hbwFlag' = hbwFlag \cup {flag}

HbwReceive ==
  \E m \in Arrived("HBW") :
    /\ Received("HBW")
    /\ \/ m.topic = "ack" /\ requestQuit("HBW") /\ UNCHANGED <<hbwQ, hbwFlag>>
       \/ m.code = "FETCHCONTAINER" /\ requestVGRfetchContainer(m.flow) /\ UNCHANGED <<hbwFlag, quit>>
       \/ m.code = "FETCH_WP" /\ requestVGRfetch(m.flow) /\ UNCHANGED <<hbwFlag, quit>>
       \/ m.code = "STORE_WP" /\ HbwRaise("store") /\ UNCHANGED <<hbwQ, quit>>
       \/ m.code = "STORECONTAINER" /\ HbwRaise("storeContainer") /\ UNCHANGED <<hbwQ, quit>>
       \/ m.code = "RESETSTORAGE" /\ HbwRaise("reset") /\ UNCHANGED <<hbwQ, quit>>
    /\ UNCHANGED <<storage, cell, tray, at, tag, hbw, hbwReq>>

\* Only the calls of fsmStep below change the state; these leave the rest.
HbwGoto(state) == hbw' = state
HbwKeeps == UNCHANGED <<cell, at, tag, hbwQ>>
HbwQuiet == UNCHANGED <<mail, quit>>

HbwInit == hbw = "INIT" /\ HbwGoto("IDLE")
           /\ HbwKeeps /\ HbwQuiet /\ UNCHANGED <<storage, tray, hbwReq, hbwFlag>>

\* FAULT: left by a press of the acknowledge button.  Neither the queue nor
\* the flags are cleared.
HbwFault ==
  /\ hbw = "FAULT" /\ Resumes("HBW")
  /\ HbwGoto("IDLE") /\ ClearQuit("HBW")
  /\ HbwKeeps /\ UNCHANGED <<mail, storage, tray, hbwReq, hbwFlag>>

\* A slip would be to leave the request of the last job in place.
BeginUnnamed(r) == HbwGoto(r.type) /\ UNCHANGED hbwReq
Begin(r) == HbwGoto(r.type) /\ hbwReq' = r.flow
HbwIdle ==
  /\ hbw = "IDLE"
  /\ \/ /\ hbwQ # <<>>
        /\ Begin(Head(hbwQ)) /\ hbwQ' = Tail(hbwQ)
        /\ UNCHANGED <<storage, hbwFlag>>
     \/ /\ hbwQ = <<>> /\ "reset" \in hbwFlag
        /\ resetStorageState /\ hbwFlag' = hbwFlag \ {"reset"}
        /\ UNCHANGED <<hbw, hbwQ, hbwReq>>
  /\ HbwQuiet /\ UNCHANGED <<tray, cell, at, tag>>

\* A fetch that finds nothing is reported and ends in FAULT.
HbwFails(code) ==
  /\ Publish(HbwFaultMsg(code, hbwReq.wp)) /\ HbwGoto("FAULT") /\ QuitAtFault("HBW")

HbwFetchContainer ==
  /\ hbw = "FETCH_CONTAINER" /\ fetchContainer
  /\ IF Free # {} THEN HbwGoto("BRING_CONTAINER") /\ HbwQuiet
     ELSE HbwFails("CNT_NOT_AVAILABLE")
  /\ HbwKeeps /\ UNCHANGED <<tray, hbwReq, hbwFlag>>

\* getCR and putConv: the crane puts the container of the slot on the belt, and
\* the robot is told.  Slips would be to tell it too early, or not at all.
NotYetThere == UNCHANGED tray
OnBelt == tray' = nextFetchPos
HbwSilent == HbwQuiet
HbwTells == Publish(HbwAck("FETCHED", hbwReq.wp)) /\ UNCHANGED quit
HbwBringContainer ==
  /\ hbw = "BRING_CONTAINER"
  /\ OnBelt /\ HbwTells /\ HbwGoto("STORE_WP")
  /\ HbwKeeps /\ UNCHANGED <<storage, hbwReq, hbwFlag>>

\* STORE_WP: the record is made before the crane moves and saved after it has
\* put the container back; the flag falls at the end.
HbwStoreWp ==
  /\ hbw = "STORE_WP" /\ "store" \in hbwFlag
  /\ IF isValidPos(nextFetchPos)
       THEN /\ store(hbwReq.wp) /\ HbwGoto("RETURN_WP")
            /\ UNCHANGED hbwFlag /\ HbwQuiet
       ELSE /\ HbwFails("STORAGE_FAULT") /\ hbwFlag' = hbwFlag \ {"store"}
            /\ UNCHANGED storage
  /\ HbwKeeps /\ UNCHANGED <<tray, hbwReq>>
\* getConv and putCR, then saveStorageState.
HbwReturns(from, to) ==
  /\ hbw = from /\ tray' = NoSlot /\ saveBegin /\ HbwGoto(to)
  /\ HbwKeeps /\ HbwQuiet /\ UNCHANGED <<hbwReq, hbwFlag>>
HbwReturnWp == HbwReturns("RETURN_WP", "SAVE_STORED")
HbwStored ==
  /\ hbw = "SAVE_STORED" /\ saveEnd /\ HbwGoto("IDLE")
  /\ hbwFlag' = hbwFlag \ {"store"}
  /\ HbwKeeps /\ HbwQuiet /\ UNCHANGED <<tray, hbwReq>>

HbwFetchWp ==
  /\ hbw = "FETCH_WP" /\ fetch(hbwReq.wp)
  /\ IF isValidPos(FetchSlot(hbwReq.wp))
       THEN /\ hbwReq' = [hbwReq EXCEPT !.wp = wp[FetchSlot(hbwReq.wp)]]
            /\ HbwGoto("BRING_WP") /\ HbwQuiet
       ELSE HbwFails("WP_NOT_AVAILABLE") /\ UNCHANGED hbwReq
  /\ HbwKeeps /\ UNCHANGED <<tray, hbwFlag>>
HbwBringWp ==
  /\ hbw = "BRING_WP"
  /\ OnBelt /\ saveBegin /\ HbwGoto("SAVE_FETCHED")
  /\ HbwKeeps /\ HbwQuiet /\ UNCHANGED <<hbwReq, hbwFlag>>
HbwFetched ==
  /\ hbw = "SAVE_FETCHED" /\ saveEnd
  /\ HbwTells /\ HbwGoto("FETCH_WP_WAIT")
  /\ HbwKeeps /\ UNCHANGED <<tray, hbwReq, hbwFlag>>

HbwFetchWpWait ==
  /\ hbw = "FETCH_WP_WAIT" /\ "storeContainer" \in hbwFlag
  /\ HbwGoto("STORE_CONTAINER") /\ hbwFlag' = hbwFlag \ {"storeContainer"}
  /\ HbwKeeps /\ HbwQuiet /\ UNCHANGED <<storage, tray, hbwReq>>
HbwStoreContainer ==
  /\ hbw = "STORE_CONTAINER"
  /\ IF isValidPos(nextFetchPos)
       THEN storeContainer /\ HbwGoto("RETURN_CONTAINER") /\ UNCHANGED quit
       ELSE HbwGoto("FAULT") /\ QuitAtFault("HBW") /\ UNCHANGED storage
  /\ HbwKeeps /\ UNCHANGED <<mail, tray, hbwReq, hbwFlag>>
HbwReturnContainer == HbwReturns("RETURN_CONTAINER", "SAVE_RETURNED")
HbwReturned ==
  /\ hbw = "SAVE_RETURNED" /\ saveEnd /\ HbwGoto("IDLE")
  /\ HbwKeeps /\ HbwQuiet /\ UNCHANGED <<tray, hbwReq, hbwFlag>>

HbwStep ==
  \/ HbwInit \/ HbwFault \/ HbwIdle
  \/ HbwFetchContainer \/ HbwBringContainer \/ HbwStoreWp \/ HbwReturnWp \/ HbwStored
  \/ HbwFetchWp \/ HbwBringWp \/ HbwFetched \/ HbwFetchWpWait
  \/ HbwStoreContainer \/ HbwReturnContainer \/ HbwReturned
=============================================================================
