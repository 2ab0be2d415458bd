----------------------------- MODULE TxtStations -----------------------------
(***************************************************************************)
(* TxtMultiProcessingStation and TxtSortingLine: the controllers between   *)
(* the oven and the bays.  Both take the front of a queue of requests and  *)
(* pair it with the workpiece that a light barrier or a colour sensor      *)
(* notices, without any look at the workpiece itself.                      *)
(***************************************************************************)
EXTENDS TxtGripperRun

VARIABLES mpo, mpoQ, mpoReq,        \* currentState, requests, request
          sld, sldQ, sldReq, seen   \* the same, and the least colour value of this run
stationVars == <<mpo, mpoQ, mpoReq, sld, sldQ, sldReq, seen>>
mpoVars == <<mpo, mpoQ, mpoReq>>
sldVars == <<sld, sldQ, sldReq, seen>>

MpoStates == {"INIT", "IDLE", "WAIT_OVEN", "ENTER_FAULT", "FAULT", "BURN", "EJECT",
              "TRANSPORT"}
SldStates == {"INIT", "IDLE", "ENTER_FAULT", "FAULT", "COLOR_DETECTION", "CHECK_COUNT",
              "SORTED"}
StationsTypeOK == mpo \in MpoStates /\ sld \in SldStates /\ seen \in Colours \cup {"NONE"}

\* requestVGRproduce, requestMPOproduced and requestQuit, on the thread that
\* receives the messages.
MpoReceive ==
  \E m \in Arrived("MPO") :
    /\ Received("MPO")
    /\ \/ m.topic = "ack" /\ requestQuit("MPO") /\ UNCHANGED mpoQ
       \/ m.topic = "vgr/do" /\ mpoQ' = Append(mpoQ, m.flow) /\ UNCHANGED quit
    /\ UNCHANGED <<mpo, mpoReq, sldVars, vgrVars>> /\ Handless /\ Elsewhere
SldReceive ==
  \E m \in Arrived("SLD") :
    /\ Received("SLD")
    /\ \/ m.topic = "ack" /\ requestQuit("SLD") /\ UNCHANGED sldQ
       \/ m.topic = "mpo/ack" /\ sldQ' = Append(sldQ, m.flow) /\ UNCHANGED quit
    /\ UNCHANGED <<mpoVars, sld, sldReq, seen, vgrVars>> /\ Handless /\ Elsewhere

\* A controller that only changes its own state.
RobotAside == UNCHANGED <<vgrVars>>
MpoGoes(from, to) ==
  /\ mpo = from /\ mpo' = to
  /\ UNCHANGED <<mpoQ, mpoReq, sldVars>> /\ RobotAside /\ Elsewhere
SldGoes(from, to) ==
  /\ sld = from /\ sld' = to
  /\ UNCHANGED <<sldQ, sldReq, seen, mpoVars>> /\ RobotAside /\ Elsewhere

-----------------------------------------------------------------------------
(* TxtMultiProcessingStation::fsmStep.                                     *)

MpoInit == MpoGoes("INIT", "IDLE") /\ Calm /\ Handless
MpoEnterFault == MpoGoes("ENTER_FAULT", "FAULT") /\ QuitAtFault("MPO") /\ UNCHANGED mail /\ Handless
\* Whoever presses the button has taken a late workpiece out of the oven.
MpoFault ==
  /\ MpoGoes("FAULT", "IDLE") /\ Resumes("MPO") /\ ClearQuit("MPO")
  /\ Move("oven", "gone") /\ UNCHANGED <<mail, cell, tag>>
\* IDLE: take the request, then wait five seconds for the workpiece.
MpoIdle ==
  /\ mpo = "IDLE" /\ mpoQ # <<>>
  /\ mpo' = "WAIT_OVEN" /\ mpoReq' = Head(mpoQ) /\ mpoQ' = Tail(mpoQ)
  /\ UNCHANGED sldVars /\ Calm /\ Handless /\ RobotAside /\ Elsewhere
isOvenTriggered == Held("oven") # {}
MpoStarted ==
  /\ MpoGoes("WAIT_OVEN", "BURN") /\ isOvenTriggered
  /\ Publish(MpoAck("STARTED", mpoReq)) /\ UNCHANGED quit /\ Handless
MpoTimeout ==
  /\ mpo = "WAIT_OVEN" /\ mpo' = "ENTER_FAULT" /\ ~isOvenTriggered /\ Misread
  /\ Publish(MpoFaultMsg("REQUEST_TIMEOUT", mpoReq))
  /\ UNCHANGED <<quit, mpoQ, mpoReq, sldVars, vgr, flow, wait, raised, mode, hist, board, asked>>
  /\ Handless /\ Elsewhere
\* BURN, VGR_TRANSPORT, TABLE_SAW and TABLE_BELT: moves that no other
\* controller hears of; only the oven becomes free.
MpoProcess == MpoGoes("BURN", "EJECT") /\ Move("oven", "mpo") /\ Calm /\ UNCHANGED <<cell, tag>>
MpoEject ==
  /\ mpo = "EJECT" /\ mpo' = "TRANSPORT"
  /\ mpoReq' = [mpoReq EXCEPT !.wp.state = "PROCESSED"]
  /\ Publish(MpoAck("PRODUCED", mpoReq'))
  /\ UNCHANGED <<quit, mpoQ, sldVars>> /\ Handless /\ RobotAside /\ Elsewhere
\* A workpiece that gets lost on the belt is reported, but the loop's break
\* leaves only the loop: the state goes to IDLE all the same.  The sorting
\* line has taken its last workpiece in long before the next one arrives.  The
\* acknowledgement TRANSPORT of one that does arrive interests nobody: the robot
\* heeds STARTED and the line PRODUCED.
MpoTransport ==
  /\ mpo = "TRANSPORT" /\ mpo' = "IDLE" /\ Held("sensor") = {}
  /\ \/ /\ Move("mpo", "sensor") /\ UNCHANGED <<faults, mail>>
     \/ /\ Misread /\ Move("mpo", "gone")
        /\ Publish(MpoFaultMsg("TRANSPORT_FAULT", mpoReq))
  /\ UNCHANGED <<quit, cell, tag, mpoQ, mpoReq, sldVars, vgr, flow, wait, raised, mode, hist, board, asked>>
  /\ Elsewhere
MpoStep ==
  \/ MpoInit \/ MpoEnterFault \/ MpoFault \/ MpoIdle \/ MpoStarted \/ MpoTimeout
  \/ MpoProcess \/ MpoEject \/ MpoTransport

-----------------------------------------------------------------------------
(* TxtSortingLine::fsmStep.                                                *)

SldInit == SldGoes("INIT", "IDLE") /\ Calm /\ Handless
SldEnterFault == SldGoes("ENTER_FAULT", "FAULT") /\ QuitAtFault("SLD") /\ UNCHANGED mail /\ Handless
\* Whoever presses the button has taken the workpiece off the belt.
SldFault ==
  /\ SldGoes("FAULT", "IDLE") /\ Resumes("SLD") /\ ClearQuit("SLD")
  /\ Move("sorter", "gone") /\ UNCHANGED <<mail, cell, tag>>
isColorSensorTriggered == Held("sensor") # {}
\* IDLE and START: the acknowledgement STARTED interests nobody.
SldIdle ==
  /\ sld = "IDLE" /\ isColorSensorTriggered /\ sldQ # <<>>
  /\ sld' = "COLOR_DETECTION" /\ sldReq' = Head(sldQ) /\ sldQ' = Tail(sldQ)
  /\ Move("sensor", "sorter") /\ seen' = "NONE"
  /\ UNCHANGED <<mpoVars, cell, tag>> /\ Calm /\ RobotAside /\ Elsewhere
\* The colour decided when the workpiece passes the ejection barrier: the real
\* one, or none when the reading fails.  A workpiece that gets stuck before the
\* barrier fails after 500 rounds.
getDetectedColor == {ColourOf[p] : p \in Held("sorter")}
SldColorDetection ==
  /\ sld = "COLOR_DETECTION"
  /\ \/ /\ UNCHANGED faults /\ seen' \in getDetectedColor
        /\ IF seen' = sldReq.wp.type
             THEN sld' = "CHECK_COUNT" /\ UNCHANGED mail
             ELSE sld' = "ENTER_FAULT" /\ Publish(SldFaultMsg("WRONG_WP_TYPE", sldReq))
     \/ /\ Misread /\ seen' = "NONE" /\ sld' = "ENTER_FAULT"
        /\ \E code \in {"INVALID_WP_TYPE", "WRONG_WP_TYPE"} : Publish(SldFaultMsg(code, sldReq))
  /\ UNCHANGED <<quit, sldQ, sldReq, mpoVars, vgr, flow, wait, raised, mode, hist, board, asked>>
  /\ Handless /\ Elsewhere
\* START_COUNT, CHECK_COUNT and EJECTION_*.
\* A slip would be to blow out at the first valve.
SldEjectFirst == /\ SldGoes("CHECK_COUNT", "SORTED") /\ Move("sorter", "bay_WHITE")
                 /\ Calm /\ UNCHANGED <<cell, tag>>
SldEject ==
  /\ SldGoes("CHECK_COUNT", "SORTED") /\ Move("sorter", Bay(seen))
  /\ Calm /\ UNCHANGED <<cell, tag>>
\* A slip would be to answer without the workflow.
SldSortedBlank == /\ SldGoes("SORTED", "IDLE") /\ Publish(SldAck("SORTED", NoFlow))
                  /\ UNCHANGED quit /\ Handless
SldSorted ==
  /\ SldGoes("SORTED", "IDLE") /\ Publish(SldAck("SORTED", sldReq))
  /\ UNCHANGED quit /\ Handless
SldStep ==
  \/ SldInit \/ SldEnterFault \/ SldFault \/ SldIdle
  \/ SldColorDetection \/ SldEject \/ SldSorted
=============================================================================
