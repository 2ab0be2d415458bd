---------------------------- MODULE TxtCalibration ----------------------------
(***************************************************************************)
(* Calibration: the command tag takes the robot out of IDLE, and one       *)
(* joystick, which every controller hears, then steers the robot, the rack *)
(* or the sorting line through the places and colours to be taught.        *)
(* Encoder positions are abstracted to the place they were read at, and a  *)
(* group of positions copied from one another to its first.                *)
(***************************************************************************)
EXTENDS Integers, FiniteSets

CONSTANTS NPlaces,     \* VGRCALIB_END: ten in the factory
          NCells,      \* HBWCALIB_END: four
          Readings,    \* values of a colour sensor; 0 is a reading that failed
          MaxTags,     \* bound on the uses of the command tag
          MaxJogs      \* bound on the changes of the joystick

ASSUME CalibConstants == /\ NPlaces \in Nat \ {0} /\ NCells \in Nat \ {0}
                         /\ Readings \subseteq Nat

VARIABLES joy,     \* the joystick: at rest, towards a side, or a button
          vgr, pos, stand, places,     \* robot: state, calibPos, where it stands, saved positions
          hbw, cell, crane, cells,     \* rack: the same
          sld, vals, low,              \* sorting line: state, calibColorValues, colour it waits for
          dpsVals, dpsLow,             \* DPS: the same
          th, saved,                   \* colour thresholds in force and in the file
          asked, ended,                \* calibration requests on the way; reqHBWcalib_end, reqSLDcalib_end
          tags, jogs
robot == <<vgr, pos, stand, places>>
rack == <<hbw, cell, crane, cells>>
line == <<sld, vals, low>>
dps == <<dpsVals, dpsLow>>
calibVars == <<joy, robot, rack, line, dps, th, saved, asked, ended, tags, jogs>>

Joy == {"rest", "left", "right", "up", "down", "b1", "b2"}
VgrStates == {"IDLE", "CALIB_VGR", "CALIB_HBW", "CALIB_SLD", "CALIB_DPS_NEXT",
              "CALIB_VGR_NAV", "CALIB_VGR_MOVE"}
HbwStates == {"IDLE", "CALIB_HBW_NAV", "CALIB_HBW_MOVE"}
SldStates == {"IDLE", "CALIB_SLD_DETECTION", "CALIB_SLD_NEXT"}
Places == 0 .. NPlaces - 1
Cells == 0 .. NCells - 1
Unsaved == -1
Nothing == [c \in 1 .. 3 |-> -1]
CalibTypeOK ==
  /\ joy \in Joy /\ vgr \in VgrStates /\ hbw \in HbwStates /\ sld \in SldStates
  /\ places \in [Places -> Places \cup {Unsaved}] /\ cells \in [Cells -> Cells \cup {Unsaved}]
  /\ low \in 1 .. 3 /\ dpsLow \in 1 .. 3 /\ asked \subseteq {"HBW", "SLD"} /\ ended \subseteq {"HBW", "SLD"}

\* Small values in place of the thresholds that saveDefault writes.
Delivered == <<500, 1200>>
CalibInit ==
  /\ joy = "rest" /\ vgr = "IDLE" /\ hbw = "IDLE" /\ sld = "IDLE"
  /\ pos = 0 /\ stand = Unsaved /\ places = [p \in Places |-> Unsaved]
  /\ cell = 0 /\ crane = Unsaved /\ cells = [c \in Cells |-> Unsaved]
  /\ vals = Nothing /\ low = 1 /\ dpsVals = Nothing /\ dpsLow = 1
  /\ th = [dps |-> Delivered, sld |-> Delivered] /\ saved = th
  /\ asked = {} /\ ended = {} /\ tags = 0 /\ jogs = 0

Joystick ==
  /\ jogs < MaxJogs /\ jogs' = jogs + 1
  /\ \E j \in Joy \ {joy} : joy' = j
  /\ UNCHANGED <<robot, rack, line, dps, th, saved, asked, ended, tags>>

\* A place to the side of the selected one, around the ends.  The joystick
\* pushed to the right counts down.
Select(p, n) ==
  LET q == CASE joy = "right" -> p - 1 [] joy = "left" -> p + 1 [] OTHER -> p
  IN IF q < 0 THEN n - 1 ELSE IF q >= n THEN 0 ELSE q

\* The thresholds between three readings, and the check of them.
Between(v) == <<(v[1] + v[2]) \div 2, (v[2] + v[3]) \div 2>>
Measured(v) == \A c \in 1 .. 3 : v[c] > 0
Checked(v) == /\ v[1] < v[2] /\ v[2] < v[3]
              /\ Between(v)[1] >= 200 /\ Between(v)[2] < 2000
\* The new thresholds are in force whether or not the check lets them be saved.
Learn(who, v) ==
  /\ th' = [th EXCEPT ![who] = Between(v)]
  /\ saved' = IF Checked(v) THEN [saved EXCEPT ![who] = Between(v)] ELSE saved

-----------------------------------------------------------------------------
(* The robot.                                                              *)

VgrAlone == UNCHANGED <<joy, rack, line, jogs>>
\* IDLE, the command tag.
CommandTag ==
  /\ vgr = "IDLE" /\ tags < MaxTags /\ tags' = tags + 1 /\ vgr' = "CALIB_VGR"
  /\ UNCHANGED <<pos, stand, places, dps, th, saved, asked, ended>> /\ VgrAlone
CalibVgr ==
  /\ vgr = "CALIB_VGR"
  /\ \/ joy = "right" /\ vgr' = "CALIB_HBW" /\ asked' = asked \cup {"HBW"} /\ UNCHANGED <<pos, dps>>
     \/ joy = "up" /\ vgr' = "CALIB_SLD" /\ asked' = asked \cup {"SLD"} /\ UNCHANGED <<pos, dps>>
     \/ joy = "left" /\ vgr' = "CALIB_VGR_NAV" /\ pos' = -1 /\ UNCHANGED <<asked, dps>>
     \/ joy = "down" /\ vgr' = "CALIB_DPS_NEXT" /\ dpsVals' = Nothing /\ dpsLow' = 1
        /\ UNCHANGED <<asked, pos>>
     \/ joy \in {"b1", "b2"} /\ vgr' = "IDLE" /\ UNCHANGED <<asked, pos, dps>>
  /\ UNCHANGED <<stand, places, th, saved, ended, tags>> /\ VgrAlone
\* CALIB_HBW and CALIB_SLD: the mark that ended the wait is not lowered.
\* A slip would be not to wait.
EndedUnchecked(s) == TRUE
Ended(s) == s \in ended
CalibOther ==
  /\ \/ vgr = "CALIB_HBW" /\ Ended("HBW")
     \/ vgr = "CALIB_SLD" /\ Ended("SLD")
  /\ vgr' = "IDLE"
  /\ UNCHANGED <<pos, stand, places, dps, th, saved, asked, ended, tags>> /\ VgrAlone
\* A slip would be to drive to the place selected before.
moveCalibPosLate == stand' = pos
moveCalibPos == stand' = pos'
CalibVgrNav ==
  /\ vgr = "CALIB_VGR_NAV"
  /\ \/ joy = "b2" /\ vgr' = "IDLE" /\ UNCHANGED <<pos, stand>>
     \/ joy \notin {"b1", "b2"} /\ pos' = Select(pos, NPlaces) /\ moveCalibPos
        /\ vgr' = "CALIB_VGR_MOVE"
  /\ UNCHANGED <<places, dps, th, saved, asked, ended, tags>> /\ VgrAlone
CalibVgrMove ==
  /\ vgr = "CALIB_VGR_MOVE" /\ vgr' = "CALIB_VGR_NAV"
  /\ \/ joy \in {"b2", "left", "right"} /\ UNCHANGED places
     \/ joy = "b1" /\ places' = [places EXCEPT ![pos] = stand]
  /\ UNCHANGED <<pos, stand, dps, th, saved, asked, ended, tags>> /\ VgrAlone
CalibDpsNext ==
  /\ vgr = "CALIB_DPS_NEXT"
  /\ \/ joy = "b2" /\ vgr' = "IDLE" /\ UNCHANGED <<dps, th, saved>>
     \/ /\ joy = "b1"
        /\ \E r \in Readings : dpsVals' = [dpsVals EXCEPT ![dpsLow] = r]
        /\ IF dpsLow < 3
             THEN dpsLow' = dpsLow + 1 /\ UNCHANGED <<vgr, th, saved>>
             ELSE /\ vgr' = "IDLE" /\ UNCHANGED dpsLow
                  /\ IF Measured(dpsVals') THEN Learn("dps", dpsVals') ELSE UNCHANGED <<th, saved>>
  /\ UNCHANGED <<pos, stand, places, asked, ended, tags>> /\ VgrAlone
VgrCalibrates == CommandTag \/ CalibVgr \/ CalibOther \/ CalibVgrNav \/ CalibVgrMove \/ CalibDpsNext

-----------------------------------------------------------------------------
(* The rack and the sorting line; what ends them raises a mark of the      *)
(* robot.                                                                  *)

\* A slip would be not to raise it.
EndsUntold(s) == UNCHANGED ended
Ends(s) == ended' = ended \cup {s}

HbwAlone == UNCHANGED <<joy, robot, line, dps, th, saved, tags, jogs>>
CalibHbw ==
  /\ hbw = "IDLE" /\ "HBW" \in asked /\ asked' = asked \ {"HBW"}
  /\ cell' = 0 /\ hbw' = "CALIB_HBW_NAV"
  /\ UNCHANGED <<crane, cells, ended>> /\ HbwAlone
CalibHbwNav ==
  /\ hbw = "CALIB_HBW_NAV"
  /\ \/ joy = "b2" /\ hbw' = "IDLE" /\ Ends("HBW") /\ UNCHANGED <<cell, crane>>
     \/ joy \notin {"b1", "b2"} /\ cell' = Select(cell, NCells) /\ crane' = cell'
        /\ hbw' = "CALIB_HBW_MOVE" /\ UNCHANGED ended
  /\ UNCHANGED <<cells, asked>> /\ HbwAlone
CalibHbwMove ==
  /\ hbw = "CALIB_HBW_MOVE" /\ hbw' = "CALIB_HBW_NAV"
  /\ \/ joy \in {"b2", "left", "right"} /\ UNCHANGED cells
     \/ joy = "b1" /\ cells' = [cells EXCEPT ![cell] = crane]
  /\ UNCHANGED <<cell, crane, asked, ended>> /\ HbwAlone

SldAlone == UNCHANGED <<joy, robot, rack, dps, tags, jogs>>
CalibSld ==
  /\ sld = "IDLE" /\ "SLD" \in asked /\ asked' = asked \ {"SLD"}
  /\ vals' = Nothing /\ low' = 1 /\ sld' = "CALIB_SLD_DETECTION"
  /\ UNCHANGED <<ended, th, saved>> /\ SldAlone
CalibSldDetection ==
  /\ sld = "CALIB_SLD_DETECTION"
  /\ \/ joy = "b2" /\ sld' = "IDLE" /\ Ends("SLD") /\ UNCHANGED <<vals, low>>
     \/ /\ joy # "b2" /\ sld' = "CALIB_SLD_NEXT"
        /\ \E r \in Readings : vals' = [vals EXCEPT ![low] = r]
        /\ low' = IF low < 3 THEN low + 1 ELSE 3
        /\ UNCHANGED ended
  /\ UNCHANGED <<asked, th, saved>> /\ SldAlone
CalibSldNext ==
  /\ sld = "CALIB_SLD_NEXT"
  /\ IF Measured(vals) \/ joy = "b2"
       THEN sld' = "IDLE" /\ Ends("SLD")
       ELSE sld' = "CALIB_SLD_DETECTION" /\ UNCHANGED ended
  /\ IF Measured(vals) THEN Learn("sld", vals) ELSE UNCHANGED <<th, saved>>
  /\ UNCHANGED <<vals, low, asked>> /\ SldAlone

Stations == CalibHbw \/ CalibHbwNav \/ CalibHbwMove \/ CalibSld \/ CalibSldDetection \/ CalibSldNext
CalibNext == Joystick \/ VgrCalibrates \/ Stations
CalibSpec == CalibInit /\ [][CalibNext]_calibVars
             /\ WF_calibVars(VgrCalibrates) /\ WF_calibVars(Stations)

-----------------------------------------------------------------------------
\* A position is never saved under the name of another place.
PlacesKept ==
  /\ \A p \in Places : places[p] \in {Unsaved, p}
  /\ \A c \in Cells : cells[c] \in {Unsaved, c}

\* One joystick steers one station at a time, unless a station has been
\* calibrated before: the robot then no longer waits for it.
Steered == {s \in {"VGR", "HBW", "SLD"} :
  CASE s = "VGR" -> vgr \notin {"CALIB_HBW", "CALIB_SLD"} [] s = "HBW" -> hbw # "IDLE" \/ "HBW" \in asked
    [] OTHER -> sld # "IDLE" \/ "SLD" \in asked}
OneSteered == ended = {} => Cardinality(Steered) <= 1

\* With button 2 held every calibration comes to its end.
Cancels == joy = "b2" /\ jogs = MaxJogs ~>
             vgr = "IDLE" /\ hbw = "IDLE" /\ sld = "IDLE"
=============================================================================
