-------------------------- MODULE CalibrationProofs --------------------------
(***************************************************************************)
(* Calibration for every number of places and cells, every reading and any *)
(* use of the joystick: no position is saved under another name, and one   *)
(* joystick steers one station.                                            *)
(***************************************************************************)
EXTENDS TxtCalibration, FiniteSetTheorems, TLAPS

\* While the robot or the crane is being aimed it stands at the place whose
\* name is selected.
Aimed ==
  /\ places \in [Places -> Int] /\ cells \in [Cells -> Int] /\ pos \in Int /\ cell \in Int
  /\ vgr = "CALIB_VGR_MOVE" => stand = pos /\ pos \in Places
  /\ hbw = "CALIB_HBW_MOVE" => crane = cell /\ cell \in Cells

LEMMA Selected ==
  ASSUME NEW p \in Int, NEW n \in Nat \ {0}
  PROVE  Select(p, n) \in 0 .. n - 1
<1> DEFINE q == CASE joy = "right" -> p - 1 [] joy = "left" -> p + 1 [] OTHER -> p
<1>1. q \in Int
  OBVIOUS
<1>2. Select(p, n) = IF q < 0 THEN n - 1 ELSE IF q >= n THEN 0 ELSE q
  BY DEF Select
<1> HIDE DEF q
<1> QED BY <1>1, <1>2

LEMMA RobotAims == Aimed /\ PlacesKept /\ VgrCalibrates => Aimed' /\ PlacesKept'
<1> SUFFICES ASSUME Aimed, PlacesKept, VgrCalibrates PROVE Aimed' /\ PlacesKept'
  OBVIOUS
<1>1. CASE UNCHANGED places /\ UNCHANGED <<cells, cell, crane, hbw>> /\ vgr' # "CALIB_VGR_MOVE" /\ pos' \in Int
  BY <1>1 DEF Aimed, PlacesKept, Places, Cells
<1>2. CASE CalibVgrNav
  <2>1. UNCHANGED <<places, cells, cell, crane, hbw>>
    BY <1>2 DEF CalibVgrNav, moveCalibPos, VgrAlone, rack
  <2>2. CASE vgr' = "IDLE" /\ UNCHANGED pos
    BY <1>1, <2>1, <2>2 DEF Aimed
  <2>3. CASE pos' = Select(pos, NPlaces) /\ stand' = pos'
    <3>1. pos' \in Places
      BY <2>3, Selected, CalibConstants DEF Aimed, Places
    <3> QED BY <2>1, <2>3, <3>1 DEF Aimed, PlacesKept, Places
  <2> QED BY <1>2, <2>2, <2>3 DEF CalibVgrNav, moveCalibPos
<1>3. CASE CalibVgrMove
  <2>1. /\ vgr' = "CALIB_VGR_NAV" /\ UNCHANGED <<cells, cell, crane, hbw, pos>>
        /\ stand = pos /\ pos \in Places
    BY <1>3 DEF CalibVgrMove, VgrAlone, rack, Aimed
  <2>2. UNCHANGED places \/ places' = [places EXCEPT ![pos] = pos]
    BY <1>3, <2>1 DEF CalibVgrMove
  <2>3. CASE places' = [places EXCEPT ![pos] = pos]
    BY <2>1, <2>3 DEF Aimed, PlacesKept
  <2> QED BY <1>1, <2>1, <2>2, <2>3 DEF Aimed
<1>4. CASE CommandTag \/ CalibVgr \/ CalibOther \/ CalibDpsNext
  <2>1. UNCHANGED places /\ UNCHANGED <<cells, cell, crane, hbw>>
    BY <1>4 DEF CommandTag, CalibVgr, CalibOther, CalibDpsNext, VgrAlone, rack
  <2>2. vgr' # "CALIB_VGR_MOVE" /\ pos' \in Int
    BY <1>4 DEF CommandTag, CalibVgr, CalibOther, CalibDpsNext, Aimed
  <2> QED BY <1>1, <2>1, <2>2
<1> QED BY <1>2, <1>3, <1>4 DEF VgrCalibrates

LEMMA StationsAim == Aimed /\ PlacesKept /\ Stations => Aimed' /\ PlacesKept'
<1> SUFFICES ASSUME Aimed, PlacesKept, Stations PROVE Aimed' /\ PlacesKept'
  OBVIOUS
<1>1. CASE /\ UNCHANGED cells /\ UNCHANGED <<places, pos, stand, vgr>>
           /\ hbw' # "CALIB_HBW_MOVE" /\ cell' \in Int
  BY <1>1 DEF Aimed, PlacesKept, Places, Cells
<1>2. CASE CalibHbwNav
  <2>1. UNCHANGED <<cells, places, pos, stand, vgr>>
    BY <1>2 DEF CalibHbwNav, HbwAlone, robot
  <2>2. CASE hbw' = "IDLE" /\ UNCHANGED cell
    BY <1>1, <2>1, <2>2 DEF Aimed
  <2>3. CASE cell' = Select(cell, NCells) /\ crane' = cell'
    <3>1. cell' \in Cells
      BY <2>3, Selected, CalibConstants DEF Aimed, Cells
    <3> QED BY <2>1, <2>3, <3>1 DEF Aimed, PlacesKept, Cells
  <2> QED BY <1>2, <2>2, <2>3 DEF CalibHbwNav
<1>3. CASE CalibHbwMove
  <2>1. /\ hbw' = "CALIB_HBW_NAV" /\ UNCHANGED <<places, pos, stand, vgr, cell>>
        /\ crane = cell /\ cell \in Cells
    BY <1>3 DEF CalibHbwMove, HbwAlone, robot, Aimed
  <2>2. UNCHANGED cells \/ cells' = [cells EXCEPT ![cell] = cell]
    BY <1>3, <2>1 DEF CalibHbwMove
  <2>3. CASE cells' = [cells EXCEPT ![cell] = cell]
    BY <2>1, <2>3 DEF Aimed, PlacesKept
  <2> QED BY <1>1, <2>1, <2>2, <2>3 DEF Aimed
<1>4. CASE CalibHbw
  <2>1. UNCHANGED <<cells, places, pos, stand, vgr>> /\ cell' = 0 /\ hbw' = "CALIB_HBW_NAV"
    BY <1>4 DEF CalibHbw, HbwAlone, robot
  <2> QED BY <1>1, <2>1
<1>5. CASE CalibSld \/ CalibSldDetection \/ CalibSldNext
  <2>1. UNCHANGED <<robot, rack>>
    BY <1>5 DEF CalibSld, CalibSldDetection, CalibSldNext, SldAlone
  <2> QED BY <2>1 DEF robot, rack, Aimed, PlacesKept
<1> QED BY <1>2, <1>3, <1>4, <1>5 DEF Stations

\* A position that calibration saves is that of the place it is saved for.
THEOREM SavedInPlace == CalibSpec => []PlacesKept
<1>1. CalibInit => Aimed /\ PlacesKept
  BY DEF CalibInit, Aimed, PlacesKept, Places, Cells, Unsaved
<1>2. Aimed /\ PlacesKept /\ [CalibNext]_calibVars => Aimed' /\ PlacesKept'
  <2> SUFFICES ASSUME Aimed, PlacesKept, [CalibNext]_calibVars PROVE Aimed' /\ PlacesKept'
    OBVIOUS
  <2>1. CASE UNCHANGED <<robot, rack>>
    BY <2>1 DEF robot, rack, Aimed, PlacesKept
  <2>2. CASE Joystick \/ UNCHANGED calibVars
    BY <2>1, <2>2 DEF Joystick, calibVars
  <2> QED BY <2>2, RobotAims, StationsAim DEF CalibNext
<1> QED BY <1>1, <1>2, PTL DEF CalibSpec

-----------------------------------------------------------------------------
\* Until a station has been calibrated, the robot waits exactly while that
\* station is being calibrated or is about to be.
Waits ==
  ended = {} =>
    /\ vgr = "CALIB_HBW" <=> hbw # "IDLE" \/ "HBW" \in asked
    /\ vgr = "CALIB_SLD" <=> sld # "IDLE" \/ "SLD" \in asked

LEMMA WaitsKept == Waits /\ [CalibNext]_calibVars => Waits'
<1> SUFFICES ASSUME Waits, [CalibNext]_calibVars PROVE Waits'
  OBVIOUS
<1>1. CASE Joystick \/ UNCHANGED calibVars
  <2>1. UNCHANGED <<vgr, hbw, sld, asked, ended>>
    BY <1>1 DEF Joystick, calibVars, robot, rack, line
  <2> QED BY <2>1 DEF Waits
<1>2. CASE VgrCalibrates
  <2>1. UNCHANGED <<hbw, sld, ended>>
    BY <1>2 DEF VgrCalibrates, CommandTag, CalibVgr, CalibOther, CalibVgrNav, CalibVgrMove,
                CalibDpsNext, VgrAlone, rack, line
  <2>2. CASE CalibVgr
    <3>1. vgr = "CALIB_VGR"
      BY <2>2 DEF CalibVgr
    <3>2. \/ vgr' = "CALIB_HBW" /\ asked' = asked \cup {"HBW"}
          \/ vgr' = "CALIB_SLD" /\ asked' = asked \cup {"SLD"}
          \/ vgr' \notin {"CALIB_HBW", "CALIB_SLD"} /\ asked' = asked
      BY <2>2 DEF CalibVgr
    <3> QED BY <2>1, <3>1, <3>2 DEF Waits
  <2>3. CASE CalibOther
    BY <2>1, <2>3 DEF CalibOther, Ended, Waits
  <2>4. CASE CommandTag \/ CalibVgrNav \/ CalibVgrMove \/ CalibDpsNext
    <3>1. vgr \notin {"CALIB_HBW", "CALIB_SLD"} /\ vgr' \notin {"CALIB_HBW", "CALIB_SLD"} /\ asked' = asked
      BY <2>4 DEF CommandTag, CalibVgrNav, CalibVgrMove, CalibDpsNext
    <3> QED BY <2>1, <3>1 DEF Waits
  <2> QED BY <1>2, <2>2, <2>3, <2>4 DEF VgrCalibrates
<1>3. CASE CalibHbw \/ CalibHbwNav \/ CalibHbwMove
  <2>1. UNCHANGED <<vgr, sld>>
    BY <1>3 DEF CalibHbw, CalibHbwNav, CalibHbwMove, HbwAlone, robot, line
  <2>2. \/ "HBW" \in asked /\ asked' = asked \ {"HBW"} /\ hbw' # "IDLE" /\ ended' = ended
        \/ hbw # "IDLE" /\ hbw' # "IDLE" /\ UNCHANGED <<asked, ended>>
        \/ "HBW" \in ended'
    BY <1>3 DEF CalibHbw, CalibHbwNav, CalibHbwMove, Ends
  <2> QED BY <2>1, <2>2 DEF Waits
<1>4. CASE CalibSld \/ CalibSldDetection \/ CalibSldNext
  <2>1. UNCHANGED <<vgr, hbw>>
    BY <1>4 DEF CalibSld, CalibSldDetection, CalibSldNext, SldAlone, robot, rack
  <2>2. \/ "SLD" \in asked /\ asked' = asked \ {"SLD"} /\ sld' # "IDLE" /\ ended' = ended
        \/ sld # "IDLE" /\ sld' # "IDLE" /\ UNCHANGED <<asked, ended>>
        \/ "SLD" \in ended'
    BY <1>4 DEF CalibSld, CalibSldDetection, CalibSldNext, Ends
  <2> QED BY <2>1, <2>2 DEF Waits
<1> QED BY <1>1, <1>2, <1>3, <1>4 DEF CalibNext, Stations

\* Until a station has been calibrated, a push of the joystick moves one
\* station and no other.
THEOREM OneJoystick == CalibSpec => []OneSteered
<1>1. CalibInit => Waits
  BY DEF CalibInit, Waits
<1>2. Waits => OneSteered
  <2> SUFFICES ASSUME Waits, ended = {} PROVE Cardinality(Steered) <= 1
    BY DEF OneSteered
  <2>1. PICK s : Steered \subseteq {s}
    <3>1. CASE vgr = "CALIB_HBW"
      <4>1. Steered \subseteq {"HBW"}
        BY <3>1 DEF Steered, Waits
      <4> QED BY <4>1
    <3>2. CASE vgr = "CALIB_SLD"
      <4>1. Steered \subseteq {"SLD"}
        BY <3>2 DEF Steered, Waits
      <4> QED BY <4>1
    <3>3. CASE vgr \notin {"CALIB_HBW", "CALIB_SLD"}
      <4>1. Steered \subseteq {"VGR"}
        BY <3>3 DEF Steered, Waits
      <4> QED BY <4>1
    <3> QED BY <3>1, <3>2, <3>3
  <2>2. Cardinality({s}) = 1 /\ IsFiniteSet({s})
    BY FS_Singleton
  <2>3. Cardinality(Steered) <= Cardinality({s})
    BY <2>1, <2>2, FS_Subset
  <2> QED BY <2>2, <2>3
<1> QED BY <1>1, <1>2, WaitsKept, PTL DEF CalibSpec
=============================================================================
