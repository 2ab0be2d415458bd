----------------------------- MODULE SortingLine -----------------------------
(***************************************************************************)
(* PRG_SLD_Ablauf: the step chain of the sorting line with colour          *)
(* detection.  A workpiece on its belt is measured, followed by the pulse  *)
(* counter and blown into the bay of its colour.                           *)
(***************************************************************************)
EXTENDS DataBlocks

CONSTANT SldMayFail      \* whether a part may miss a light barrier or a bay

Calibrating == "Color_Sensor_Calibration" \in bits
Sld(step) == ~Calibrating /\ sld = step

SldInit ==
  /\ Calibrating \/ sld = 0
  /\ sld' = IF Calibrating \/ "SLD_Error" \in bits THEN 0 ELSE 10
  /\ UNCHANGED <<bits, at>>

\* 10-30 compressor and ejectors off, 70-90 belt run-on.
SldMove ==
  /\ \E m \in {<<10, 40>>, <<70, 40>>} : Sld(m[1]) /\ sld' \in {m[1], m[2]}
  /\ UNCHANGED <<bits, at>>

SldInlet ==
  /\ Sld(40)
  /\ sld' = IF Held("SLD") # {} THEN 50 ELSE 40
  /\ UNCHANGED <<bits, at>>

SldMeasure ==
  /\ Sld(50)
  /\ sld' \in {50, 60}
  /\ UNCHANGED <<bits, at>>

SldTimeout ==
  /\ Sld(50) /\ SldMayFail
  /\ sld' = 0
  /\ Switch({"SLD_Error"}, {})
  /\ UNCHANGED at

\* Step 60: at the counter value of the measured colour the ejector of that
\* colour blows; at 80 pulses without a match the part falls off the end and
\* the chain goes on with the error raised.
SldEject ==
  /\ Sld(60)
  /\ \/ /\ sld' = 70
        /\ at' = [p \in Piece |-> IF at[p] = "SLD" THEN ColourOf[p] ELSE at[p]]
        /\ UNCHANGED bits
     \/ /\ SldMayFail /\ sld' = 70
        /\ Switch({"SLD_Error"}, {}) /\ Carry("SLD", "lost")
     \/ sld' = 60 /\ UNCHANGED <<bits, at>>

\* One call of the program.
SLDProgram ==
  /\ SldInit \/ SldMove \/ SldInlet \/ SldMeasure \/ SldTimeout \/ SldEject
  /\ UNCHANGED <<vgr, nfc, hbw, mpo, ord, wp, rack, act, bay, typ, state,
                 button, cont>>

SldStep == {0, 10, 40, 50, 60, 70}
=============================================================================
