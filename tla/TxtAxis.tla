------------------------------- MODULE TxtAxis -------------------------------
(***************************************************************************)
(* The lift of the rack of the TXT library: a vertical encoder axis with a *)
(* reference switch, the cantilever between its two switches, and the      *)
(* moves that the rack composes of them.  The motor board runs beside the  *)
(* program: it takes what the program has written into the transfer area   *)
(* and shows its counter, and the command it has finished, some time       *)
(* later.  The horizontal axis runs the code of the vertical one and is    *)
(* left out.                                                               *)
(***************************************************************************)
EXTENDS Integers, Sequences

CONSTANTS PosEnd,      \* end of the travel
          Rows, Conv,  \* heights of the rows of the rack and of the belt
          Delta,       \* ydelta: how far the cantilever dips or lifts
          MaxJog,      \* steps of one push of the joystick: 20
          MaxJogs, MaxStops, MaxJams   \* bounds
ASSUME AxisConstants == /\ PosEnd \in Nat /\ Delta \in Nat \ {0} /\ MaxJog \in Nat
                        /\ \A r \in Rows \cup {Conv} : r \in Nat /\ r > Delta /\ r + Delta < PosEnd

VARIABLES phase, plan,        \* what the rack is doing; the moves left, the first is running
          status, looking, pos, stopY,             \* encoder axis; looking: in the loop of a move
          motor, dist, reset,                      \* what the program has written for the board
          taken, bMotor, bDist, counter, at,       \* what the board has taken; its counter; the lift
          seen, inCounter,                         \* what the program sees of the board
          cut,                                     \* history: a move was cut short since it was referenced
          zStatus, zMotor, stopZ, zAt, outAt,      \* cantilever: 0 in, 2 out; history: where it went out
          exited, jam, jogs, stops, jams
rack == <<phase, plan>>
prog == <<status, looking, pos, stopY>>
outputs == <<motor, dist, reset>>
board == <<bMotor, bDist, counter, at>>
inputs == <<seen, inCounter>>
axisZ == <<zStatus, zMotor, stopZ>>
slide == <<zAt, outAt>>
faults == <<jogs, stops, jams>>
axisVars == <<rack, prog, outputs, taken, board, inputs, cut, axisZ, slide, exited, jam, faults>>

Moving == {"MOVING_LEFT", "MOVING_RIGHT", "MOVING_REF"}
AxisTypeOK ==
  /\ phase \in {"start", "idle", "fetched", "calib"}
  /\ status \in {"NOREF", "READY", "ERROR"} \cup Moving /\ looking \in BOOLEAN
  /\ pos \in 0 .. PosEnd - 1 /\ motor \in {"off", "left", "right"} /\ bMotor \in {"off", "left", "right"}
  /\ zStatus \in {"READY", "MOVING_S2X"} /\ zMotor \in {"off", "in", "out"} /\ zAt \in 0 .. 2
  /\ jam \in {"no", "yes", "was"}

AxisInit ==
  /\ phase = "start" /\ plan = <<>>
  /\ status = "NOREF" /\ looking = FALSE /\ pos = 0 /\ stopY = FALSE
  /\ motor = "off" /\ dist = 0 /\ reset = FALSE
  /\ taken = TRUE /\ bMotor = "off" /\ bDist = 0 /\ counter = 0 /\ at \in {0, 2}
  /\ seen = TRUE /\ inCounter = 0 /\ cut = FALSE
  /\ zStatus = "READY" /\ zMotor = "off" /\ stopZ = FALSE /\ zAt \in {0, 1} /\ outAt = 0
  /\ exited = FALSE /\ jam = "no" /\ jogs = 0 /\ stops = 0 /\ jams = 0

-----------------------------------------------------------------------------
(* The composed moves.  A height is a move of the encoder axis.            *)

S1 == -1
S2 == -2
Ref == -3
MoveHome == <<S1, Ref>>
GetCR(r) == <<S1, r, S2, r - Delta, S1>>
PutCR(r) == <<S1, r, r - Delta, S2, r + Delta, S1>>
\* Every caller of getConv and putConv leaves the cantilever out at the belt,
\* and getConv finds it there.  A slip would be to put it out on the way.
GetConv == <<Conv, S2, Conv - Delta>>
PutConvEarly == <<S1, S2, Conv, Conv + Delta>>
PutConv == <<S1, Conv, S2, Conv + Delta>>
\* A push of the joystick, moveRel: it keeps the position from passing zero
\* but not the end of the travel.
Jogs == {p \in pos - MaxJog .. pos + MaxJog : p # pos /\ p >= 0}

\* The board has what the program has written: the loops that call the
\* composed moves sleep for a cycle of the transfer.
Settled == taken /\ bMotor = motor /\ ~reset
Go ==
  /\ plan = <<>> /\ ~exited /\ Settled
  /\ \/ /\ phase = "start"      \* INIT, and the entry of IDLE
        /\ plan' = MoveHome \o MoveHome /\ phase' = "idle" /\ UNCHANGED jogs
     \/ /\ phase = "idle"       \* fetch, and waiting at the belt
        /\ \E r \in Rows : plan' = GetCR(r) \o PutConv
        /\ phase' = "fetched" /\ UNCHANGED jogs
     \/ /\ phase = "fetched"    \* store, and the entry of IDLE
        /\ \E r \in Rows : plan' = GetConv \o PutCR(r) \o MoveHome \o MoveHome
        /\ phase' = "idle" /\ UNCHANGED jogs
     \/ /\ phase = "fetched"    \* a fault, and its acknowledgement
        /\ plan' = MoveHome /\ phase' = "idle" /\ UNCHANGED jogs
     \/ /\ phase \in {"idle", "calib"} /\ plan' = MoveHome
        /\ phase' = (IF phase = "idle" THEN "calib" ELSE "idle") /\ UNCHANGED jogs
     \/ /\ phase = "calib"      \* moveCalibPos
        /\ \E h \in Rows \cup {Conv} : plan' = MoveHome \o <<S1, h>>
        /\ UNCHANGED <<phase, jogs>>
     \/ /\ phase = "calib" /\ status = "READY" /\ jogs < MaxJogs /\ jogs' = jogs + 1
        /\ \E p \in Jogs : plan' = <<p>>
        /\ UNCHANGED phase
  /\ UNCHANGED <<prog, outputs, taken, board, inputs, cut, axisZ, slide, exited, jam, stops, jams>>

Doing(m) == ~exited /\ plan # <<>> /\ Head(plan) = m
Return == plan' = Tail(plan)
UpDown == UNCHANGED <<phase, board, inCounter, axisZ, slide, faults>>

-----------------------------------------------------------------------------
(* The encoder axis.                                                       *)

\* A loop waits in vain when the mechanics jam, a jam that has freed itself
\* may have cost it its time, and a motor that was not switched on, since the
\* switch was pressed, does not move a lift that has left the switch since.
InVain == jam # "no" \/ (status \in Moving /\ motor = "off")
\* What a loop does after 20 s; a slip would be to wait for ever.
WaitsOn == FALSE
Timeout == InVain /\ exited' = TRUE
\* A new loop begins to count its time.
NewTime == jam' = IF jam = "was" THEN "no" ELSE jam
\* A command to the board, with a number of its own.
Command(d) == dist' = d /\ taken' = FALSE /\ seen' = FALSE

\* moveRef; an axis in any other status has ended the program.
StartRef ==
  /\ Doing(Ref) /\ status \in {"READY", "NOREF"}
  /\ Command(0) /\ reset' = TRUE /\ NewTime
  /\ status' = "MOVING_REF" /\ motor' = IF at = 0 THEN "off" ELSE "left"
  /\ UNCHANGED <<plan, looking, pos, stopY, cut, exited>> /\ UpDown

\* The board moves the lift no more, whatever it has not taken yet.
AtRest == bMotor = "off" \/ (bDist > 0 /\ counter >= bDist) \/ (bMotor = "left" /\ at = 0)
Referenced == at = 0
MoveRef ==
  /\ Doing(Ref) /\ status = "MOVING_REF"
  /\ \/ /\ Referenced /\ motor' = "off" /\ reset' = TRUE
        /\ status' = "READY" /\ pos' = 0 /\ cut' = (cut /\ ~AtRest)
        /\ Return /\ UNCHANGED <<stopY, exited>>
     \/ /\ ~Referenced /\ stopY
        /\ motor' = "off" /\ status' = "NOREF" /\ stopY' = FALSE /\ exited' = TRUE
        /\ UNCHANGED <<plan, pos, reset, cut>>
     \/ /\ ~Referenced /\ ~stopY /\ Timeout     \* 20 s: the motor stays on
        /\ UNCHANGED <<plan, pos, motor, reset, status, stopY, cut>>
  /\ UNCHANGED <<looking, dist, taken, seen, jam>> /\ UpDown

\* moveAbs up to its loop: any height, also one beyond the end of the travel.
\* A slip would be to count the way to the right from zero.
StepsFromZero(p) == IF p > pos THEN p ELSE pos - p
Steps(p) == IF p > pos THEN p - pos ELSE pos - p
StartMove ==
  /\ plan # <<>> /\ ~exited /\ Head(plan) >= 0 /\ status = "READY"
  /\ LET p == Head(plan)
     IN  IF p = pos THEN Return /\ UNCHANGED <<prog, motor, dist, taken, seen, jam>>
         ELSE /\ Command(Steps(p)) /\ NewTime /\ looking' = TRUE
              /\ status' = IF p > pos THEN "MOVING_RIGHT" ELSE "MOVING_LEFT"
              /\ motor' = IF p > pos THEN "right" ELSE IF at = 0 THEN "off" ELSE "left"
              /\ UNCHANGED <<plan, pos, stopY>>
  /\ UNCHANGED <<reset, cut, exited>> /\ UpDown

\* The number of the command finished is less than that of the command given.
\* A slip would be to compare the counter instead, which may be an old one.
RunningByCount == inCounter < dist
Running == ~seen
LeavesLoop == looking' = FALSE
CutsShort == motor' = "off" /\ cut' = TRUE /\ LeavesLoop
Looks == UNCHANGED <<plan, status, pos, dist, taken, seen, jam>> /\ UpDown
\* The loop of moveLeft.
MoveLeft ==
  /\ status = "MOVING_LEFT" /\ looking /\ ~exited
  /\ \/ ~Running /\ LeavesLoop /\ UNCHANGED <<motor, reset, stopY, cut, exited>>
     \/ Running /\ at = 0 /\ CutsShort /\ reset' = TRUE /\ UNCHANGED <<stopY, exited>>
     \/ Running /\ at # 0 /\ stopY /\ CutsShort /\ stopY' = FALSE /\ UNCHANGED <<reset, exited>>
     \/ Running /\ at # 0 /\ ~stopY /\ Timeout /\ UNCHANGED <<looking, motor, reset, stopY, cut>>
  /\ Looks
\* After the loop, whatever broke it, the counter is read as it is seen then.
Back(c) == IF pos >= c THEN pos - c ELSE 0
Ends == UNCHANGED <<looking, stopY, outputs, taken, seen, cut, jam>> /\ UpDown
LeftEnds ==
  /\ status = "MOVING_LEFT" /\ ~looking /\ ~exited
  /\ pos' = Back(inCounter) /\ status' = "READY" /\ Return /\ UNCHANGED exited
  /\ Ends

\* moveRight: a move that would reach the end is stopped by the first look of
\* its loop; when the counter has got there the program ends.
Overrun == pos + dist >= PosEnd
MoveRight ==
  /\ status = "MOVING_RIGHT" /\ looking /\ ~exited
  /\ \/ ~Running /\ LeavesLoop /\ UNCHANGED <<motor, stopY, cut, exited>>
     \/ Running /\ Overrun /\ CutsShort /\ UNCHANGED <<stopY, exited>>
     \/ Running /\ ~Overrun /\ stopY /\ CutsShort /\ stopY' = FALSE /\ UNCHANGED exited
     \/ Running /\ ~Overrun /\ ~stopY /\ Timeout /\ UNCHANGED <<looking, motor, stopY, cut>>
  /\ UNCHANGED reset /\ Looks
RightEnds ==
  /\ status = "MOVING_RIGHT" /\ ~looking /\ ~exited
  /\ IF pos + inCounter >= PosEnd
     THEN status' = "ERROR" /\ exited' = TRUE /\ UNCHANGED <<plan, pos>>
     ELSE pos' = pos + inCounter /\ status' = "READY" /\ Return /\ UNCHANGED exited
  /\ Ends

Axis == StartRef \/ MoveRef \/ StartMove \/ MoveLeft \/ LeftEnds \/ MoveRight \/ RightEnds

-----------------------------------------------------------------------------
(* The cantilever: moveS2X.                                                *)

Goal == IF Doing(S1) THEN 0 ELSE 2
Cantilever ==
  /\ Doing(S1) \/ Doing(S2)
  /\ \/ /\ zAt = Goal /\ zMotor' = "off" /\ zStatus' = "READY" /\ Return /\ UNCHANGED <<stopZ, exited, jam>>
     \/ /\ zAt # Goal /\ zStatus = "READY" /\ NewTime
        /\ zMotor' = (IF Goal = 0 THEN "in" ELSE "out") /\ zStatus' = "MOVING_S2X"
        /\ UNCHANGED <<plan, stopZ, exited>>
     \/ /\ zAt # Goal /\ zStatus = "MOVING_S2X" /\ stopZ
        /\ zMotor' = "off" /\ stopZ' = FALSE /\ zStatus' = "READY" /\ Return /\ UNCHANGED <<exited, jam>>
     \/ /\ zAt # Goal /\ zStatus = "MOVING_S2X" /\ ~stopZ /\ Timeout
        /\ UNCHANGED <<plan, axisZ, jam>>
  /\ UNCHANGED <<phase, prog, outputs, taken, board, inputs, cut, slide, faults>>

-----------------------------------------------------------------------------
(* The transfer, the board, the mechanics and the other threads.           *)

Program == UNCHANGED <<rack, prog, motor, dist, axisZ, exited, faults, cut>>
\* The board takes what the program has written: a command with a new number
\* restarts its counter, and so does a reset.
Send ==
  /\ ~Settled
  /\ bMotor' = motor /\ bDist' = dist /\ taken' = TRUE /\ reset' = FALSE
  /\ counter' = IF taken /\ ~reset THEN counter ELSE 0
  /\ UNCHANGED <<at, inputs, slide, jam>> /\ Program
\* The program sees the counter, and that the command is finished.
Finished == taken /\ (bDist = 0 \/ counter >= bDist)
Receive ==
  /\ inCounter' = counter /\ seen' = (seen \/ Finished)
  /\ UNCHANGED <<reset, taken, board, slide, jam>> /\ Program
Powered == bMotor # "off" /\ (bDist = 0 \/ counter < bDist) /\ jam # "yes"
Pulse ==
  /\ Powered /\ counter' = counter + 1
  /\ at' = IF bMotor = "left" THEN at - 1 ELSE at + 1
  /\ at' >= 0
  /\ UNCHANGED <<reset, taken, bMotor, bDist, inputs, slide, jam>> /\ Program
Slide ==
  /\ zMotor # "off" /\ jam # "yes"
  /\ zAt' = IF zMotor = "in" THEN zAt - 1 ELSE zAt + 1
  /\ zAt' \in 0 .. 2
  /\ outAt' = IF zAt = 0 THEN at ELSE IF zAt' = 0 THEN 0 ELSE outAt
  /\ UNCHANGED <<reset, taken, board, inputs, jam>> /\ Program
Jam == /\ jam # "yes" /\ jams < MaxJams /\ jam' = "yes" /\ jams' = jams + 1
       /\ UNCHANGED <<rack, prog, outputs, taken, board, inputs, cut, axisZ, slide, exited, jogs, stops>>
Free == /\ jam = "yes" /\ jam' = "was"
        /\ UNCHANGED <<reset, taken, board, inputs, slide>> /\ Program
\* stop of the rack, from another thread at any time.
Stop == /\ ~exited /\ stops < MaxStops /\ stops' = stops + 1 /\ stopY' = TRUE /\ stopZ' = TRUE
        /\ UNCHANGED <<rack, status, looking, pos, outputs, taken, board, inputs, cut,
                       zStatus, zMotor, slide, exited, jam, jogs, jams>>

AxisNext == Go \/ Axis \/ Cantilever \/ Send \/ Receive \/ Pulse \/ Slide \/ Jam \/ Free \/ Stop
\* The loops poll every 10 ms, the transfer, the board and the mechanics go on.
AxisSpec == /\ AxisInit /\ [][AxisNext]_axisVars
            /\ WF_axisVars(Axis) /\ WF_axisVars(Cantilever) /\ WF_axisVars(Slide)
            /\ WF_axisVars(Send) /\ WF_axisVars(Receive) /\ WF_axisVars(Pulse)

-----------------------------------------------------------------------------
(* Between two moves a referenced axis stands where its position says,     *)
(* although the program reads the counter when the board is at work and    *)
(* what it sees of it may be old, unless a move was cut short (by a stop,  *)
(* the switch, or the end of the travel) since it was referenced: then     *)
(* pulses come after the counter is read.                                  *)
PosTrue == (status = "READY" /\ ~cut) => pos = at

(* As long as nobody stops it, the cantilever is out only where it may be: *)
(* it went out at a row or at the belt, and the lift stays within ydelta   *)
(* of that place until it is in again, also while it waits at the belt     *)
(* with the cantilever out.                                                *)
CantileverFree ==
  (stops = 0 /\ status # "NOREF" /\ zAt # 0) =>
     \E h \in Rows \cup {Conv} : {at, outAt} \subseteq h - Delta .. h + Delta

(* A move that is not cut short arrives where it was sent, in the record   *)
(* and in fact, however late the program sees the board.                   *)
Arrives == [][(status \in {"MOVING_LEFT", "MOVING_RIGHT"} /\ status' = "READY" /\ ~cut)
                 => pos' = Head(plan) /\ at' = pos']_axisVars

(* Every composed move ends, with the program if the mechanics jam.        *)
MovesEnd == plan # <<>> ~> (plan = <<>> \/ exited)
=============================================================================
