----------------------------- MODULE AxisProofs ------------------------------
(***************************************************************************)
(* The lift of the TXT rack, for any travel, rows, joystick and bounds:    *)
(* the position on record is where the lift stands, and moves arrive where *)
(* they were sent, until a move is cut short; and until somebody stops the *)
(* rack the cantilever is out only where it may be.                        *)
(***************************************************************************)
EXTENDS TxtAxis, SequenceTheorems, TLAPS

Motors == {"off", "left", "right"}
Driving == {"MOVING_LEFT", "MOVING_RIGHT"}
LiftTypes ==
  /\ plan \in Seq(Int) /\ status \in {"NOREF", "READY", "ERROR"} \cup Moving
  /\ pos \in Nat /\ at \in Nat /\ dist \in Nat /\ bDist \in Nat /\ counter \in Nat /\ inCounter \in Nat
  /\ motor \in Motors /\ bMotor \in Motors
  /\ looking \in BOOLEAN /\ reset \in BOOLEAN /\ taken \in BOOLEAN /\ seen \in BOOLEAN
  /\ cut \in BOOLEAN /\ exited \in BOOLEAN

\* The composed moves are sequences of moves.
LEMMA PlansAreMoves ==
  /\ MoveHome \in Seq(Int) /\ GetConv \in Seq(Int) /\ PutConv \in Seq(Int)
  /\ \A r \in Rows : GetCR(r) \in Seq(Int) /\ PutCR(r) \in Seq(Int)
  /\ \A h \in Rows \cup {Conv} : <<S1, h>> \in Seq(Int)
<1>1. /\ Conv \in Int /\ Conv - Delta \in Int /\ Conv + Delta \in Int
      /\ \A r \in Rows : r \in Int /\ r - Delta \in Int /\ r + Delta \in Int
  BY AxisConstants
<1>2. S1 \in Int /\ S2 \in Int /\ Ref \in Int
  BY DEF S1, S2, Ref
<1> QED BY <1>1, <1>2 DEF MoveHome, GetConv, PutConv, GetCR, PutCR

LEMMA GoTypes == LiftTypes /\ Go => plan' \in Seq(Int)
<1> SUFFICES ASSUME LiftTypes, Go PROVE plan' \in Seq(Int)
  OBVIOUS
<1>1. \A a, b \in Seq(Int) : a \o b \in Seq(Int)
  OBVIOUS
<1>2. CASE plan' = MoveHome \o MoveHome \/ plan' = MoveHome
  BY <1>1, <1>2, PlansAreMoves
<1>3. CASE \E r \in Rows : plan' = GetCR(r) \o PutConv
  BY <1>1, <1>3, PlansAreMoves
<1>4. CASE \E r \in Rows : plan' = GetConv \o PutCR(r) \o MoveHome \o MoveHome
  <2>1. PICK r \in Rows : plan' = GetConv \o PutCR(r) \o MoveHome \o MoveHome
    BY <1>4
  <2>2. GetConv \o PutCR(r) \in Seq(Int)
    BY <1>1, PlansAreMoves
  <2>3. GetConv \o PutCR(r) \o MoveHome \in Seq(Int)
    BY <1>1, <2>2, PlansAreMoves
  <2> QED BY <1>1, <2>1, <2>3, PlansAreMoves
<1>5. CASE \E h \in Rows \cup {Conv} : plan' = MoveHome \o <<S1, h>>
  BY <1>1, <1>5, PlansAreMoves
<1>6. CASE \E p \in Jogs : plan' = <<p>>
  BY <1>6 DEF Jogs
<1> QED BY <1>2, <1>3, <1>4, <1>5, <1>6 DEF Go

-----------------------------------------------------------------------------
\* What the board is about to take lets the lift rest.
WillRest == motor = "off" \/ (motor = bMotor /\ taken /\ ~reset /\ bDist > 0 /\ counter >= bDist)
Idle == status = "READY" \/ (status = "NOREF" /\ ~exited)
\* Between two moves.
RestInv == Idle /\ ~cut => AtRest /\ WillRest /\ (status = "READY" => pos = at)
\* In a reference run: until the board has taken it the lift rests.
HomeInv == status = "MOVING_REF" => /\ motor \in {"off", "left"} /\ (taken => bMotor \in {"off", "left"})
                                    /\ ~taken /\ ~cut => AtRest
\* In a move: what is left of it, and what the program has seen of it.
Headed == dist > 0 /\ plan # <<>>
          /\ IF status = "MOVING_LEFT" THEN motor = "left" /\ Head(plan) = pos - dist
             ELSE motor = "right" /\ Head(plan) = pos + dist
Gone == bMotor = motor /\ bDist = dist /\ counter <= dist /\ ~reset
        /\ at = IF status = "MOVING_LEFT" THEN pos - counter ELSE pos + counter
DriveInv == status \in Driving /\ ~cut =>
              /\ Headed
              /\ IF taken THEN Gone ELSE pos = at /\ AtRest
              /\ seen => taken /\ inCounter = dist /\ counter = dist
              /\ looking \/ seen
\* The move that runs is the first of the plan.
PlanInv == status \in Driving => plan # <<>> /\ Head(plan) >= 0
TrackInv == LiftTypes /\ RestInv /\ HomeInv /\ DriveInv /\ PlanInv

LEMMA TrackStarts == AxisInit => TrackInv
<1> SUFFICES ASSUME AxisInit PROVE TrackInv
  OBVIOUS
<1>1. plan \in Seq(Int) /\ at \in Nat
  BY DEF AxisInit
<1>2. LiftTypes
  BY <1>1 DEF AxisInit, LiftTypes, Motors
<1>3. status = "NOREF" /\ motor = "off" /\ bMotor = "off"
  BY DEF AxisInit
<1> QED BY <1>2, <1>3 DEF TrackInv, RestInv, HomeInv, DriveInv, PlanInv, Idle, AtRest, WillRest, Driving

\* A lift at rest does not move.
LEMMA RestStays == LiftTypes /\ AtRest /\ Pulse => FALSE
BY DEF LiftTypes, Motors, AtRest, Pulse, Powered

LEMMA TailTypes == LiftTypes /\ plan # <<>> => Tail(plan) \in Seq(Int) /\ Head(plan) \in Int
BY DEF LiftTypes

LEMMA StartRefTracks == TrackInv /\ StartRef => TrackInv'
<1> SUFFICES ASSUME TrackInv, StartRef PROVE TrackInv'
  OBVIOUS
<1>1. /\ status \in {"READY", "NOREF"} /\ ~exited /\ status' = "MOVING_REF" /\ motor' \in {"off", "left"}
      /\ taken' = FALSE /\ seen' = FALSE /\ dist' = 0 /\ reset' = TRUE
      /\ UNCHANGED <<plan, looking, pos, cut, exited, bMotor, bDist, counter, at, inCounter>>
  BY DEF StartRef, Doing, Command, UpDown, board
<1>2. LiftTypes'
  BY <1>1 DEF TrackInv, LiftTypes, Motors, Moving
<1>3. ~cut => AtRest
  BY <1>1 DEF TrackInv, RestInv, Idle
<1>4. HomeInv'
  BY <1>1, <1>3 DEF HomeInv, AtRest
<1> QED BY <1>1, <1>2, <1>4 DEF TrackInv, RestInv, DriveInv, PlanInv, Idle, Driving

LEMMA MoveRefTracks == TrackInv /\ MoveRef => TrackInv'
<1> SUFFICES ASSUME TrackInv, MoveRef PROVE TrackInv'
  OBVIOUS
<1>1. /\ status = "MOVING_REF" /\ plan # <<>>
      /\ UNCHANGED <<looking, dist, taken, seen, bMotor, bDist, counter, at, inCounter>>
  BY DEF MoveRef, Doing, UpDown, board
<1>2. CASE /\ at = 0 /\ motor' = "off" /\ reset' = TRUE /\ status' = "READY" /\ pos' = 0
           /\ cut' = (cut /\ ~AtRest) /\ plan' = Tail(plan) /\ exited' = exited
  <2>1. LiftTypes'
    BY <1>1, <1>2, TailTypes DEF TrackInv, LiftTypes, Motors, Moving
  <2>2. AtRest' <=> AtRest
    BY <1>1 DEF AtRest
  <2>3. ~cut => AtRest
    BY <1>1, <1>2 DEF TrackInv, HomeInv, AtRest, LiftTypes, Motors
  <2>4. RestInv'
    BY <1>1, <1>2, <2>2, <2>3 DEF RestInv, WillRest
  <2> QED BY <1>2, <2>1, <2>4 DEF TrackInv, HomeInv, DriveInv, PlanInv, Driving
<1>3. CASE motor' = "off" /\ status' = "NOREF" /\ exited' = TRUE /\ UNCHANGED <<plan, pos, reset, cut>>
  <2>1. LiftTypes'
    BY <1>1, <1>3 DEF TrackInv, LiftTypes, Motors
  <2> QED BY <1>3, <2>1 DEF TrackInv, RestInv, HomeInv, DriveInv, PlanInv, Idle, Driving
<1>4. CASE exited' = TRUE /\ UNCHANGED <<plan, pos, motor, reset, status, stopY, cut>>
  <2>1. LiftTypes'
    BY <1>1, <1>4 DEF TrackInv, LiftTypes
  <2> QED BY <1>1, <1>4, <2>1 DEF TrackInv, RestInv, HomeInv, DriveInv, PlanInv, Idle, Driving, AtRest
<1> QED BY <1>2, <1>3, <1>4 DEF MoveRef, Referenced, Return, Timeout

LEMMA StartMoveTracks == TrackInv /\ StartMove => TrackInv'
<1> SUFFICES ASSUME TrackInv, StartMove PROVE TrackInv'
  OBVIOUS
<1>1. /\ plan # <<>> /\ ~exited /\ Head(plan) >= 0 /\ status = "READY" /\ Head(plan) \in Int
      /\ UNCHANGED <<reset, cut, exited, bMotor, bDist, counter, at, inCounter>>
  BY TailTypes DEF StartMove, UpDown, board, TrackInv
<1>2. ~cut => AtRest /\ WillRest /\ pos = at
  BY <1>1 DEF TrackInv, RestInv, Idle
<1>3. CASE plan' = Tail(plan) /\ UNCHANGED <<prog, motor, dist, taken, seen>>
  <2>1. LiftTypes'
    BY <1>1, <1>3, TailTypes DEF TrackInv, LiftTypes, prog
  <2> QED BY <1>1, <1>2, <1>3, <2>1
          DEF TrackInv, RestInv, HomeInv, DriveInv, PlanInv, Idle, Driving, AtRest, WillRest, prog
<1>4. CASE /\ Head(plan) # pos /\ dist' = Steps(Head(plan)) /\ taken' = FALSE /\ seen' = FALSE /\ looking' = TRUE
           /\ status' = IF Head(plan) > pos THEN "MOVING_RIGHT" ELSE "MOVING_LEFT"
           /\ motor' = IF Head(plan) > pos THEN "right" ELSE IF at = 0 THEN "off" ELSE "left"
           /\ UNCHANGED <<plan, pos, stopY>>
  <2>1. dist' \in Nat /\ dist' > 0 /\ Head(plan) = IF Head(plan) > pos THEN pos + dist' ELSE pos - dist'
    BY <1>1, <1>4 DEF Steps, TrackInv, LiftTypes
  <2>2. LiftTypes'
    BY <1>1, <1>4, <2>1 DEF TrackInv, LiftTypes, Motors, Moving
  <2>3. ~cut /\ Head(plan) < pos => at # 0
    BY <1>1, <1>2 DEF TrackInv, LiftTypes
  <2>4. ~cut => Headed'
    BY <1>1, <1>4, <2>1, <2>3 DEF Headed, TrackInv, LiftTypes
  <2>5. DriveInv'
    BY <1>1, <1>2, <1>4, <2>4 DEF DriveInv, AtRest
  <2> QED BY <1>1, <1>4, <2>2, <2>5 DEF TrackInv, RestInv, HomeInv, PlanInv, Idle, Driving
<1> QED BY <1>3, <1>4 DEF StartMove, Return, Command

LEMMA MoveTracks == TrackInv /\ (MoveLeft \/ MoveRight) => TrackInv'
<1> SUFFICES ASSUME TrackInv, MoveLeft \/ MoveRight PROVE TrackInv'
  OBVIOUS
<1>1. /\ status \in Driving /\ looking /\ ~exited
      /\ UNCHANGED <<plan, status, pos, dist, taken, seen, bMotor, bDist, counter, at, inCounter>>
  BY DEF MoveLeft, MoveRight, Looks, UpDown, board, Driving
<1>2. CASE seen /\ looking' = FALSE /\ UNCHANGED <<motor, reset, cut, exited>>
  <2>1. LiftTypes'
    BY <1>1, <1>2 DEF TrackInv, LiftTypes
  <2> QED BY <1>1, <1>2, <2>1
          DEF TrackInv, RestInv, HomeInv, DriveInv, PlanInv, Idle, Driving, AtRest, Headed, Gone
<1>3. CASE motor' = "off" /\ cut' = TRUE /\ looking' = FALSE /\ reset' \in {TRUE, reset} /\ exited' = exited
  <2>1. LiftTypes'
    BY <1>1, <1>3 DEF TrackInv, LiftTypes, Motors
  <2> QED BY <1>1, <1>3, <2>1 DEF TrackInv, RestInv, HomeInv, DriveInv, PlanInv, Driving, Idle
<1>4. CASE exited' = TRUE /\ UNCHANGED <<looking, motor, reset, cut>>
  <2>1. LiftTypes'
    BY <1>1, <1>4 DEF TrackInv, LiftTypes
  <2> QED BY <1>1, <1>4, <2>1
          DEF TrackInv, RestInv, HomeInv, DriveInv, PlanInv, Idle, Driving, AtRest, Headed, Gone
<1>5. CASE MoveLeft
  BY <1>2, <1>3, <1>4, <1>5 DEF MoveLeft, Running, LeavesLoop, CutsShort, Timeout
<1>6. CASE MoveRight
  BY <1>2, <1>3, <1>4, <1>6 DEF MoveRight, Running, LeavesLoop, CutsShort, Timeout
<1> QED BY <1>5, <1>6

\* Where a move ends that was not cut short.
LEMMA EndsThere ==
  ASSUME TrackInv, LeftEnds \/ RightEnds
  PROVE  /\ TrackInv'
         /\ ~cut /\ status' = "READY" => pos' = Head(plan) /\ at' = pos'
<1>1. /\ status \in Driving /\ ~looking /\ ~exited /\ plan # <<>>
      /\ UNCHANGED <<looking, motor, dist, reset, taken, seen, cut, bMotor, bDist, counter, at, inCounter>>
  BY DEF LeftEnds, RightEnds, Ends, UpDown, board, outputs, Driving, TrackInv, PlanInv
<1>2. ~cut => /\ Headed /\ Gone /\ taken /\ inCounter = dist /\ counter = dist
  BY <1>1 DEF TrackInv, DriveInv
<1>3. CASE LeftEnds
  <2>1. status = "MOVING_LEFT" /\ pos' = Back(inCounter) /\ status' = "READY" /\ plan' = Tail(plan) /\ exited' = exited
    BY <1>3 DEF LeftEnds, Return
  <2>2. pos' \in Nat
    BY <2>1 DEF Back, TrackInv, LiftTypes
  <2>3. LiftTypes'
    BY <1>1, <2>1, <2>2, TailTypes DEF TrackInv, LiftTypes
  <2>4. ~cut => pos' = Head(plan) /\ pos' = at
    BY <1>2, <2>1 DEF Headed, Gone, Back, TrackInv, LiftTypes
  <2>5. ~cut => AtRest' /\ WillRest'
    BY <1>1, <1>2 DEF AtRest, WillRest, Gone, Headed, TrackInv, LiftTypes
  <2>6. RestInv'
    BY <1>1, <2>4, <2>5 DEF RestInv
  <2> QED BY <1>1, <2>1, <2>3, <2>4, <2>6 DEF TrackInv, HomeInv, DriveInv, PlanInv, Driving
<1>4. CASE RightEnds
  <2>1. status = "MOVING_RIGHT"
    BY <1>4 DEF RightEnds
  <2>2. CASE status' = "ERROR" /\ exited' = TRUE /\ UNCHANGED <<plan, pos>>
    <3>1. LiftTypes'
      BY <1>1, <2>2 DEF TrackInv, LiftTypes
    <3> QED BY <2>2, <3>1 DEF TrackInv, RestInv, HomeInv, DriveInv, PlanInv, Idle, Driving
  <2>3. CASE pos' = pos + inCounter /\ status' = "READY" /\ plan' = Tail(plan) /\ exited' = exited
    <3>1. LiftTypes'
      BY <1>1, <2>3, TailTypes DEF TrackInv, LiftTypes
    <3>2. ~cut => pos' = Head(plan) /\ pos' = at
      BY <1>2, <2>1, <2>3 DEF Headed, Gone, TrackInv, LiftTypes
    <3>3. ~cut => AtRest' /\ WillRest'
      BY <1>1, <1>2 DEF AtRest, WillRest, Gone, Headed, TrackInv, LiftTypes
    <3>4. RestInv'
      BY <1>1, <3>2, <3>3 DEF RestInv
    <3> QED BY <1>1, <2>3, <3>1, <3>2, <3>4 DEF TrackInv, HomeInv, DriveInv, PlanInv, Driving
  <2> QED BY <1>4, <2>2, <2>3 DEF RightEnds, Return
<1> QED BY <1>3, <1>4

\* The transfer and the board.
LEMMA SendTracks == TrackInv /\ Send => TrackInv'
<1> SUFFICES ASSUME TrackInv, Send PROVE TrackInv'
  OBVIOUS
<1>1. /\ ~(taken /\ bMotor = motor /\ ~reset) /\ bMotor' = motor /\ bDist' = dist
      /\ taken' = TRUE /\ reset' = FALSE /\ counter' = IF taken /\ ~reset THEN counter ELSE 0
      /\ UNCHANGED <<at, seen, inCounter, plan, status, looking, pos, motor, dist, exited, cut>>
  BY DEF Send, Settled, inputs, Program, rack, prog
<1>2. LiftTypes'
  BY <1>1 DEF TrackInv, LiftTypes
<1>3. RestInv'
  BY <1>1 DEF TrackInv, RestInv, Idle, AtRest, WillRest
<1>4. HomeInv'
  BY <1>1 DEF TrackInv, HomeInv
<1>5. ASSUME status \in Driving, ~cut PROVE DriveInv'
  <2>1. ~taken /\ Headed /\ pos = at
    BY <1>1, <1>5 DEF TrackInv, DriveInv, Gone
  <2>2. Headed' /\ Gone'
    BY <1>1, <2>1 DEF Headed, Gone, TrackInv, LiftTypes
  <2>3. ~seen
    BY <1>5, <2>1 DEF TrackInv, DriveInv
  <2> QED BY <1>1, <1>5, <2>2, <2>3 DEF TrackInv, DriveInv
<1> QED BY <1>1, <1>2, <1>3, <1>4, <1>5 DEF TrackInv, DriveInv, PlanInv

LEMMA ReceiveTracks == TrackInv /\ Receive => TrackInv'
<1> SUFFICES ASSUME TrackInv, Receive PROVE TrackInv'
  OBVIOUS
<1>1. /\ inCounter' = counter /\ seen' = (seen \/ (taken /\ (bDist = 0 \/ counter >= bDist)))
      /\ UNCHANGED <<reset, taken, bMotor, bDist, counter, at, plan, status, looking, pos, motor, dist, exited, cut>>
  BY DEF Receive, Finished, board, Program, rack, prog
<1>2. LiftTypes'
  BY <1>1 DEF TrackInv, LiftTypes
<1>3. RestInv' /\ HomeInv' /\ PlanInv'
  BY <1>1 DEF TrackInv, RestInv, HomeInv, PlanInv, Idle, AtRest, WillRest
<1>4. ASSUME status \in Driving, ~cut PROVE DriveInv'
  <2>1. Headed' /\ Headed
    BY <1>1, <1>4 DEF TrackInv, DriveInv, Headed
  <2>2. IF taken THEN Gone' /\ Gone ELSE pos = at /\ AtRest'
    BY <1>1, <1>4 DEF TrackInv, DriveInv, Gone, AtRest
  <2>3. seen' => taken /\ counter = dist
    BY <1>1, <1>4, <2>1, <2>2 DEF TrackInv, DriveInv, Gone, Headed, LiftTypes
  <2> QED BY <1>1, <1>4, <2>1, <2>2, <2>3 DEF TrackInv, DriveInv
<1> QED BY <1>1, <1>2, <1>3, <1>4 DEF TrackInv, DriveInv

LEMMA PulseTracks == TrackInv /\ Pulse => TrackInv'
<1> SUFFICES ASSUME TrackInv, Pulse PROVE TrackInv'
  OBVIOUS
<1>1. /\ bMotor # "off" /\ (bDist = 0 \/ counter < bDist) /\ counter' = counter + 1
      /\ at' = (IF bMotor = "left" THEN at - 1 ELSE at + 1) /\ at' >= 0
      /\ UNCHANGED <<reset, taken, bMotor, bDist, seen, inCounter, plan, status, looking, pos, motor, dist, exited, cut>>
  BY DEF Pulse, Powered, inputs, Program, rack, prog
<1>2. ~AtRest
  BY RestStays DEF TrackInv
<1>3. LiftTypes'
  BY <1>1 DEF TrackInv, LiftTypes
<1>4. RestInv' /\ HomeInv' /\ PlanInv'
  BY <1>1, <1>2 DEF TrackInv, RestInv, HomeInv, PlanInv, Idle
<1>5. ASSUME status \in Driving, ~cut PROVE DriveInv'
  <2>1. taken /\ Headed /\ Gone
    BY <1>2, <1>5 DEF TrackInv, DriveInv
  <2>2. counter < dist
    BY <1>1, <2>1 DEF Headed, Gone
  <2>3. ~seen
    BY <1>5, <2>2 DEF TrackInv, DriveInv, LiftTypes
  <2>4. Headed' /\ Gone'
    BY <1>1, <2>1, <2>2 DEF Headed, Gone, TrackInv, LiftTypes
  <2> QED BY <1>1, <1>5, <2>1, <2>3, <2>4 DEF TrackInv, DriveInv
<1> QED BY <1>1, <1>3, <1>4, <1>5 DEF TrackInv, DriveInv

\* The other steps leave the axis alone; the plan changes only between its moves.
LEMMA OthersTrack ==
  ASSUME TrackInv, plan' \in Seq(Int), status \in Driving => plan' = plan,
         exited' = exited \/ exited' = TRUE,
         UNCHANGED <<status, looking, pos, motor, dist, reset, taken, bMotor, bDist, counter, at,
                     seen, inCounter, cut>>
  PROVE  TrackInv'
<1>1. LiftTypes'
  BY DEF TrackInv, LiftTypes
<1>2. RestInv' /\ HomeInv' /\ PlanInv'
  BY DEF TrackInv, RestInv, HomeInv, PlanInv, Idle, AtRest, WillRest
<1>3. DriveInv'
  BY DEF TrackInv, DriveInv, Headed, Gone, AtRest
<1> QED BY <1>1, <1>2, <1>3 DEF TrackInv

LEMMA StepTracks == TrackInv /\ [AxisNext]_axisVars => TrackInv'
<1> SUFFICES ASSUME TrackInv, [AxisNext]_axisVars PROVE TrackInv'
  OBVIOUS
<1>1. CASE Axis
  BY <1>1, StartRefTracks, MoveRefTracks, StartMoveTracks, MoveTracks, EndsThere DEF Axis
<1>2. CASE Send \/ Receive \/ Pulse
  BY <1>2, SendTracks, ReceiveTracks, PulseTracks
<1>3. CASE Go
  <2>1. plan' \in Seq(Int) /\ status \notin Driving
    BY <1>3, GoTypes DEF TrackInv, PlanInv, Go
  <2> QED BY <1>3, <2>1, OthersTrack DEF Go, prog, outputs, board, inputs
<1>4. CASE Cantilever
  <2>1. plan # <<>> /\ Head(plan) \in {S1, S2}
    BY <1>4 DEF Cantilever, Doing
  <2>2. status \notin Driving
    BY <2>1 DEF TrackInv, PlanInv, S1, S2
  <2>3. plan' \in Seq(Int)
    BY <1>4, <2>1, TailTypes DEF Cantilever, Return, TrackInv, LiftTypes
  <2>4. exited' = exited \/ exited' = TRUE
    BY <1>4 DEF Cantilever, Timeout
  <2> QED BY <1>4, <2>2, <2>3, <2>4, OthersTrack DEF Cantilever, prog, outputs, board, inputs
<1>5. CASE Slide \/ Free
  BY <1>5, OthersTrack DEF Slide, Free, Program, rack, prog, board, inputs, TrackInv, LiftTypes
<1>6. CASE Jam \/ Stop
  BY <1>6, OthersTrack DEF Jam, Stop, rack, prog, outputs, board, inputs, TrackInv, LiftTypes
<1>7. CASE UNCHANGED axisVars
  BY <1>7, OthersTrack DEF axisVars, rack, prog, outputs, board, inputs, TrackInv, LiftTypes
<1> QED BY <1>1, <1>2, <1>3, <1>4, <1>5, <1>6, <1>7 DEF AxisNext

\* The record of the encoder axis is the place of the lift between two moves,
\* for any travel, rows and joystick, any jams, and a board that lags behind
\* the program, until a move is cut short.
THEOREM PositionTrue == AxisSpec => []PosTrue
<1>1. TrackInv => PosTrue
  BY DEF TrackInv, RestInv, Idle, PosTrue
<1> QED BY <1>1, TrackStarts, StepTracks, PTL DEF AxisSpec

\* A move that is not cut short ends where it was sent, in the record and in
\* fact.
THEOREM ArrivesWhereSent == AxisSpec => Arrives
<1>1. TrackInv /\ [AxisNext]_axisVars =>
        [(status \in {"MOVING_LEFT", "MOVING_RIGHT"} /\ status' = "READY" /\ ~cut)
           => pos' = Head(plan) /\ at' = pos']_axisVars
  <2> SUFFICES ASSUME TrackInv, AxisNext, status \in {"MOVING_LEFT", "MOVING_RIGHT"}, status' = "READY", ~cut
               PROVE  pos' = Head(plan) /\ at' = pos'
    OBVIOUS
  <2>1. CASE LeftEnds \/ RightEnds
    BY <2>1, EndsThere
  <2>2. CASE StartRef \/ StartMove \/ MoveRef \/ MoveLeft \/ MoveRight
    BY <2>2 DEF StartRef, StartMove, MoveRef, MoveLeft, MoveRight, Looks
  <2>3. CASE status' = status
    BY <2>3
  <2> QED
    BY <2>1, <2>2, <2>3 DEF AxisNext, Axis, Go, Cantilever, Send, Receive, Pulse, Slide, Free, Jam, Stop,
       Program, prog
<1> QED BY <1>1, TrackStarts, StepTracks, PTL DEF AxisSpec, Arrives

-----------------------------------------------------------------------------
(* The cantilever, as long as nobody has stopped the rack.                 *)

Heights == Rows \cup {Conv}
Zone(h) == h - Delta .. h + Delta
In == zAt = 0 /\ zMotor # "out"
Has(p, m) == \E i \in DOMAIN p : p[i] = m
\* From its i-th move on a plan keeps to height h, at least until the cantilever
\* is in; a rack that waits at the belt with the cantilever out is at the belt.
Stays(p, i, h) == \A j \in DOMAIN p : (j >= i /\ \A k \in i .. j : p[k] # S1) => p[j] = S2 \/ p[j] \in Zone(h)
Place(p, i, f, h) == Stays(p, i, h) /\ ((f = "fetched" /\ \A k \in DOMAIN p : k >= i => p[k] # S1) => h = Conv)
\* A safe plan, in a phase and from a position: the cantilever goes out only at
\* a height that the moves behind keep to, the reference run begins with it in,
\* and only a jog may leave the travel.
OutsSafe(p, f, from) ==
  \A i \in DOMAIN p : p[i] = S2 =>
    \E h \in Heights : (IF i = 1 THEN from ELSE p[i - 1]) \in Zone(h) /\ Place(p, i + 1, f, h)
RefsSafe(p) == \A i \in DOMAIN p : p[i] = Ref /\ i > 1 => p[i - 1] = S1
HeightsSafe(p, f) == \A i \in DOMAIN p : p[i] >= 0 => p[i] \in 1 .. PosEnd - 1 \/ (f = "calib" /\ Len(p) = 1)
PlanSafe(p, f, from) == OutsSafe(p, f, from) /\ RefsSafe(p) /\ HeightsSafe(p, f) /\ (f = "calib" => ~Has(p, S2))
\* The last that a plan does with the cantilever is to take it in.
Closes(p) == \E i \in DOMAIN p : p[i] = S1 /\ \A j \in DOMAIN p : j > i => p[j] # S2
Homes(p) == Len(p) > 0 /\ (\A i \in DOMAIN p : p[i] \in {S1, Ref}) /\ p[Len(p)] = Ref
\* Lifts below a reference run only.
JogsOnly(p) == \A i \in DOMAIN p : p[i] >= 0 => Len(p) = 1 \/ \E k \in DOMAIN p : k < i /\ p[k] = Ref

SafePlan == /\ PlanSafe(plan, phase, pos)
            /\ phase \in {"idle", "calib"} => Closes(plan) \/ (In /\ ~Has(plan, S2))
SafeStatus == /\ status = "ERROR" => exited
              /\ status = "MOVING_REF" => plan # <<>> /\ Head(plan) = Ref
              /\ plan # <<>> /\ Head(plan) = Ref => In
              /\ status = "NOREF" => ~cut /\ IF plan = <<>> THEN phase = "start" ELSE Homes(plan)
\* While it is not in.
SafeOut == ~In /\ status # "NOREF" =>
             /\ status \in {"READY"} \cup Driving /\ ~cut
             /\ \E h \in Heights : pos \in Zone(h) /\ (zAt # 0 => outAt \in Zone(h)) /\ Place(plan, 1, phase, h)
\* A move is cut short by a jog, and the next reference run makes up for it: the
\* lift rests when it begins.
CutRests == /\ status = "READY" => WillRest /\ (plan # <<>> => AtRest)
            /\ status = "MOVING_REF" /\ ~taken => AtRest
            /\ status \in Driving /\ motor # "off" =>
                 /\ dist > 0 /\ (taken => bMotor = motor /\ bDist = dist /\ ~reset)
                 /\ (seen => taken /\ counter >= bDist) /\ (looking \/ seen)
SafeCut == cut => In /\ ~Has(plan, S2) /\ (phase = "calib" \/ Has(plan, Ref)) /\ JogsOnly(plan) /\ CutRests
Unstopped == ~stopY /\ ~stopZ /\ outAt \in Int /\ zAt \in Int /\ zMotor \in {"off", "in", "out"}
Safe == Unstopped /\ SafePlan /\ SafeStatus /\ SafeOut /\ SafeCut
FreeInv == stops \in Nat /\ (stops = 0 => Safe)

\* Heights lie within the travel.
LEMMA HeightFacts ==
  /\ S1 = -1 /\ S2 = -2 /\ Ref = -3 /\ PosEnd \in Int /\ Delta \in Int
  /\ \A h \in Heights : h \in Int /\ Zone(h) \subseteq 1 .. PosEnd - 1 /\ {h, h - Delta, h + Delta} \subseteq Zone(h)
BY AxisConstants DEF S1, S2, Ref, Heights, Zone

\* What is left of a sequence of moves after the first.
LEMMA TailOf ==
  ASSUME NEW p \in Seq(Int), p # <<>>
  PROVE  /\ Len(p) \in Nat /\ Len(p) > 0 /\ Head(p) = p[1] /\ DOMAIN p = 1 .. Len(p)
         /\ Tail(p) \in Seq(Int) /\ Len(Tail(p)) = Len(p) - 1 /\ DOMAIN Tail(p) = 1 .. Len(p) - 1
         /\ \A i \in DOMAIN Tail(p) : Tail(p)[i] = p[i + 1]
         /\ \A i \in DOMAIN p : p[i] \in Int
OBVIOUS

LEMMA TailPlace ==
  ASSUME NEW p \in Seq(Int), p # <<>>, NEW i \in Nat \ {0}, NEW f, NEW h, Place(p, i + 1, f, h)
  PROVE  Place(Tail(p), i, f, h)
<1>1. Stays(Tail(p), i, h)
  <2> SUFFICES ASSUME NEW j \in DOMAIN Tail(p), j >= i, \A k \in i .. j : Tail(p)[k] # S1
               PROVE  Tail(p)[j] = S2 \/ Tail(p)[j] \in Zone(h)
    BY DEF Stays
  <2>1. j + 1 \in DOMAIN p /\ j + 1 >= i + 1 /\ Tail(p)[j] = p[j + 1]
    BY TailOf
  <2>2. ASSUME NEW k \in i + 1 .. j + 1 PROVE p[k] # S1
    <3>1. k - 1 \in i .. j /\ k - 1 \in DOMAIN Tail(p)
      BY <2>1, TailOf
    <3>2. Tail(p)[k - 1] = p[k]
      BY <3>1, TailOf
    <3> QED BY <3>1, <3>2
  <2> QED BY <2>1, <2>2 DEF Place, Stays
<1>2. ASSUME f = "fetched", \A k \in DOMAIN Tail(p) : k >= i => Tail(p)[k] # S1 PROVE h = Conv
  <2>1. ASSUME NEW k \in DOMAIN p, k >= i + 1 PROVE p[k] # S1
    <3>1. k - 1 \in DOMAIN Tail(p) /\ k - 1 >= i
      BY <2>1, TailOf
    <3>2. Tail(p)[k - 1] = p[k]
      BY <3>1, TailOf
    <3> QED BY <1>2, <3>1, <3>2
  <2> QED BY <1>2, <2>1 DEF Place
<1> QED BY <1>1, <1>2 DEF Place

\* While the cantilever is not taken in, what is left keeps to the height.
LEMMA PlaceKept ==
  ASSUME NEW p \in Seq(Int), p # <<>>, Head(p) # S1, NEW f, NEW h, Place(p, 1, f, h)
  PROVE  Place(Tail(p), 1, f, h)
<1>1. p[1] # S1 /\ 1 \in DOMAIN p
  BY TailOf
<1>2. Stays(p, 2, h)
  <2> SUFFICES ASSUME NEW j \in DOMAIN p, j >= 2, \A k \in 2 .. j : p[k] # S1
               PROVE  p[j] = S2 \/ p[j] \in Zone(h)
    BY DEF Stays
  <2>1. \A k \in 1 .. j : p[k] # S1
    BY <1>1
  <2> QED BY <2>1, TailOf DEF Place, Stays
<1>3. Place(p, 1 + 1, f, h)
  BY <1>1, <1>2, TailOf DEF Place
<1> QED BY <1>3, TailPlace

LEMMA TailSafe ==
  ASSUME NEW p \in Seq(Int), p # <<>>, NEW f, NEW from, NEW to, PlanSafe(p, f, from),
         (Head(p) >= 0 /\ Has(p, S2)) => to = Head(p)
  PROVE  PlanSafe(Tail(p), f, to)
<1>1. OutsSafe(Tail(p), f, to)
  <2> SUFFICES ASSUME NEW i \in DOMAIN Tail(p), Tail(p)[i] = S2
               PROVE  \E h \in Heights : /\ (IF i = 1 THEN to ELSE Tail(p)[i - 1]) \in Zone(h)
                                         /\ Place(Tail(p), i + 1, f, h)
    BY DEF OutsSafe
  <2>1. i \in Nat \ {0} /\ i + 1 \in DOMAIN p /\ p[i + 1] = S2 /\ i \in DOMAIN p
    BY TailOf
  <2>2. PICK h \in Heights : p[i] \in Zone(h) /\ Place(p, (i + 1) + 1, f, h)
    <3>1. (i + 1) # 1 /\ (i + 1) - 1 = i
      BY <2>1
    <3> QED BY <2>1, <3>1 DEF PlanSafe, OutsSafe
  <2>3. Place(Tail(p), i + 1, f, h)
    BY <2>1, <2>2, TailPlace
  <2>4. CASE i = 1
    <3>1. Head(p) >= 0
      BY <2>2, <2>4, TailOf, HeightFacts
    <3> QED BY <2>1, <2>2, <2>3, <2>4, <3>1, TailOf DEF Has
  <2>5. CASE i # 1
    <3>1. i - 1 \in DOMAIN Tail(p)
      BY <2>1, <2>5, TailOf
    <3>2. Tail(p)[i - 1] = p[i]
      BY <2>1, <3>1, TailOf
    <3> QED BY <2>2, <2>3, <2>5, <3>2
  <2> QED BY <2>4, <2>5
<1>2. RefsSafe(Tail(p))
  <2> SUFFICES ASSUME NEW i \in DOMAIN Tail(p), Tail(p)[i] = Ref, i > 1 PROVE Tail(p)[i - 1] = S1
    BY DEF RefsSafe
  <2>1. i + 1 \in DOMAIN p /\ p[i + 1] = Ref /\ i - 1 \in DOMAIN Tail(p) /\ (i + 1) - 1 = i
    BY TailOf
  <2>2. p[i] = S1
    BY <2>1, TailOf DEF PlanSafe, RefsSafe
  <2> QED BY <2>1, <2>2, TailOf
<1>3. HeightsSafe(Tail(p), f)
  <2> SUFFICES ASSUME NEW i \in DOMAIN Tail(p), Tail(p)[i] >= 0 PROVE Tail(p)[i] \in 1 .. PosEnd - 1
    BY DEF HeightsSafe
  <2>1. i + 1 \in DOMAIN p /\ Tail(p)[i] = p[i + 1] /\ Len(p) # 1
    BY TailOf
  <2> QED BY <2>1 DEF PlanSafe, HeightsSafe
<1>4. Has(Tail(p), S2) => Has(p, S2)
  BY TailOf DEF Has
<1> QED BY <1>1, <1>2, <1>3, <1>4 DEF PlanSafe

LEMMA TailHas ==
  ASSUME NEW p \in Seq(Int), p # <<>>, NEW m
  PROVE  (Has(Tail(p), m) => Has(p, m)) /\ (Has(p, m) /\ Head(p) # m => Has(Tail(p), m))
<1>1. Has(Tail(p), m) => Has(p, m)
  BY TailOf DEF Has
<1>2. ASSUME Has(p, m), Head(p) # m PROVE Has(Tail(p), m)
  <2>1. PICK i \in DOMAIN p : p[i] = m
    BY <1>2 DEF Has
  <2>2. i - 1 \in DOMAIN Tail(p)
    BY <1>2, <2>1, TailOf
  <2>3. Tail(p)[i - 1] = m
    BY <2>1, <2>2, TailOf
  <2> QED BY <2>2, <2>3 DEF Has
<1> QED BY <1>1, <1>2

LEMMA TailCloses ==
  ASSUME NEW p \in Seq(Int), p # <<>>, Closes(p)
  PROVE  Closes(Tail(p)) \/ (Head(p) = S1 /\ ~Has(Tail(p), S2))
<1>1. PICK i \in DOMAIN p : p[i] = S1 /\ \A j \in DOMAIN p : j > i => p[j] # S2
  BY DEF Closes
<1>2. CASE i = 1
  <2>1. ASSUME NEW j \in DOMAIN Tail(p) PROVE Tail(p)[j] # S2
    BY <1>1, <1>2, TailOf
  <2> QED BY <1>1, <1>2, <2>1, TailOf DEF Has
<1>3. CASE i # 1
  <2>1. i - 1 \in DOMAIN Tail(p)
    BY <1>3, TailOf
  <2>2. Tail(p)[i - 1] = S1
    BY <1>1, <2>1, TailOf
  <2>3. ASSUME NEW j \in DOMAIN Tail(p), j > i - 1 PROVE Tail(p)[j] # S2
    BY <1>1, <2>3, TailOf
  <2> QED BY <2>1, <2>2, <2>3 DEF Closes
<1> QED BY <1>2, <1>3

LEMMA TailHomes ==
  ASSUME NEW p \in Seq(Int), p # <<>>, Homes(p), Head(p) = S1
  PROVE  Tail(p) # <<>> /\ Homes(Tail(p))
<1>1. p[Len(p)] = Ref /\ p[1] = S1 /\ S1 # Ref
  BY TailOf, HeightFacts DEF Homes
<1>2. Len(p) > 1 /\ Len(Tail(p)) > 0
  BY <1>1, TailOf
<1>3. Tail(p)[Len(Tail(p))] = Ref
  BY <1>1, <1>2, TailOf
<1>4. \A i \in DOMAIN Tail(p) : Tail(p)[i] \in {S1, Ref}
  BY TailOf DEF Homes
<1>5. Tail(p) # <<>>
  <2> DEFINE q == Tail(p)
  <2>1. q \in Seq(Int) /\ Len(q) > 0
    BY <1>2, TailOf
  <2> HIDE DEF q
  <2>2. q # <<>>
    BY <2>1
  <2> QED BY <2>2 DEF q
<1> QED BY <1>2, <1>3, <1>4, <1>5 DEF Homes

LEMMA TailJogs ==
  ASSUME NEW p \in Seq(Int), p # <<>>, JogsOnly(p), Head(p) # Ref
  PROVE  JogsOnly(Tail(p))
<1> SUFFICES ASSUME NEW i \in DOMAIN Tail(p), Tail(p)[i] >= 0
             PROVE  \E k \in DOMAIN Tail(p) : k < i /\ Tail(p)[k] = Ref
  BY DEF JogsOnly
<1>1. i + 1 \in DOMAIN p /\ p[i + 1] >= 0 /\ Len(p) # 1
  BY TailOf
<1>2. PICK k \in DOMAIN p : k < i + 1 /\ p[k] = Ref
  BY <1>1 DEF JogsOnly
<1>3. k - 1 \in DOMAIN Tail(p) /\ k - 1 < i
  BY <1>2, TailOf
<1>4. Tail(p)[k - 1] = Ref
  BY <1>2, <1>3, TailOf
<1> QED BY <1>3, <1>4

\* A plan that begins by taking the cantilever in may begin anywhere.
LEMMA PlaceIn ==
  ASSUME NEW p \in Seq(Int), p # <<>>, Head(p) = S1, NEW f, NEW h
  PROVE  Place(p, 1, f, h)
<1>1. p[1] = S1 /\ 1 \in DOMAIN p
  BY TailOf
<1>2. Stays(p, 1, h)
  <2> SUFFICES ASSUME NEW j \in DOMAIN p, j >= 1, \A k \in 1 .. j : p[k] # S1 PROVE FALSE
    BY DEF Stays
  <2> QED BY <1>1
<1> QED BY <1>1, <1>2 DEF Place

\* Where a plan puts the cantilever out, it may be out.
LEMMA PlaceOut ==
  ASSUME NEW p \in Seq(Int), p # <<>>, Head(p) = S2, NEW f, NEW from, PlanSafe(p, f, from)
  PROVE  \E h \in Heights : from \in Zone(h) /\ Place(p, 1, f, h)
<1>1. p[1] = S2 /\ 1 \in DOMAIN p
  BY TailOf
<1>2. PICK h \in Heights : from \in Zone(h) /\ Place(p, 2, f, h)
  BY <1>1 DEF PlanSafe, OutsSafe
<1>3. Stays(p, 1, h)
  <2> SUFFICES ASSUME NEW j \in DOMAIN p, j >= 1, \A k \in 1 .. j : p[k] # S1
               PROVE  p[j] = S2 \/ p[j] \in Zone(h)
    BY DEF Stays
  <2>1. CASE j = 1
    BY <1>1, <2>1
  <2>2. CASE j # 1
    <3>1. j >= 2 /\ \A k \in 2 .. j : p[k] # S1
      BY <2>2, TailOf
    <3> QED BY <1>2, <3>1 DEF Place, Stays
  <2> QED BY <2>1, <2>2
<1>4. Place(p, 1, f, h)
  <2>1. ASSUME f = "fetched", \A k \in DOMAIN p : k >= 1 => p[k] # S1 PROVE h = Conv
    BY <1>2, <2>1, TailOf DEF Place
  <2> QED BY <1>3, <2>1 DEF Place
<1> QED BY <1>2, <1>4

\* The first move of a plan keeps to the height, and so does the lift.
LEMMA HeadPlace ==
  ASSUME NEW p \in Seq(Int), p # <<>>, Head(p) >= 0, NEW f, NEW h, Place(p, 1, f, h)
  PROVE  Head(p) \in Zone(h)
<1>1. p[1] = Head(p) /\ 1 \in DOMAIN p /\ Head(p) \in Int
  BY TailOf
<1>2. \A k \in 1 .. 1 : p[k] # S1
  BY <1>1, HeightFacts
<1>3. p[1] = S2 \/ p[1] \in Zone(h)
  BY <1>1, <1>2 DEF Place, Stays
<1> QED BY <1>1, <1>3, HeightFacts

LEMMA LiftPlace ==
  ASSUME TrackInv, Safe, ~In, status # "NOREF"
  PROVE  /\ ~cut /\ status \in {"READY"} \cup Driving
         /\ \E h \in Heights : pos \in Zone(h) /\ at \in Zone(h) /\ (zAt # 0 => outAt \in Zone(h)) /\ Place(plan, 1, phase, h)
<1>1. /\ ~cut /\ status \in {"READY"} \cup Driving
      /\ \E h \in Heights : pos \in Zone(h) /\ (zAt # 0 => outAt \in Zone(h)) /\ Place(plan, 1, phase, h)
  BY DEF Safe, SafeOut
<1>2. PICK h \in Heights : pos \in Zone(h) /\ (zAt # 0 => outAt \in Zone(h)) /\ Place(plan, 1, phase, h)
  BY <1>1
<1>3. h \in Int /\ Delta \in Int
  BY HeightFacts
<1>4. at \in Zone(h)
  <2>1. CASE status = "READY"
    BY <1>1, <1>2, <2>1 DEF TrackInv, RestInv, Idle
  <2>2. CASE status \in Driving /\ ~taken
    BY <1>1, <1>2, <2>2 DEF TrackInv, DriveInv
  <2>3. CASE status \in Driving /\ taken
    <3>1. Headed /\ Gone
      BY <1>1, <2>3 DEF TrackInv, DriveInv
    <3>2. plan \in Seq(Int) /\ plan # <<>> /\ Head(plan) >= 0
      BY <2>3 DEF TrackInv, PlanInv, LiftTypes
    <3>3. Head(plan) \in Zone(h)
      BY <1>2, <3>2, HeadPlace
    <3> QED BY <1>2, <1>3, <2>3, <3>1, <3>3 DEF Headed, Gone, Zone, TrackInv, LiftTypes
  <2> QED BY <1>1, <2>1, <2>2, <2>3
<1> QED BY <1>1, <1>2, <1>4

-----------------------------------------------------------------------------
\* A step keeps the cantilever safe when the program only ends.
LEMMA ExitSafe ==
  ASSUME Safe, exited' = TRUE,
         UNCHANGED <<plan, phase, status, looking, pos, stopY, motor, dist, reset, taken, bMotor, bDist,
                     counter, at, seen, cut, zMotor, stopZ, zAt, outAt>>
  PROVE  Safe'
<1>1. SafePlan' /\ SafeOut' /\ Unstopped'
  BY DEF Safe, SafePlan, SafeOut, Unstopped, In, Has
<1>2. SafeStatus'
  BY DEF Safe, SafeStatus, In
<1>3. SafeCut'
  BY DEF Safe, SafeCut, CutRests, In, AtRest, WillRest
<1> QED BY <1>1, <1>2, <1>3 DEF Safe

\* The first move is done: what is left of a safe plan.
LEMMA ReturnSafe ==
  ASSUME plan \in Seq(Int), plan # <<>>, Safe, plan' = Tail(plan), phase' = phase,
         (Head(plan) >= 0 /\ Has(plan, S2)) => pos' = Head(plan),
         In => In', Head(plan) = S1 => In'
  PROVE  /\ SafePlan'
         /\ (plan' # <<>> /\ Head(plan') = Ref) => In'
         /\ (In /\ ~Has(plan, S2)) => ~Has(plan', S2)
<1>1. PlanSafe(plan, phase, pos)
  BY DEF Safe, SafePlan
<1>2. PlanSafe(plan', phase', pos')
  BY <1>1, TailSafe
<1>3. ASSUME phase \in {"idle", "calib"} PROVE Closes(plan') \/ (In' /\ ~Has(plan', S2))
  <2>1. CASE Closes(plan)
    BY <2>1, TailCloses
  <2>2. CASE In /\ ~Has(plan, S2)
    BY <2>2, TailHas
  <2> QED BY <1>3, <2>1, <2>2 DEF Safe, SafePlan
<1>4. SafePlan'
  BY <1>2, <1>3 DEF SafePlan
<1>5. ASSUME plan' # <<>>, Head(plan') = Ref PROVE In'
  <2>1. 2 \in DOMAIN plan /\ plan[2] = Ref /\ plan[1] = Head(plan)
    <3>1. Tail(plan) \in Seq(Int) /\ Tail(plan) # <<>>
      BY <1>5, TailOf
    <3>2. Tail(plan)[1] = Ref /\ 1 \in DOMAIN Tail(plan)
      BY <1>5, <3>1, TailOf
    <3> QED BY <3>2, TailOf
  <2>2. plan[1] = S1
    <3>1. 2 > 1 /\ 2 - 1 = 1
      OBVIOUS
    <3> QED BY <1>1, <2>1, <3>1 DEF PlanSafe, RefsSafe
  <2> QED BY <2>1, <2>2
<1> QED BY <1>4, <1>5, TailHas

LEMMA StartRefSafe == TrackInv /\ Safe /\ StartRef => Safe'
<1> SUFFICES ASSUME TrackInv, Safe, StartRef PROVE Safe'
  OBVIOUS
<1>1. /\ status \in {"READY", "NOREF"} /\ plan # <<>> /\ Head(plan) = Ref
      /\ status' = "MOVING_REF" /\ taken' = FALSE
      /\ UNCHANGED <<phase, plan, pos, stopY, cut, exited, zMotor, stopZ, zAt, outAt, bMotor, bDist, counter, at>>
  BY DEF StartRef, Doing, Command, UpDown, board, axisZ, slide
<1>2. In /\ In'
  BY <1>1 DEF Safe, SafeStatus, In
<1>3. SafePlan' /\ Unstopped'
  BY <1>1 DEF Safe, SafePlan, Unstopped, In
<1>4. SafeStatus' /\ SafeOut'
  BY <1>1, <1>2 DEF SafeStatus, SafeOut
<1>5. ASSUME cut PROVE AtRest'
  BY <1>1, <1>5 DEF Safe, SafeStatus, SafeCut, CutRests, AtRest
<1>6. SafeCut'
  BY <1>1, <1>2, <1>5 DEF Safe, SafeCut, CutRests, Driving
<1> QED BY <1>3, <1>4, <1>6 DEF Safe

LEMMA MoveRefSafe == TrackInv /\ Safe /\ MoveRef => Safe'
<1> SUFFICES ASSUME TrackInv, Safe, MoveRef PROVE Safe'
  OBVIOUS
<1>1. /\ status = "MOVING_REF" /\ plan # <<>> /\ Head(plan) = Ref /\ plan \in Seq(Int)
      /\ UNCHANGED <<phase, looking, dist, taken, seen, bMotor, bDist, counter, at, zMotor, stopZ, zAt, outAt>>
  BY DEF MoveRef, Doing, UpDown, board, axisZ, slide, TrackInv, LiftTypes
<1>2. In /\ In'
  BY <1>1 DEF Safe, SafeStatus, In
<1>3. CASE /\ at = 0 /\ status' = "READY" /\ cut' = (cut /\ ~AtRest) /\ plan' = Tail(plan)
           /\ exited' = exited /\ stopY' = stopY
  <2>1. SafePlan' /\ ((plan' # <<>> /\ Head(plan') = Ref) => In')
    BY <1>1, <1>2, <1>3, ReturnSafe, HeightFacts
  <2>2. SafeStatus' /\ SafeOut'
    BY <1>2, <1>3, <2>1 DEF SafeStatus, SafeOut
  <2>3. ASSUME cut PROVE AtRest
    BY <1>1, <1>3, <2>3 DEF Safe, SafeCut, CutRests, AtRest, TrackInv, HomeInv
  <2>4. SafeCut' /\ Unstopped'
    BY <1>1, <1>3, <2>3 DEF SafeCut, Safe, Unstopped
  <2> QED BY <2>1, <2>2, <2>4 DEF Safe
<1>4. CASE exited' = TRUE /\ UNCHANGED <<plan, pos, motor, reset, status, stopY, cut>>
  BY <1>1, <1>4, ExitSafe
<1> QED BY <1>3, <1>4 DEF MoveRef, Referenced, Return, Timeout, Safe, Unstopped

LEMMA StartMoveSafe == TrackInv /\ Safe /\ StartMove => Safe'
<1> SUFFICES ASSUME TrackInv, Safe, StartMove PROVE Safe'
  OBVIOUS
<1>1. /\ plan # <<>> /\ Head(plan) >= 0 /\ status = "READY" /\ plan \in Seq(Int)
      /\ UNCHANGED <<phase, reset, cut, exited, bMotor, bDist, counter, at, zMotor, stopZ, zAt, outAt>>
  BY DEF StartMove, UpDown, board, axisZ, slide, TrackInv, LiftTypes
<1>2. In' <=> In
  BY <1>1 DEF In
<1>3. Head(plan) \notin {S1, S2, Ref}
  BY <1>1, HeightFacts
<1>4. CASE plan' = Tail(plan) /\ Head(plan) = pos /\ UNCHANGED <<prog, motor, dist, taken, seen>>
  <2>1. UNCHANGED <<status, looking, pos, stopY, motor, dist, taken, seen>>
    BY <1>4 DEF prog
  <2>2. /\ SafePlan' /\ ((plan' # <<>> /\ Head(plan') = Ref) => In')
        /\ (In /\ ~Has(plan, S2)) => ~Has(plan', S2)
    BY <1>1, <1>2, <1>3, <1>4, <2>1, ReturnSafe
  <2>3. SafeStatus'
    BY <1>1, <2>1, <2>2 DEF SafeStatus
  <2>4. SafeOut'
    <3>1. \A h \in Heights : Place(plan, 1, phase, h) => Place(Tail(plan), 1, phase, h)
      BY <1>1, <1>3, PlaceKept
    <3> QED BY <1>1, <1>2, <1>4, <2>1, <3>1 DEF Safe, SafeOut
  <2>5. SafeCut'
    <3>1. Has(plan, Ref) => Has(Tail(plan), Ref)
      BY <1>1, <1>3, TailHas
    <3>2. JogsOnly(plan) => JogsOnly(Tail(plan))
      BY <1>1, <1>3, TailJogs
    <3>3. CutRests => CutRests'
      BY <1>1, <1>4, <2>1 DEF CutRests, AtRest, WillRest, Driving
    <3> QED BY <1>1, <1>2, <1>4, <2>2, <3>1, <3>2, <3>3 DEF Safe, SafeCut
  <2> QED BY <1>1, <2>1, <2>2, <2>3, <2>4, <2>5 DEF Safe, Unstopped
<1>5. CASE /\ Head(plan) # pos /\ dist' = Steps(Head(plan)) /\ taken' = FALSE /\ seen' = FALSE /\ looking' = TRUE
           /\ status' \in Driving /\ UNCHANGED <<plan, pos, stopY>>
  <2>1. SafePlan' /\ Unstopped'
    BY <1>1, <1>2, <1>5 DEF Safe, SafePlan, Unstopped
  <2>2. SafeStatus'
    BY <1>1, <1>2, <1>3, <1>5 DEF SafeStatus, Driving
  <2>3. SafeOut'
    BY <1>1, <1>2, <1>5 DEF Safe, SafeOut
  <2>4. dist' > 0
    BY <1>1, <1>5 DEF Steps, TrackInv, LiftTypes
  <2>5. SafeCut'
    BY <1>1, <1>2, <1>5, <2>4 DEF Safe, SafeCut, CutRests, Driving
  <2> QED BY <2>1, <2>2, <2>3, <2>5 DEF Safe
<1> QED BY <1>4, <1>5 DEF StartMove, Return, Command, Driving

\* Only a jog is cut short, unless somebody stops the lift.
LEMMA CutIsJog ==
  ASSUME TrackInv, Safe, status \in Driving, ~seen, ~cut,
         (status = "MOVING_LEFT" /\ at = 0) \/ (status = "MOVING_RIGHT" /\ Overrun)
  PROVE  phase = "calib" /\ In /\ ~Has(plan, S2) /\ JogsOnly(plan)
<1>1. plan \in Seq(Int) /\ plan # <<>> /\ Head(plan) >= 0 /\ Headed
  BY DEF TrackInv, LiftTypes, PlanInv, DriveInv
<1>2. plan[1] = Head(plan) /\ 1 \in DOMAIN plan /\ DOMAIN plan = 1 .. Len(plan) /\ Len(plan) \in Nat
  BY <1>1, TailOf
<1>3. Head(plan) \notin 1 .. PosEnd - 1
  <2>1. CASE status = "MOVING_LEFT" /\ at = 0
    <3>1. taken => at = pos - counter /\ counter <= dist
      BY <2>1 DEF TrackInv, DriveInv, Gone
    <3>2. ~taken => at = pos
      BY <2>1 DEF TrackInv, DriveInv
    <3>3. Head(plan) = pos - dist
      BY <1>1, <2>1 DEF Headed
    <3> QED BY <2>1, <3>1, <3>2, <3>3 DEF TrackInv, LiftTypes
  <2>2. CASE status = "MOVING_RIGHT" /\ Overrun
    BY <1>1, <2>2, HeightFacts DEF Headed, Overrun, TrackInv, LiftTypes
  <2> QED BY <2>1, <2>2
<1>4. phase = "calib" /\ Len(plan) = 1
  BY <1>1, <1>2, <1>3 DEF Safe, SafePlan, PlanSafe, HeightsSafe
<1>5. ~Closes(plan)
  BY <1>1, <1>2, <1>4, HeightFacts DEF Closes
<1>6. In /\ ~Has(plan, S2)
  BY <1>4, <1>5 DEF Safe, SafePlan
<1>7. JogsOnly(plan)
  BY <1>4 DEF JogsOnly
<1> QED BY <1>4, <1>6, <1>7

LEMMA MoveSafe == TrackInv /\ Safe /\ (MoveLeft \/ MoveRight) => Safe'
<1> SUFFICES ASSUME TrackInv, Safe, MoveLeft \/ MoveRight PROVE Safe'
  OBVIOUS
<1>1. /\ status \in Driving /\ looking
      /\ UNCHANGED <<phase, plan, status, pos, dist, taken, seen, bMotor, bDist, counter, at, zMotor, stopZ, zAt, outAt>>
  BY DEF MoveLeft, MoveRight, Looks, UpDown, board, axisZ, slide, Driving
<1>2. ASSUME stopY' = stopY, exited' = exited PROVE SafePlan' /\ SafeStatus' /\ Unstopped'
  BY <1>1, <1>2 DEF Safe, SafePlan, SafeStatus, Unstopped, In, Driving
<1>3. CASE seen /\ looking' = FALSE /\ UNCHANGED <<motor, reset, stopY, cut, exited>>
  <2>1. SafeOut'
    BY <1>1, <1>3 DEF Safe, SafeOut, In
  <2>2. CutRests => CutRests'
    BY <1>1, <1>3 DEF CutRests, Driving
  <2>3. SafeCut'
    BY <1>1, <1>3, <2>2 DEF Safe, SafeCut, In
  <2> QED BY <1>2, <1>3, <2>1, <2>3 DEF Safe
<1>4. CASE /\ ~seen /\ ((status = "MOVING_LEFT" /\ at = 0) \/ (status = "MOVING_RIGHT" /\ Overrun))
           /\ motor' = "off" /\ cut' = TRUE /\ UNCHANGED <<stopY, exited>>
  <2>1. In /\ ~Has(plan, S2) /\ (phase = "calib" \/ Has(plan, Ref)) /\ JogsOnly(plan)
    <3>1. CASE cut
      BY <3>1 DEF Safe, SafeCut
    <3>2. CASE ~cut
      BY <1>1, <1>4, <3>2, CutIsJog
    <3> QED BY <3>1, <3>2
  <2>2. CutRests'
    BY <1>1, <1>4 DEF CutRests, Driving
  <2>3. SafeOut' /\ SafeCut'
    BY <1>1, <1>4, <2>1, <2>2 DEF SafeOut, SafeCut, In
  <2> QED BY <1>2, <1>4, <2>3 DEF Safe
<1>5. CASE exited' = TRUE /\ UNCHANGED <<looking, motor, reset, stopY, cut>>
  BY <1>1, <1>5, ExitSafe
<1>6. ~stopY
  BY DEF Safe, Unstopped
<1>7. CASE MoveLeft
  BY <1>3, <1>4, <1>5, <1>6, <1>7 DEF MoveLeft, Running, LeavesLoop, CutsShort, Timeout
<1>8. CASE MoveRight
  BY <1>3, <1>4, <1>5, <1>6, <1>8 DEF MoveRight, Running, LeavesLoop, CutsShort, Timeout
<1> QED BY <1>7, <1>8

LEMMA EndsSafe == TrackInv /\ Safe /\ (LeftEnds \/ RightEnds) => Safe'
<1> SUFFICES ASSUME TrackInv, Safe, LeftEnds \/ RightEnds PROVE Safe'
  OBVIOUS
<1>1. /\ status \in Driving /\ ~looking /\ plan # <<>> /\ Head(plan) >= 0 /\ plan \in Seq(Int)
      /\ UNCHANGED <<phase, looking, stopY, motor, dist, reset, taken, seen, cut, bMotor, bDist, counter, at,
                     zMotor, stopZ, zAt, outAt>>
  BY DEF LeftEnds, RightEnds, Ends, UpDown, board, outputs, axisZ, slide, Driving, TrackInv, PlanInv, LiftTypes
<1>2. Head(plan) \notin {S1, S2, Ref} /\ (In' <=> In)
  BY <1>1, HeightFacts DEF In
<1>3. CASE status' = "READY" /\ plan' = Tail(plan) /\ exited' = exited
  <2>1. ~cut => pos' = Head(plan)
    BY <1>3, EndsThere
  <2>2. cut => In /\ ~Has(plan, S2)
    BY DEF Safe, SafeCut
  <2>3. /\ SafePlan' /\ ((plan' # <<>> /\ Head(plan') = Ref) => In')
        /\ (In /\ ~Has(plan, S2)) => ~Has(plan', S2)
    BY <1>1, <1>2, <1>3, <2>1, <2>2, ReturnSafe
  <2>4. SafeStatus'
    BY <1>3, <2>3 DEF SafeStatus
  <2>5. SafeOut'
    <3>1. \A h \in Heights : Place(plan, 1, phase, h) => Head(plan) \in Zone(h) /\ Place(Tail(plan), 1, phase, h)
      BY <1>1, <1>2, PlaceKept, HeadPlace
    <3>2. status # "NOREF"
      BY <1>1 DEF Driving
    <3> QED BY <1>1, <1>2, <1>3, <2>1, <3>1, <3>2 DEF Safe, SafeOut
  <2>6. ASSUME cut PROVE SafeCut'
    <3>1. Has(Tail(plan), Ref) \/ phase = "calib"
      BY <1>1, <1>2, <2>6, TailHas DEF Safe, SafeCut
    <3>2. JogsOnly(Tail(plan))
      BY <1>1, <1>2, <2>6, TailJogs DEF Safe, SafeCut
    <3>3. WillRest'
      BY <1>1, <2>6 DEF Safe, SafeCut, CutRests, WillRest
    <3>4. Len(plan) = 1
      BY <1>1, <2>6, TailOf DEF Safe, SafeCut, JogsOnly
    <3>5. plan' = <<>>
      BY <1>1, <1>3, <3>4
    <3>6. CutRests'
      BY <1>3, <3>3, <3>5 DEF CutRests, Driving
    <3> QED BY <1>1, <1>2, <1>3, <2>2, <2>3, <2>6, <3>1, <3>2, <3>6 DEF SafeCut
  <2>7. SafeCut'
    BY <1>1, <2>6 DEF SafeCut
  <2> QED BY <1>1, <2>3, <2>4, <2>5, <2>7 DEF Safe, Unstopped
<1>4. CASE /\ status = "MOVING_RIGHT" /\ pos + inCounter >= PosEnd
           /\ status' = "ERROR" /\ exited' = TRUE /\ UNCHANGED <<plan, pos>>
  <2>1. In
    <3> SUFFICES ASSUME ~In PROVE FALSE
      OBVIOUS
    <3>1. PICK h \in Heights : Place(plan, 1, phase, h)
      BY <1>1, LiftPlace DEF Driving
    <3>2. Head(plan) \in Zone(h)
      BY <1>1, <3>1, HeadPlace
    <3>3. Head(plan) = pos + inCounter
      BY <1>1, <1>4, LiftPlace DEF TrackInv, DriveInv, Headed, Driving
    <3> QED BY <1>4, <3>2, <3>3, HeightFacts
  <2>2. SafePlan' /\ Unstopped'
    BY <1>1, <1>2, <1>4 DEF Safe, SafePlan, Unstopped
  <2>3. SafeStatus' /\ SafeOut'
    BY <1>2, <1>4, <2>1 DEF SafeStatus, SafeOut
  <2>4. SafeCut'
    BY <1>1, <1>2, <1>4 DEF Safe, SafeCut, CutRests, Driving
  <2> QED BY <2>2, <2>3, <2>4 DEF Safe
<1> QED BY <1>3, <1>4 DEF LeftEnds, RightEnds, Return

LEMMA CantileverSafe == TrackInv /\ Safe /\ Cantilever => Safe'
<1> SUFFICES ASSUME TrackInv, Safe, Cantilever PROVE Safe'
  OBVIOUS
<1>1. /\ ~exited /\ plan # <<>> /\ Head(plan) \in {S1, S2} /\ plan \in Seq(Int)
      /\ UNCHANGED <<phase, status, looking, pos, stopY, motor, dist, reset, taken, bMotor, bDist, counter, at,
                     seen, cut, zAt, outAt>>
  BY DEF Cantilever, Doing, prog, outputs, board, inputs, slide, TrackInv, LiftTypes
<1>2. status \notin Driving /\ status \notin {"MOVING_REF", "ERROR"}
  BY <1>1, HeightFacts DEF TrackInv, PlanInv, Safe, SafeStatus
<1>3. Goal = IF Head(plan) = S1 THEN 0 ELSE 2
  BY <1>1 DEF Goal, Doing
<1>4. plan[1] = Head(plan) /\ 1 \in DOMAIN plan
  BY <1>1, TailOf
<1>5. status = "NOREF" => Head(plan) = S1 /\ Homes(plan)
  BY <1>1, <1>4, HeightFacts DEF Safe, SafeStatus, Homes
<1>6. CASE zAt = Goal /\ zMotor' = "off" /\ plan' = Tail(plan) /\ UNCHANGED <<stopZ, exited>>
  <2>1. (In => In') /\ (Head(plan) = S1 => In')
    BY <1>1, <1>3, <1>6 DEF In
  <2>2. /\ SafePlan' /\ ((plan' # <<>> /\ Head(plan') = Ref) => In')
        /\ (In /\ ~Has(plan, S2)) => ~Has(plan', S2)
    BY <1>1, <1>6, <2>1, ReturnSafe, HeightFacts
  <2>3. SafeStatus'
    <3>1. status = "NOREF" => plan' # <<>> /\ Homes(plan')
      BY <1>1, <1>5, <1>6, TailHomes
    <3> QED BY <1>1, <1>2, <2>2, <3>1 DEF Safe, SafeStatus
  <2>4. SafeOut'
    <3>1. ~In' => Head(plan) = S2 /\ ~In
      BY <1>1, <2>1
    <3>2. Head(plan) = S2 => \A h \in Heights : Place(plan, 1, phase, h) => Place(Tail(plan), 1, phase, h)
      BY <1>1, PlaceKept, HeightFacts
    <3> QED BY <1>1, <1>6, <3>1, <3>2 DEF Safe, SafeOut
  <2>5. SafeCut'
    <3>1. Has(plan, Ref) => Has(Tail(plan), Ref)
      BY <1>1, TailHas, HeightFacts
    <3>2. JogsOnly(plan) => JogsOnly(Tail(plan))
      BY <1>1, TailJogs, HeightFacts
    <3>3. CutRests => CutRests'
      BY <1>1, <1>2 DEF CutRests, AtRest, WillRest
    <3> QED BY <1>1, <1>6, <2>1, <2>2, <3>1, <3>2, <3>3 DEF Safe, SafeCut
  <2> QED BY <1>1, <1>6, <2>2, <2>3, <2>4, <2>5 DEF Safe, Unstopped
<1>7. CASE /\ zAt # Goal /\ zMotor' = (IF Goal = 0 THEN "in" ELSE "out") /\ UNCHANGED <<plan, stopZ, exited>>
  <2>1. Head(plan) = S1 => ~In /\ ~In'
    BY <1>1, <1>3, <1>7 DEF In
  <2>2. Head(plan) = S2 => Has(plan, S2) /\ status = "READY" /\ ~cut
    <3>1. Head(plan) = S2 => Has(plan, S2) /\ ~cut
      BY <1>4 DEF Safe, SafeCut, Has
    <3> QED BY <1>2, <1>5, <3>1, HeightFacts DEF TrackInv, LiftTypes, Moving, Driving
  <2>3. SafePlan'
    BY <1>1, <1>7, <2>1, <2>2 DEF Safe, SafePlan
  <2>4. SafeStatus'
    BY <1>1, <1>2, <1>7, HeightFacts DEF Safe, SafeStatus
  <2>5. SafeOut'
    <3>1. CASE ~In
      BY <1>1, <1>7, <3>1 DEF Safe, SafeOut
    <3>2. CASE In
      <4>1. Head(plan) = S2 /\ zAt = 0
        BY <1>1, <2>1, <3>2 DEF In
      <4>2. PlanSafe(plan, phase, pos)
        BY DEF Safe, SafePlan
      <4>3. \E h \in Heights : pos \in Zone(h) /\ Place(plan, 1, phase, h)
        BY <1>1, <4>1, <4>2, PlaceOut
      <4> QED BY <1>1, <1>7, <2>2, <4>1, <4>3 DEF SafeOut
    <3> QED BY <3>1, <3>2
  <2>6. SafeCut'
    BY <1>1, <2>1, <2>2 DEF Safe, SafeCut
  <2>7. Unstopped'
    BY <1>1, <1>3, <1>7 DEF Safe, Unstopped
  <2> QED BY <2>3, <2>4, <2>5, <2>6, <2>7 DEF Safe
<1>8. CASE exited' = TRUE /\ UNCHANGED <<plan, axisZ>>
  BY <1>1, <1>8, ExitSafe DEF axisZ
<1> QED BY <1>6, <1>7, <1>8 DEF Cantilever, Return, Timeout, Safe, Unstopped

\* The transfer and the board: a lift that a jog has cut short comes to rest.
LEMMA BoardSafe ==
  ASSUME Safe, CutRests => CutRests',
         UNCHANGED <<plan, phase, status, pos, stopY, cut, zMotor, stopZ, zAt, outAt, exited>>
  PROVE  Safe'
<1>1. SafePlan' /\ SafeStatus' /\ SafeOut' /\ Unstopped'
  BY DEF Safe, SafePlan, SafeStatus, SafeOut, Unstopped, In
<1>2. SafeCut'
  BY DEF Safe, SafeCut, In
<1> QED BY <1>1, <1>2 DEF Safe

LEMMA TransferSafe == TrackInv /\ Safe /\ (Send \/ Receive \/ Pulse) => Safe'
<1> SUFFICES ASSUME TrackInv, Safe, Send \/ Receive \/ Pulse PROVE Safe'
  OBVIOUS
<1>1. UNCHANGED <<plan, phase, status, looking, pos, stopY, motor, dist, cut, zMotor, stopZ, zAt, exited>>
  BY DEF Send, Receive, Pulse, Program, rack, prog, axisZ, slide
<1>2. outAt' = outAt
  BY DEF Send, Receive, Pulse, slide
<1>3. ASSUME CutRests PROVE CutRests'
  <2>1. CASE Send
    <3>1. /\ ~(taken /\ bMotor = motor /\ ~reset) /\ bMotor' = motor /\ bDist' = dist
          /\ taken' = TRUE /\ reset' = FALSE /\ seen' = seen
      BY <2>1 DEF Send, Settled, inputs
    <3>2. status = "READY" => motor = "off"
      BY <1>3, <3>1 DEF CutRests, WillRest
    <3>3. status \in Driving /\ motor # "off" => ~seen /\ looking /\ dist > 0
      BY <1>3, <3>1 DEF CutRests
    <3> QED BY <1>1, <3>1, <3>2, <3>3 DEF CutRests, WillRest, AtRest
  <2>2. CASE Receive
    <3>1. /\ seen' = (seen \/ (taken /\ (bDist = 0 \/ counter >= bDist)))
          /\ UNCHANGED <<reset, taken, bMotor, bDist, counter, at>>
      BY <2>2 DEF Receive, Finished, board
    <3>2. bDist \in Nat /\ dist \in Nat
      BY DEF TrackInv, LiftTypes
    <3>3. ASSUME status \in Driving, motor # "off", seen' PROVE taken /\ counter >= bDist
      <4>1. dist > 0 /\ (taken => bDist = dist) /\ (seen => taken /\ counter >= bDist)
        BY <1>3, <3>3 DEF CutRests
      <4>2. seen \/ (taken /\ (bDist = 0 \/ counter >= bDist))
        BY <3>1, <3>3
      <4> QED BY <3>2, <4>1, <4>2
    <3>4. (WillRest' <=> WillRest) /\ (AtRest' <=> AtRest)
      BY <1>1, <3>1 DEF WillRest, AtRest
    <3> QED BY <1>1, <1>3, <3>1, <3>3, <3>4 DEF CutRests
  <2>3. CASE Pulse
    <3>1. ~AtRest
      BY <2>3, RestStays DEF TrackInv
    <3>2. counter' = counter + 1 /\ UNCHANGED <<reset, taken, bMotor, bDist, seen>>
      BY <2>3 DEF Pulse, inputs
    <3>3. counter \in Nat /\ bDist \in Nat
      BY DEF TrackInv, LiftTypes
    <3>4. status = "READY" => motor = "off" /\ plan = <<>>
      BY <1>3, <3>1 DEF CutRests, WillRest, AtRest
    <3> QED BY <1>1, <1>3, <3>1, <3>2, <3>3, <3>4 DEF CutRests, WillRest
  <2> QED BY <2>1, <2>2, <2>3
<1> QED BY <1>1, <1>2, <1>3, BoardSafe

LEMMA SlideSafe == TrackInv /\ Safe /\ Slide => Safe'
<1> SUFFICES ASSUME TrackInv, Safe, Slide PROVE Safe'
  OBVIOUS
<1>1. /\ zMotor # "off" /\ zAt' = (IF zMotor = "in" THEN zAt - 1 ELSE zAt + 1) /\ zAt' \in 0 .. 2
      /\ outAt' = (IF zAt = 0 THEN at ELSE IF zAt' = 0 THEN 0 ELSE outAt)
      /\ UNCHANGED <<plan, phase, status, pos, stopY, cut, zMotor, stopZ, exited>>
  BY DEF Slide, Program, rack, prog, axisZ
<1>2. zAt \in Int /\ outAt \in Int /\ at \in Int /\ zMotor \in {"off", "in", "out"}
  BY DEF Safe, Unstopped, TrackInv, LiftTypes
<1>3. ~In
  BY <1>1, <1>2 DEF In
<1>4. SafePlan'
  BY <1>1, <1>3 DEF Safe, SafePlan
<1>5. SafeStatus' /\ SafeCut'
  BY <1>1, <1>3 DEF Safe, SafeStatus, SafeCut
<1>6. SafeOut'
  <2> SUFFICES ASSUME status # "NOREF" PROVE SafeOut'
    BY <1>1 DEF SafeOut
  <2>1. PICK h \in Heights : pos \in Zone(h) /\ at \in Zone(h) /\ (zAt # 0 => outAt \in Zone(h)) /\ Place(plan, 1, phase, h)
    BY <1>3, LiftPlace
  <2>2. zAt' # 0 => outAt' \in Zone(h)
    BY <1>1, <2>1
  <2> QED BY <1>1, <1>3, <2>1, <2>2, LiftPlace DEF SafeOut
<1> QED BY <1>1, <1>2, <1>4, <1>5, <1>6 DEF Safe, Unstopped

-----------------------------------------------------------------------------
\* The plans are the moves of the composed moves, one after the other.
FetchMoves(r) == <<S1, r, S2, r - Delta, S1, S1, Conv, S2, Conv + Delta>>
StoreMoves(r) == <<Conv, S2, Conv - Delta, S1, r, r - Delta, S2, r + Delta, S1, S1, Ref, S1, Ref>>
LEMMA Joined ==
  ASSUME NEW s \in Seq(Int), NEW t \in Seq(Int), NEW u \in Seq(Int), Len(u) = Len(s) + Len(t),
         \A i \in 1 .. Len(s) : u[i] = s[i], \A i \in 1 .. Len(t) : u[Len(s) + i] = t[i]
  PROVE  s \o t = u
<1>1. s \o t \in Seq(Int) /\ Len(s \o t) = Len(s) + Len(t) /\ Len(s) \in Nat /\ Len(t) \in Nat
  OBVIOUS
<1>2. ASSUME NEW i \in 1 .. Len(s) + Len(t) PROVE (s \o t)[i] = u[i]
  <2>1. CASE i <= Len(s)
    BY <1>1, <2>1, ConcatProperties
  <2>2. CASE i > Len(s)
    <3>1. i - Len(s) \in 1 .. Len(t) /\ Len(s) + (i - Len(s)) = i
      BY <1>1, <2>2
    <3>2. (s \o t)[i] = t[i - Len(s)]
      BY <1>1, <2>2, ConcatProperties
    <3> QED BY <3>1, <3>2
  <2> QED BY <1>1, <2>1, <2>2
<1> QED BY <1>1, <1>2, SeqEqual
LEMMA MovesAre ==
  /\ S1 \in Int /\ S2 \in Int /\ Ref \in Int
  /\ \A h \in Heights : h \in Int /\ h - Delta \in Int /\ h + Delta \in Int
  /\ Conv \in Heights /\ Rows \subseteq Heights
BY HeightFacts DEF Heights

LEMMA HomeTwice == MoveHome \o MoveHome = <<S1, Ref, S1, Ref>>
<1> DEFINE s == MoveHome
<1> DEFINE t == MoveHome
<1> DEFINE u == <<S1, Ref, S1, Ref>>
<1>1. s \in Seq(Int) /\ t \in Seq(Int) /\ u \in Seq(Int) /\ Len(s) = 2 /\ Len(t) = 2 /\ Len(u) = 2 + 2
  BY MovesAre DEF MoveHome
<1>2. ASSUME NEW i \in 1 .. 2 PROVE u[i] = s[i]
  <2>1. i \in {1, 2}
    OBVIOUS
  <2> QED BY <2>1 DEF MoveHome
<1>3. ASSUME NEW i \in 1 .. 2 PROVE u[2 + i] = t[i]
  <2>1. i \in {1, 2}
    OBVIOUS
  <2> QED BY <2>1 DEF MoveHome
<1>4. s \o t = u
  <2> HIDE DEF s, t, u
  <2>1. Len(u) = Len(s) + Len(t) /\ (\A i \in 1 .. Len(s) : u[i] = s[i])
    BY <1>1, <1>2
  <2>2. \A i \in 1 .. Len(t) : u[Len(s) + i] = t[i]
    BY <1>1, <1>3
  <2> QED BY <1>1, <2>1, <2>2, Joined
<1> QED BY <1>4

LEMMA FetchIs ==
  ASSUME NEW r \in Rows
  PROVE  GetCR(r) \o PutConv = FetchMoves(r)
<1> DEFINE s == GetCR(r)
<1> DEFINE t == PutConv
<1> DEFINE u == FetchMoves(r)
<1>1. s \in Seq(Int) /\ t \in Seq(Int) /\ u \in Seq(Int) /\ Len(s) = 5 /\ Len(t) = 4 /\ Len(u) = 5 + 4
  BY MovesAre DEF GetCR, PutConv, FetchMoves
<1>2. ASSUME NEW i \in 1 .. 5 PROVE u[i] = s[i]
  <2>1. i \in {1, 2, 3, 4, 5}
    OBVIOUS
  <2> QED BY <2>1 DEF GetCR, PutConv, FetchMoves
<1>3. ASSUME NEW i \in 1 .. 4 PROVE u[5 + i] = t[i]
  <2>1. i \in {1, 2, 3, 4}
    OBVIOUS
  <2> QED BY <2>1 DEF GetCR, PutConv, FetchMoves
<1>4. s \o t = u
  <2> HIDE DEF s, t, u
  <2>1. Len(u) = Len(s) + Len(t) /\ (\A i \in 1 .. Len(s) : u[i] = s[i])
    BY <1>1, <1>2
  <2>2. \A i \in 1 .. Len(t) : u[Len(s) + i] = t[i]
    BY <1>1, <1>3
  <2> QED BY <1>1, <2>1, <2>2, Joined
<1> QED BY <1>4

LEMMA CalibIs ==
  ASSUME NEW h \in Heights
  PROVE  MoveHome \o <<S1, h>> = <<S1, Ref, S1, h>>
<1> DEFINE s == MoveHome
<1> DEFINE t == <<S1, h>>
<1> DEFINE u == <<S1, Ref, S1, h>>
<1>1. s \in Seq(Int) /\ t \in Seq(Int) /\ u \in Seq(Int) /\ Len(s) = 2 /\ Len(t) = 2 /\ Len(u) = 2 + 2
  BY MovesAre DEF MoveHome
<1>2. ASSUME NEW i \in 1 .. 2 PROVE u[i] = s[i]
  <2>1. i \in {1, 2}
    OBVIOUS
  <2> QED BY <2>1 DEF MoveHome
<1>3. ASSUME NEW i \in 1 .. 2 PROVE u[2 + i] = t[i]
  <2>1. i \in {1, 2}
    OBVIOUS
  <2> QED BY <2>1 DEF MoveHome
<1>4. s \o t = u
  <2> HIDE DEF s, t, u
  <2>1. Len(u) = Len(s) + Len(t) /\ (\A i \in 1 .. Len(s) : u[i] = s[i])
    BY <1>1, <1>2
  <2>2. \A i \in 1 .. Len(t) : u[Len(s) + i] = t[i]
    BY <1>1, <1>3
  <2> QED BY <1>1, <2>1, <2>2, Joined
<1> QED BY <1>4

LEMMA StoreIs ==
  ASSUME NEW r \in Rows
  PROVE  GetConv \o PutCR(r) \o MoveHome \o MoveHome = StoreMoves(r)
<1> DEFINE a == <<Conv, S2, Conv - Delta, S1, r, r - Delta, S2, r + Delta, S1>>
<1> DEFINE b == <<Conv, S2, Conv - Delta, S1, r, r - Delta, S2, r + Delta, S1, S1, Ref>>
<1>1. GetConv \o PutCR(r) = a
  <2> DEFINE s == GetConv
  <2> DEFINE t == PutCR(r)
  <2> DEFINE u == a
  <2>1. s \in Seq(Int) /\ t \in Seq(Int) /\ u \in Seq(Int) /\ Len(s) = 3 /\ Len(t) = 6 /\ Len(u) = 3 + 6
    BY MovesAre DEF GetConv, PutCR
  <2>2. ASSUME NEW i \in 1 .. 3 PROVE u[i] = s[i]
    <3>1. i \in {1, 2, 3}
      OBVIOUS
    <3> QED BY <3>1 DEF GetConv, PutCR
  <2>3. ASSUME NEW i \in 1 .. 6 PROVE u[3 + i] = t[i]
    <3>1. i \in {1, 2, 3, 4, 5, 6}
      OBVIOUS
    <3> QED BY <3>1 DEF GetConv, PutCR
  <2>4. s \o t = u
    <3> HIDE DEF s, t, u
    <3>1. Len(u) = Len(s) + Len(t) /\ (\A i \in 1 .. Len(s) : u[i] = s[i])
      BY <2>1, <2>2
    <3>2. \A i \in 1 .. Len(t) : u[Len(s) + i] = t[i]
      BY <2>1, <2>3
    <3> QED BY <2>1, <3>1, <3>2, Joined
  <2> QED BY <2>4
<1>2. a \o MoveHome = b
  <2> DEFINE s == a
  <2> DEFINE t == MoveHome
  <2> DEFINE u == b
  <2>1. s \in Seq(Int) /\ t \in Seq(Int) /\ u \in Seq(Int) /\ Len(s) = 9 /\ Len(t) = 2 /\ Len(u) = 9 + 2
    BY MovesAre DEF MoveHome
  <2>2. ASSUME NEW i \in 1 .. 9 PROVE u[i] = s[i]
    <3>1. i \in {1, 2, 3, 4, 5, 6, 7, 8, 9}
      OBVIOUS
    <3> QED BY <3>1 DEF MoveHome
  <2>3. ASSUME NEW i \in 1 .. 2 PROVE u[9 + i] = t[i]
    <3>1. i \in {1, 2}
      OBVIOUS
    <3> QED BY <3>1 DEF MoveHome
  <2>4. s \o t = u
    <3> HIDE DEF s, t, u
    <3>1. Len(u) = Len(s) + Len(t) /\ (\A i \in 1 .. Len(s) : u[i] = s[i])
      BY <2>1, <2>2
    <3>2. \A i \in 1 .. Len(t) : u[Len(s) + i] = t[i]
      BY <2>1, <2>3
    <3> QED BY <2>1, <3>1, <3>2, Joined
  <2> QED BY <2>4
<1>3. b \o MoveHome = StoreMoves(r)
  <2> DEFINE s == b
  <2> DEFINE t == MoveHome
  <2> DEFINE u == StoreMoves(r)
  <2>1. s \in Seq(Int) /\ t \in Seq(Int) /\ u \in Seq(Int) /\ Len(s) = 11 /\ Len(t) = 2 /\ Len(u) = 11 + 2
    BY MovesAre DEF MoveHome, StoreMoves
  <2>2. ASSUME NEW i \in 1 .. 11 PROVE u[i] = s[i]
    <3>1. i \in {1, 2, 3, 4, 5, 6, 7, 8, 9, 10, 11}
      OBVIOUS
    <3> QED BY <3>1 DEF MoveHome, StoreMoves
  <2>3. ASSUME NEW i \in 1 .. 2 PROVE u[11 + i] = t[i]
    <3>1. i \in {1, 2}
      OBVIOUS
    <3> QED BY <3>1 DEF MoveHome, StoreMoves
  <2>4. s \o t = u
    <3> HIDE DEF s, t, u
    <3>1. Len(u) = Len(s) + Len(t) /\ (\A i \in 1 .. Len(s) : u[i] = s[i])
      BY <2>1, <2>2
    <3>2. \A i \in 1 .. Len(t) : u[Len(s) + i] = t[i]
      BY <2>1, <2>3
    <3> QED BY <2>1, <3>1, <3>2, Joined
  <2> QED BY <2>4
<1> HIDE DEF a, b
<1> QED BY <1>1, <1>2, <1>3

LEMMA FetchSafe ==
  ASSUME NEW r \in Rows, NEW from
  PROVE  PlanSafe(FetchMoves(r), "fetched", from) /\ Head(FetchMoves(r)) = S1
<1> DEFINE p == FetchMoves(r)
<1>1. /\ Len(p) = 9 /\ DOMAIN p = 1 .. 9 /\ p[1] = S1 /\ p[2] = r /\ p[3] = S2 /\ p[4] = r - Delta /\ p[5] = S1
      /\ p[6] = S1 /\ p[7] = Conv /\ p[8] = S2 /\ p[9] = Conv + Delta
  BY DEF FetchMoves
<1> HIDE DEF p
<1>2. /\ r \in Heights /\ Conv \in Heights /\ r \in Int /\ Conv \in Int
      /\ {r, r - Delta} \subseteq Zone(r) /\ {Conv, Conv + Delta} \subseteq Zone(Conv)
      /\ {r, r - Delta, Conv, Conv + Delta} \subseteq 1 .. PosEnd - 1
  BY HeightFacts DEF Heights
<1>3. Place(p, 4, "fetched", r)
  <2>1. Stays(p, 4, r)
    <3> SUFFICES ASSUME NEW j \in 1 .. 9, j >= 4, \A k \in 4 .. j : p[k] # S1 PROVE p[j] \in Zone(r)
      BY <1>1 DEF Stays
    <3>1. j = 4
      BY <1>1
    <3> QED BY <1>1, <1>2, <3>1
  <2> QED BY <1>1, <2>1 DEF Place
<1>4. Place(p, 9, "fetched", Conv)
  <2>1. Stays(p, 9, Conv)
    BY <1>1, <1>2 DEF Stays
  <2> QED BY <2>1 DEF Place
<1>5. OutsSafe(p, "fetched", from)
  <2> SUFFICES ASSUME NEW i \in 1 .. 9, p[i] = S2
               PROVE  \E h \in Heights : (IF i = 1 THEN from ELSE p[i - 1]) \in Zone(h) /\ Place(p, i + 1, "fetched", h)
    BY <1>1 DEF OutsSafe
  <2>1. i \in {3, 8}
    BY <1>1, <1>2, HeightFacts
  <2>2. CASE i = 3
    <3>1. p[i - 1] = r /\ i + 1 = 4 /\ i # 1
      BY <1>1, <2>2
    <3> QED BY <1>2, <1>3, <3>1
  <2>3. CASE i = 8
    <3>1. p[i - 1] = Conv /\ i + 1 = 9 /\ i # 1
      BY <1>1, <2>3
    <3> QED BY <1>2, <1>4, <3>1
  <2> QED BY <2>1, <2>2, <2>3
<1>6. RefsSafe(p)
  <2>1. \A i \in 1 .. 9 : p[i] # Ref
    BY <1>1, <1>2, HeightFacts
  <2> QED BY <1>1, <2>1 DEF RefsSafe
<1>7. HeightsSafe(p, "fetched")
  <2>1. \A i \in 1 .. 9 : p[i] >= 0 => p[i] \in 1 .. PosEnd - 1
    BY <1>1, <1>2, HeightFacts
  <2> QED BY <1>1, <2>1 DEF HeightsSafe
<1>8. Head(p) = S1
  BY DEF p, FetchMoves
<1> QED BY <1>5, <1>6, <1>7, <1>8 DEF PlanSafe, p

LEMMA StoreSafe ==
  ASSUME NEW r \in Rows, NEW from
  PROVE  /\ PlanSafe(StoreMoves(r), "idle", from) /\ Closes(StoreMoves(r))
         /\ Place(StoreMoves(r), 1, "idle", Conv) /\ Head(StoreMoves(r)) = Conv
<1> DEFINE p == StoreMoves(r)
<1>1. /\ Len(p) = 13 /\ DOMAIN p = 1 .. 13 /\ p[1] = Conv /\ p[2] = S2 /\ p[3] = Conv - Delta /\ p[4] = S1
      /\ p[5] = r /\ p[6] = r - Delta /\ p[7] = S2 /\ p[8] = r + Delta /\ p[9] = S1
      /\ p[10] = S1 /\ p[11] = Ref /\ p[12] = S1 /\ p[13] = Ref
  BY DEF StoreMoves
<1> HIDE DEF p
<1>2. /\ r \in Heights /\ Conv \in Heights /\ r \in Int /\ Conv \in Int
      /\ {r, r - Delta, r + Delta} \subseteq Zone(r) /\ {Conv, Conv - Delta} \subseteq Zone(Conv)
      /\ {r, r - Delta, r + Delta, Conv, Conv - Delta} \subseteq 1 .. PosEnd - 1
  BY HeightFacts DEF Heights
<1>3. \A i \in 1 .. 4 : Stays(p, i, Conv)
  <2> SUFFICES ASSUME NEW i \in 1 .. 4, NEW j \in 1 .. 13, j >= i, \A k \in i .. j : p[k] # S1
               PROVE  p[j] = S2 \/ p[j] \in Zone(Conv)
    BY <1>1 DEF Stays
  <2>1. j \in {1, 2, 3}
    BY <1>1
  <2> QED BY <1>1, <1>2, <2>1
<1>4. Stays(p, 8, r)
  <2> SUFFICES ASSUME NEW j \in 1 .. 13, j >= 8, \A k \in 8 .. j : p[k] # S1 PROVE p[j] \in Zone(r)
    BY <1>1 DEF Stays
  <2>1. j = 8
    BY <1>1
  <2> QED BY <1>1, <1>2, <2>1
<1>5. OutsSafe(p, "idle", from)
  <2> SUFFICES ASSUME NEW i \in 1 .. 13, p[i] = S2
               PROVE  \E h \in Heights : (IF i = 1 THEN from ELSE p[i - 1]) \in Zone(h) /\ Place(p, i + 1, "idle", h)
    BY <1>1 DEF OutsSafe
  <2>1. i \in {2, 7}
    BY <1>1, <1>2, HeightFacts
  <2>2. CASE i = 2
    <3>1. p[i - 1] = Conv /\ i + 1 = 3 /\ i # 1
      BY <1>1, <2>2
    <3> QED BY <1>2, <1>3, <3>1 DEF Place
  <2>3. CASE i = 7
    <3>1. p[i - 1] = r - Delta /\ i + 1 = 8 /\ i # 1
      BY <1>1, <2>3
    <3> QED BY <1>2, <1>4, <3>1 DEF Place
  <2> QED BY <2>1, <2>2, <2>3
<1>6. RefsSafe(p)
  <2>1. \A i \in 1 .. 13 : p[i] = Ref => i \in {11, 13}
    BY <1>1, <1>2, HeightFacts
  <2> QED BY <1>1, <2>1 DEF RefsSafe
<1>7. HeightsSafe(p, "idle")
  <2>1. \A i \in 1 .. 13 : p[i] >= 0 => p[i] \in 1 .. PosEnd - 1
    BY <1>1, <1>2, HeightFacts
  <2> QED BY <1>1, <2>1 DEF HeightsSafe
<1>8. Closes(p)
  <2>1. p[12] = S1 /\ \A j \in 1 .. 13 : j > 12 => p[j] # S2
    BY <1>1, HeightFacts
  <2> QED BY <1>1, <2>1 DEF Closes
<1>9. Head(p) = Conv
  BY DEF p, StoreMoves
<1> QED BY <1>3, <1>5, <1>6, <1>7, <1>8, <1>9 DEF PlanSafe, Place, p

\* The plans that only take the cantilever in.
LEMMA HomeSafe ==
  ASSUME NEW f, NEW from, NEW h \in Heights,
         NEW p \in {<<S1, Ref>>, <<S1, Ref, S1, Ref>>, <<S1, Ref, S1, h>>}
  PROVE  /\ PlanSafe(p, f, from) /\ Closes(p) /\ p # <<>> /\ Head(p) = S1
         /\ Has(p, Ref) /\ JogsOnly(p) /\ ~Has(p, S2) /\ p \in Seq(Int)
         /\ p # <<S1, Ref, S1, h>> => Homes(p)
<1>1. h \in Int /\ h \in 1 .. PosEnd - 1
  BY HeightFacts
<1>2. /\ Len(p) \in {2, 4} /\ DOMAIN p = 1 .. Len(p) /\ p[1] = S1 /\ p[2] = Ref /\ p # <<>> /\ Head(p) = S1
      /\ Len(p) = 4 => p[3] = S1 /\ p[4] \in {Ref, h}
      /\ p # <<S1, Ref, S1, h>> => p[Len(p)] = Ref
  OBVIOUS
<1>3. p \in Seq(Int)
  <2>1. <<S1, Ref>> \in Seq(Int) /\ <<S1, Ref, S1, Ref>> \in Seq(Int) /\ <<S1, Ref, S1, h>> \in Seq(Int)
    BY <1>1, MovesAre
  <2> QED BY <2>1
<1>4. ASSUME NEW i \in DOMAIN p
      PROVE  (i = 1 /\ p[i] = S1) \/ (i = 2 /\ p[i] = Ref) \/ (i = 3 /\ p[i] = S1) \/ (i = 4 /\ p[i] \in {Ref, h})
  <2>1. i \in {1, 2} \/ (Len(p) = 4 /\ i \in {3, 4})
    BY <1>2
  <2> QED BY ONLY <1>2, <2>1
<1>5. \A i \in DOMAIN p : p[i] # S2 /\ (p[i] = Ref => i \in {2, 4}) /\ (p[i] >= 0 => i = 4 /\ p[i] = h)
  BY <1>1, <1>4, HeightFacts
<1>6. OutsSafe(p, f, from) /\ ~Has(p, S2)
  BY <1>5 DEF OutsSafe, Has
<1>7. RefsSafe(p)
  <2> SUFFICES ASSUME NEW i \in DOMAIN p, p[i] = Ref PROVE p[i - 1] = S1
    BY DEF RefsSafe
  <2>1. CASE i = 2
    <3>1. i - 1 = 1
      BY <2>1
    <3> QED BY <1>2, <3>1
  <2>2. CASE i = 4
    <3>1. i - 1 = 3 /\ Len(p) = 4
      BY <1>2, <2>2
    <3> QED BY <1>2, <3>1
  <2> QED BY <1>5, <2>1, <2>2
<1>8. HeightsSafe(p, f)
  BY <1>1, <1>5 DEF HeightsSafe
<1>9. Closes(p)
  BY <1>2, <1>5 DEF Closes
<1>10. Has(p, Ref)
  BY <1>2 DEF Has
<1>11. JogsOnly(p)
  <2>1. 2 \in DOMAIN p /\ 2 < 4
    BY <1>2
  <2> QED BY <1>2, <1>5, <2>1 DEF JogsOnly
<1>12. p # <<S1, Ref, S1, h>> => Homes(p)
  <2>1. ASSUME p # <<S1, Ref, S1, h>>, NEW i \in DOMAIN p PROVE p[i] \in {S1, Ref}
    BY <1>2, <1>4, <2>1
  <2> QED BY <1>2, <2>1 DEF Homes
<1> QED BY <1>2, <1>3, <1>6, <1>7, <1>8, <1>9, <1>10, <1>11, <1>12 DEF PlanSafe

LEMMA JogSafe ==
  ASSUME NEW p \in Nat, NEW from
  PROVE  /\ PlanSafe(<<p>>, "calib", from) /\ ~Has(<<p>>, S2) /\ JogsOnly(<<p>>)
         /\ <<p>> # <<>> /\ Head(<<p>>) # Ref
<1> DEFINE q == <<p>>
<1>1. Len(q) = 1 /\ DOMAIN q = 1 .. 1 /\ q[1] = p /\ q # <<>> /\ Head(q) = p
  OBVIOUS
<1> HIDE DEF q
<1>2. p \notin {S1, S2, Ref}
  BY HeightFacts
<1>3. OutsSafe(q, "calib", from) /\ RefsSafe(q) /\ HeightsSafe(q, "calib") /\ ~Has(q, S2) /\ JogsOnly(q)
  BY <1>1, <1>2 DEF OutsSafe, RefsSafe, HeightsSafe, Has, JogsOnly
<1> QED BY <1>1, <1>2, <1>3 DEF PlanSafe, q

LEMMA GoSafe == TrackInv /\ Safe /\ Go => Safe'
<1> SUFFICES ASSUME TrackInv, Safe, Go PROVE Safe'
  OBVIOUS
<1>1. /\ plan = <<>> /\ ~exited /\ taken /\ bMotor = motor /\ ~reset
      /\ UNCHANGED <<status, looking, pos, stopY, motor, dist, reset, taken, bMotor, bDist, counter, at,
                     seen, cut, zMotor, stopZ, zAt, outAt, exited>>
  BY DEF Go, Settled, prog, outputs, board, inputs, axisZ, slide
<1>2. status \in {"READY", "NOREF"} /\ (status = "NOREF" => phase = "start" /\ ~cut)
  BY <1>1 DEF Safe, SafeStatus, TrackInv, PlanInv, LiftTypes, Moving, Driving
<1>3. (cut => phase = "calib") /\ (phase = "calib" => In) /\ (phase = "idle" => In)
  <2>1. ~Closes(plan) /\ ~Has(plan, Ref)
    BY <1>1 DEF Closes, Has
  <2> QED BY <2>1 DEF Safe, SafeCut, SafePlan
<1>4. (In' <=> In) /\ Unstopped'
  BY <1>1 DEF In, Safe, Unstopped
<1>5. cut => CutRests'
  <2>1. cut => status = "READY" /\ WillRest
    BY <1>2, <1>3 DEF Safe, SafeCut, CutRests
  <2> QED BY <1>1, <2>1 DEF CutRests, WillRest, AtRest, Driving
\* A plan that begins with the cantilever taken in.
<1>6. ASSUME plan' \in Seq(Int), plan' # <<>>, Head(plan') = S1, PlanSafe(plan', phase', pos), phase' # "start",
             phase' \in {"idle", "calib"} => Closes(plan'), phase' = "calib" => In,
             status = "NOREF" => Homes(plan'), cut => JogsOnly(plan') /\ ~Has(plan', S2) /\ Has(plan', Ref)
      PROVE  Safe'
  <2>1. SafePlan'
    BY <1>1, <1>6 DEF SafePlan
  <2>2. SafeStatus'
    BY <1>1, <1>2, <1>6, HeightFacts DEF SafeStatus
  <2>3. SafeOut'
    <3>1. \A h \in Heights : Place(plan', 1, phase', h)
      BY <1>6, PlaceIn
    <3> QED BY <1>1, <1>4, <3>1 DEF Safe, SafeOut
  <2>4. SafeCut'
    BY <1>1, <1>3, <1>4, <1>5, <1>6 DEF SafeCut
  <2> QED BY <1>4, <2>1, <2>2, <2>3, <2>4 DEF Safe
<1>7. CASE \/ phase = "start" /\ plan' = MoveHome \o MoveHome /\ phase' = "idle"
           \/ phase = "fetched" /\ plan' = MoveHome /\ phase' = "idle"
           \/ phase \in {"idle", "calib"} /\ plan' = MoveHome /\ phase' = IF phase = "idle" THEN "calib" ELSE "idle"
  <2>1. plan' \in {<<S1, Ref>>, <<S1, Ref, S1, Ref>>, <<S1, Ref, S1, Conv>>} /\ plan' # <<S1, Ref, S1, Conv>>
    <3>1. <<S1, Ref>> # <<S1, Ref, S1, Conv>> /\ <<S1, Ref, S1, Ref>> # <<S1, Ref, S1, Conv>>
      BY HeightFacts DEF Heights
    <3> QED BY <1>7, <3>1, HomeTwice DEF MoveHome
  <2>2. Conv \in Heights
    BY DEF Heights
  <2>3. /\ PlanSafe(plan', phase', pos) /\ Closes(plan') /\ plan' # <<>> /\ Head(plan') = S1
        /\ Has(plan', Ref) /\ JogsOnly(plan') /\ ~Has(plan', S2) /\ plan' \in Seq(Int) /\ Homes(plan')
    BY <2>1, <2>2, HomeSafe
  <2> QED BY <1>3, <1>6, <1>7, <2>3
<1>8. CASE phase = "calib" /\ (\E h \in Rows \cup {Conv} : plan' = MoveHome \o <<S1, h>>) /\ phase' = phase
  <2>1. PICK h \in Heights : plan' = <<S1, Ref, S1, h>>
    BY <1>8, CalibIs DEF Heights
  <2>2. /\ PlanSafe(plan', phase', pos) /\ Closes(plan') /\ plan' # <<>> /\ Head(plan') = S1
        /\ Has(plan', Ref) /\ JogsOnly(plan') /\ ~Has(plan', S2) /\ plan' \in Seq(Int)
    BY <2>1, HomeSafe
  <2> QED BY <1>2, <1>3, <1>6, <1>8, <2>2
<1>9. CASE phase = "idle" /\ (\E r \in Rows : plan' = GetCR(r) \o PutConv) /\ phase' = "fetched"
  <2>1. PICK r \in Rows : plan' = FetchMoves(r)
    BY <1>9, FetchIs
  <2>2. PlanSafe(plan', phase', pos) /\ Head(plan') = S1
    BY <1>9, <2>1, FetchSafe
  <2>3. plan' \in Seq(Int) /\ plan' # <<>>
    BY <2>1, GoTypes DEF TrackInv, FetchMoves
  <2> QED BY <1>2, <1>3, <1>6, <1>9, <2>2, <2>3
<1>10. CASE /\ phase = "fetched" /\ phase' = "idle"
            /\ \E r \in Rows : plan' = GetConv \o PutCR(r) \o MoveHome \o MoveHome
  <2>1. PICK r \in Rows : plan' = StoreMoves(r)
    BY <1>10, StoreIs
  <2>2. /\ PlanSafe(plan', phase', pos) /\ Closes(plan') /\ Place(plan', 1, "idle", Conv) /\ Head(plan') = Conv
    BY <1>10, <2>1, StoreSafe
  <2>3. Conv \in Heights /\ Conv # Ref
    BY HeightFacts DEF Heights
  <2>4. SafePlan' /\ SafeStatus' /\ SafeCut'
    BY <1>1, <1>2, <1>3, <1>10, <2>2, <2>3 DEF SafePlan, SafeStatus, SafeCut
  <2>5. SafeOut'
    <3> SUFFICES ASSUME ~In PROVE SafeOut'
      BY <1>4 DEF SafeOut
    <3>1. /\ ~cut /\ status \in {"READY"} \cup Driving
          /\ \E h \in Heights : pos \in Zone(h) /\ (zAt # 0 => outAt \in Zone(h)) /\ Place(plan, 1, phase, h)
      BY <1>2, <1>10 DEF Safe, SafeOut
    <3>2. \A h : Place(plan, 1, phase, h) => h = Conv
      BY <1>1, <1>10 DEF Place
    <3>3. pos \in Zone(Conv) /\ (zAt # 0 => outAt \in Zone(Conv))
      BY <3>1, <3>2
    <3>4. \E h \in Heights : pos \in Zone(h) /\ (zAt # 0 => outAt \in Zone(h)) /\ Place(plan', 1, phase', h)
      BY <1>10, <2>2, <2>3, <3>3
    <3> QED BY <1>1, <3>1, <3>4 DEF SafeOut
  <2> QED BY <1>4, <2>4, <2>5 DEF Safe
<1>11. CASE phase = "calib" /\ status = "READY" /\ (\E p \in Jogs : plan' = <<p>>) /\ phase' = phase
  <2>1. PICK p \in Nat : plan' = <<p>>
    BY <1>11, AxisConstants DEF Jogs, TrackInv, LiftTypes
  <2>2. /\ PlanSafe(plan', phase', pos) /\ ~Has(plan', S2) /\ JogsOnly(plan') /\ plan' # <<>> /\ Head(plan') # Ref
    BY <1>11, <2>1, JogSafe
  <2>3. SafePlan' /\ SafeStatus' /\ SafeOut' /\ SafeCut'
    BY <1>1, <1>3, <1>4, <1>5, <1>11, <2>2 DEF SafePlan, SafeStatus, SafeOut, SafeCut
  <2> QED BY <1>4, <2>3 DEF Safe
<1> QED BY <1>7, <1>8, <1>9, <1>10, <1>11 DEF Go

LEMMA FreeStarts == AxisInit => FreeInv
<1> SUFFICES ASSUME AxisInit PROVE FreeInv
  OBVIOUS
<1>1. /\ plan = <<>> /\ phase = "start" /\ status = "NOREF" /\ ~cut /\ zMotor = "off" /\ zAt \in {0, 1}
      /\ stops = 0 /\ ~stopY /\ ~stopZ /\ outAt = 0
  BY DEF AxisInit
<1>2. SafePlan
  <2>1. DOMAIN <<>> = {}
    OBVIOUS
  <2> QED BY <1>1, <2>1 DEF SafePlan, PlanSafe, OutsSafe, RefsSafe, HeightsSafe
<1> QED BY <1>1, <1>2 DEF FreeInv, Safe, SafeStatus, SafeOut, SafeCut, Unstopped

LEMMA StepFree == TrackInv /\ FreeInv /\ [AxisNext]_axisVars => FreeInv'
<1> SUFFICES ASSUME TrackInv, FreeInv, [AxisNext]_axisVars PROVE FreeInv'
  OBVIOUS
<1>1. CASE Stop
  BY <1>1 DEF Stop, FreeInv
<1>2. ASSUME ~Stop PROVE stops' = stops
  BY <1>2 DEF AxisNext, axisVars, faults, Go, Axis, StartRef, MoveRef, StartMove, MoveLeft, LeftEnds, MoveRight,
     RightEnds, UpDown, Looks, Ends, Cantilever, Send, Receive, Pulse, Slide, Jam, Free, Program
<1>3. ASSUME ~Stop, stops = 0 PROVE Safe'
  <2>1. Safe
    BY <1>3 DEF FreeInv
  <2>2. CASE Go
    BY <2>1, <2>2, GoSafe
  <2>3. CASE Axis
    BY <2>1, <2>3, StartRefSafe, MoveRefSafe, StartMoveSafe, MoveSafe, EndsSafe DEF Axis
  <2>4. CASE Cantilever \/ Send \/ Receive \/ Pulse \/ Slide
    BY <2>1, <2>4, CantileverSafe, TransferSafe, SlideSafe
  <2>5. CASE Jam \/ Free \/ UNCHANGED axisVars
    <3>1. UNCHANGED <<plan, phase, status, looking, pos, stopY, motor, dist, reset, taken, bMotor, bDist, counter,
                      at, seen, cut, zMotor, stopZ, zAt, outAt, exited>>
      BY <2>5 DEF Jam, Free, Program, axisVars, rack, prog, outputs, board, inputs, axisZ, slide
    <3>2. CutRests => CutRests'
      BY <3>1 DEF CutRests, WillRest, AtRest
    <3> QED BY <2>1, <3>1, <3>2, BoardSafe
  <2> QED BY <1>3, <2>2, <2>3, <2>4, <2>5 DEF AxisNext
<1> QED BY <1>1, <1>2, <1>3 DEF FreeInv

\* As long as nobody stops the rack, the cantilever is out only at a row or at
\* the belt, and the lift stays there until it is in: for any travel, rows and
\* joystick, any jams, and whatever is asked of the rack.
THEOREM CantileverKept == AxisSpec => []CantileverFree
<1>1. TrackInv /\ FreeInv => CantileverFree
  <2> SUFFICES ASSUME TrackInv, Safe, status # "NOREF", zAt # 0
               PROVE  \E h \in Rows \cup {Conv} : {at, outAt} \subseteq h - Delta .. h + Delta
    BY DEF FreeInv, CantileverFree
  <2>1. \E h \in Heights : at \in Zone(h) /\ outAt \in Zone(h)
    BY LiftPlace DEF In
  <2> QED BY <2>1 DEF Heights, Zone
<1> QED BY <1>1, TrackStarts, StepTracks, FreeStarts, StepFree, PTL DEF AxisSpec
=============================================================================
