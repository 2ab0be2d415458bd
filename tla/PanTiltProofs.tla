---------------------------- MODULE PanTiltProofs ----------------------------
(***************************************************************************)
(* The pan-tilt unit stands where its positions say, for any travel of the *)
(* motors, any number of callers and any commands.                         *)
(***************************************************************************)
EXTENDS TxtPanTilt, TLAPS

Hows == {"to", "left", "right"}
OneMove == Motors \X Hows \X Nat
OnSlot == Cmds \cup {"none"}
Taken == OnSlot \ {"stop"}
Command == [cmd : OnSlot, steps : Nat]
PtuTypes ==
  /\ status \in {"NOHOME", "READY", "MOVING", "ERROR"} /\ cur \in {"pan", "tilt", "none", "home"}
  /\ pos \in [Motors -> Nat] /\ at \in [Motors -> Nat] /\ counter \in [Motors -> Nat]
  /\ duty \in [Motors -> {"off", "left", "right"}] /\ dist \in [Motors -> Nat]
  /\ done \in [Motors -> BOOLEAN] /\ posa \in Nat
  /\ moves \in Seq(OneMove) /\ steps \in Nat
  /\ scmd \in OnSlot /\ seen \in Taken /\ want \in [Callers -> Command]

\* A motor that does not move: its position is true, and it cannot pulse.
Standing(m) == at[m] = pos[m] /\ (duty[m] = "off" \/ done[m])
\* A motor that moves: the pulses lead from where it was to where it is.
Underway(m) ==
  /\ posa = pos[m] /\ counter[m] <= dist[m] /\ (done[m] <=> counter[m] = dist[m])
  /\ duty[m] \in {"left", "right"}
  /\ at[m] = IF duty[m] = "left" THEN posa - counter[m] ELSE posa + counter[m]
\* Once the switches are found, and until a move times out.
Found ==
  homed /\ ~late =>
    /\ cur # "home" /\ status # "NOHOME"
    /\ \A m \in Motors : IF cur = m THEN Underway(m) ELSE Standing(m)
PtuInv == PtuTypes /\ Found

LEMMA PtuStarts == PtuInit => PtuInv
<1> SUFFICES ASSUME PtuInit PROVE PtuInv
  OBVIOUS
<1>1. PtuTypes
  BY PtuConstants DEF PtuInit, PtuTypes, Motors, OnSlot, Taken, Command, Idle
<1>2. Found
  BY DEF PtuInit, Found
<1> QED BY <1>1, <1>2 DEF PtuInv

\* The types.
LEMMA StartTypes ==
  ASSUME PtuTypes, NEW m \in Motors, NEW dir \in {"left", "right"}, NEW n \in Nat,
         moves' \in Seq(OneMove),
         Start(m, dir, n), UNCHANGED <<pos, at, slot, control, want>>
  PROVE  PtuTypes'
<1>1. CASE n = 0 \/ status # "READY"
  BY <1>1 DEF Start, PtuTypes, slot, control
<1>2. CASE ~(n = 0 \/ status # "READY")
  <2>0. /\ posa' = pos[m] /\ counter' = [counter EXCEPT ![m] = 0]
        /\ dist' = [dist EXCEPT ![m] = n] /\ duty' = [duty EXCEPT ![m] = dir]
        /\ done' = [done EXCEPT ![m] = FALSE]
    BY <1>2 DEF Start, ResetCounter
  <2>1. counter' \in [Motors -> Nat] /\ dist' \in [Motors -> Nat]
    BY <2>0 DEF PtuTypes
  <2>3. duty' \in [Motors -> {"off", "left", "right"}]
    BY <2>0 DEF PtuTypes
  <2>4. done' \in [Motors -> BOOLEAN]
    BY <2>0 DEF PtuTypes
  <2>5. posa' \in Nat
    BY <2>0 DEF PtuTypes
  <2>2. cur' \in {"pan", "tilt", "none", "home"} /\ status' = "MOVING"
    BY <1>2 DEF Start, Motors
  <2> QED BY <2>1, <2>2, <2>3, <2>4, <2>5 DEF PtuTypes, slot, control
<1> QED BY <1>1, <1>2

LEMMA MovesTyped ==
  ASSUME PtuTypes, NEW c \in Cmds \ {"stop"}
  PROVE  Moves(c) \in Seq(OneMove)
<1>1. End["pan"] \in Nat /\ End["tilt"] \in Nat /\ Center["pan"] \in Nat /\ Center["tilt"] \in Nat /\ steps \in Nat
  BY PtuConstants DEF Motors, PtuTypes
<1>2. \A h \in Hows, n \in Nat : <<"pan", h, n>> \in OneMove /\ <<"tilt", h, n>> \in OneMove
  BY DEF Motors, OneMove
<1>3. \A a, b \in OneMove : <<a>> \in Seq(OneMove) /\ <<a, b>> \in Seq(OneMove)
  OBVIOUS
<1> QED BY <1>1, <1>2, <1>3 DEF Moves, Cmds, Hows

LEMMA TypesKept == PtuInv /\ [PtuNext]_ptuVars => PtuTypes'
<1> SUFFICES ASSUME PtuTypes, [PtuNext]_ptuVars PROVE PtuTypes'
  BY DEF PtuInv
<1>1. CASE StartHome
  BY <1>1 DEF StartHome, PtuTypes, Still, slot, control
<1>2. CASE Home
  <2>1. duty' \in [Motors -> {"off", "left", "right"}]
    BY <1>2 DEF Home, PtuTypes
  <2>2. pos' \in [Motors -> Nat] /\ counter' \in [Motors -> Nat]
    <3> DEFINE Zero == [m \in Motors |-> 0]
    <3>1. (pos' = Zero /\ counter' = Zero) \/ (pos' = pos /\ counter' = counter)
      BY <1>2 DEF Home
    <3>2. Zero \in [Motors -> Nat]
      OBVIOUS
    <3> QED BY <3>1, <3>2 DEF PtuTypes
  <2>3. cur' \in {"none", "home"} /\ status' \in {status, "READY"}
    BY <1>2 DEF Home
  <2> QED BY <1>2, <2>1, <2>2, <2>3 DEF Home, PtuTypes, Still, slot, control
<1>3. CASE Move
  <2>1. PICK m \in Motors : duty' \in {duty, [duty EXCEPT ![m] = "off"]} /\ \E p \in Int : Settle(m, p)
    <3>1. PICK m \in Motors : Move!1!(m)
      BY <1>3 DEF Move
    <3>2. posa - counter[m] \in Int /\ posa + counter[m] \in Int
      BY DEF PtuTypes
    <3> QED BY <3>1, <3>2 DEF Off
  <2>2. duty' \in [Motors -> {"off", "left", "right"}]
    BY <2>1 DEF PtuTypes
  <2>3. PICK p \in Int : Settle(m, p)
    BY <2>1
  <2>4. pos' \in [Motors -> Nat]
    <3>1. (p >= 0 /\ pos' = [pos EXCEPT ![m] = p]) \/ pos' = pos
      BY <2>3 DEF Settle
    <3>2. pos \in [Motors -> Nat] /\ (p >= 0 => p \in Nat)
      BY DEF PtuTypes
    <3> QED BY <3>1, <3>2
  <2>5. cur' = "none" /\ status' \in {"READY", "ERROR"}
    BY <2>3 DEF Settle
  <2> QED BY <1>3, <2>2, <2>4, <2>5 DEF Move, PtuTypes, motion, Still, slot, control
<1>4. CASE Poll
  BY <1>4 DEF Poll, PtuTypes, OnSlot, Taken, unit, motion, slot, Alone
<1>5. CASE Take
  BY <1>5, MovesTyped DEF Take, PtuTypes, OnSlot, Taken, motion, slot, Alone
<1>6. CASE NextMove
  <2>1. Head(moves) \in OneMove /\ moves' \in Seq(OneMove)
    BY <1>6 DEF NextMove, PtuTypes
  <2> DEFINE m == Head(moves)[1]  n == Head(moves)[3]
  <2>2. m \in Motors /\ Head(moves)[2] \in Hows /\ n \in Nat /\ pos[m] \in Nat
    BY <2>1 DEF PtuTypes, OneMove
  <2> HIDE DEF m, n
  <2>3. \E dir \in {"left", "right"}, k \in Nat : Start(m, dir, k)
    <3>1. CASE Head(moves)[2] = "to"
      <4>1. IF n >= pos[m] THEN Start(m, "right", n - pos[m]) ELSE Start(m, "left", pos[m] - n)
        BY <1>6, <3>1 DEF NextMove, StartPos, m, n
      <4>2. (n >= pos[m] => n - pos[m] \in Nat) /\ (~(n >= pos[m]) => pos[m] - n \in Nat)
        BY <2>2
      <4> QED BY <4>1, <4>2
    <3>2. CASE Head(moves)[2] # "to"
      BY <1>6, <2>2, <3>2 DEF NextMove, m, n, Hows
    <3> QED BY <3>1, <3>2
  <2> QED BY <1>6, <2>1, <2>2, <2>3, StartTypes DEF NextMove, Alone
<1>7. CASE Finish
  BY <1>7 DEF Finish, PtuTypes, OnSlot, Taken, unit, motion, Alone
<1>8. CASE Jam
  BY <1>8 DEF Jam, PtuTypes, unit, motion, slot, control
<1>9. ASSUME NEW m \in Motors, Pulse(m) PROVE PtuTypes'
  BY <1>9 DEF Pulse, PtuTypes, unit, slot, control
<1>10. ASSUME NEW c \in Callers, Execute(c) \/ PutDown(c) PROVE PtuTypes'
  <2>1. CASE Execute(c)
    <3>1. PICK k \in Cmds, n \in 1 .. MaxSteps : want' = [want EXCEPT ![c] = [cmd |-> k, steps |-> n]]
      BY <2>1 DEF Execute
    <3>2. n \in Nat
      BY PtuConstants
    <3>3. want' \in [Callers -> Command]
      BY <3>1, <3>2 DEF PtuTypes, Command, OnSlot
    <3> QED BY <2>1, <3>3 DEF Execute, PtuTypes, unit, motion, slot, control
  <2>2. CASE PutDown(c)
    <3>1. want[c] \in Command /\ Idle \in Command
      BY DEF PtuTypes, Command, OnSlot, Idle
    <3>2. want' \in [Callers -> Command] /\ scmd' \in OnSlot /\ steps' \in Nat
      BY <2>2, <3>1 DEF PutDown, PtuTypes, Command
    <3> QED BY <2>2, <3>2 DEF PutDown, PtuTypes, unit, motion, control
  <2> QED BY <1>10, <2>1, <2>2
<1>11. CASE UNCHANGED ptuVars
  BY <1>11 DEF PtuTypes, ptuVars, unit, motion, slot, control
<1> QED
  BY <1>1, <1>2, <1>3, <1>4, <1>5, <1>6, <1>7, <1>8, <1>9, <1>10, <1>11 DEF PtuNext, Run

\* A step that leaves the motors alone.
LEMMA MotorsLeft ==
  ASSUME Found, UNCHANGED <<homed, late, cur, status, posa, pos, at, counter, dist, done, duty>>
  PROVE  Found'
BY DEF Found, Underway, Standing

\* A move that starts counts from zero, from where the motor stands.
LEMMA StartFinds ==
  ASSUME PtuTypes, Found, NEW m \in Motors, NEW dir \in {"left", "right"}, NEW n \in Nat,
         cur = "none", Start(m, dir, n), UNCHANGED <<pos, at, homed, late>>
  PROVE  Found'
<1>1. CASE n = 0 \/ status # "READY"
  BY <1>1, MotorsLeft DEF Start
<1>2. CASE ~(n = 0 \/ status # "READY")
  <2> SUFFICES ASSUME homed, ~late PROVE Found'
    BY DEF Found
  <2>1. /\ cur' = m /\ posa' = pos[m] /\ status' = "MOVING"
        /\ dist' = [dist EXCEPT ![m] = n] /\ duty' = [duty EXCEPT ![m] = dir]
        /\ counter' = [counter EXCEPT ![m] = 0] /\ done' = [done EXCEPT ![m] = FALSE]
    BY <1>2 DEF Start, ResetCounter
  <2>2. \A k \in Motors : at[k] = pos[k] /\ (duty[k] = "off" \/ done[k])
    BY DEF Found, Standing, Motors
  <2>3. /\ posa' = pos'[m] /\ pos[m] \in Nat /\ at'[m] = pos[m] /\ counter'[m] = 0 /\ dist'[m] = n
        /\ done'[m] = FALSE /\ duty'[m] = dir /\ n > 0
    BY <1>2, <2>1, <2>2 DEF PtuTypes
  <2>5. Underway(m)'
    <3>1. (done[m] <=> counter[m] = dist[m])'
      <4>1. 0 # n
        BY <2>3
      <4> QED BY <2>3, <4>1, Zenon
    <3>2. 0 <= n /\ pos[m] - 0 = pos[m] /\ pos[m] + 0 = pos[m]
      BY <2>3
    <3> QED BY <2>3, <3>1, <3>2 DEF Underway
  <2>4. \A k \in Motors \ {m} : Standing(k)'
    BY <2>1, <2>2 DEF Standing, PtuTypes
  <2> QED BY <2>1, <2>4, <2>5 DEF Found, Motors
<1> QED BY <1>1, <1>2

LEMMA FoundKept == PtuInv /\ [PtuNext]_ptuVars => Found'
<1> SUFFICES ASSUME PtuTypes, Found, [PtuNext]_ptuVars PROVE Found'
  BY DEF PtuInv
<1>1. CASE StartHome
  BY <1>1 DEF StartHome, Found
<1>2. CASE Home
  <2>1. CASE /\ \A m \in Motors : Pressed(m)
             /\ duty' = [m \in Motors |-> "off"] /\ pos' = [m \in Motors |-> 0]
             /\ status' = "READY" /\ cur' = "none"
    BY <1>2, <2>1 DEF Home, Found, Standing, Pressed, Motors
  <2>2. CASE UNCHANGED <<cur, homed, late>>
    BY <1>2, <2>2 DEF Home, Found
  <2>3. CASE late'
    BY <2>3 DEF Found
  <2> QED BY <1>2, <2>1, <2>2, <2>3 DEF Home
<1>3. CASE Move
  <2> SUFFICES ASSUME homed, ~late, ~late' PROVE Found'
    <3>1. homed' = homed /\ (late => late')
      BY <1>3 DEF Move, TimedOut
    <3> QED BY <3>1 DEF Found
  <2> PICK m \in Motors : Move!1!(m)
    BY <1>3 DEF Move
  <2> DEFINE p == IF duty[m] = "left" THEN posa - counter[m] ELSE posa + counter[m]
  <2>1. /\ at[m] = p /\ p >= 0 /\ p \in Int
        /\ \A k \in Motors \ {m} : Standing(k)
    BY DEF Found, Underway, PtuTypes, Motors
  <2>2. /\ Settle(m, p)
        /\ \/ done[m] /\ duty' = duty
           \/ duty' = [duty EXCEPT ![m] = "off"]
    BY DEF TimedOut, Off
  <2> HIDE DEF p
  <2>3. cur' = "none" /\ pos' = [pos EXCEPT ![m] = p] /\ status' = "READY"
    BY <2>1, <2>2 DEF Settle
  <2>4. at' = at /\ done' = done
    BY <1>3 DEF Move, motion
  <2>5. Standing(m)'
    BY <2>1, <2>2, <2>3, <2>4 DEF Standing, PtuTypes
  <2>6. \A k \in Motors \ {m} : Standing(k)'
    BY <2>1, <2>2, <2>3, <2>4 DEF Standing, PtuTypes
  <2> QED BY <2>3, <2>5, <2>6 DEF Found, Motors
<1>4. CASE Poll \/ Take \/ Finish
  BY <1>4, MotorsLeft DEF Poll, Take, Finish, unit, motion, Alone
<1>5. CASE NextMove
  <2>1. Head(moves) \in OneMove
    BY <1>5 DEF NextMove, PtuTypes
  <2> DEFINE m == Head(moves)[1]  n == Head(moves)[3]
  <2>2. m \in Motors /\ Head(moves)[2] \in Hows /\ n \in Nat /\ pos[m] \in Nat
    BY <2>1 DEF PtuTypes, OneMove
  <2> HIDE DEF m, n
  <2>3. \E dir \in {"left", "right"}, k \in Nat : Start(m, dir, k)
    <3>1. CASE Head(moves)[2] = "to"
      <4>1. IF n >= pos[m] THEN Start(m, "right", n - pos[m]) ELSE Start(m, "left", pos[m] - n)
        BY <1>5, <3>1 DEF NextMove, StartPos, m, n
      <4>2. (n >= pos[m] => n - pos[m] \in Nat) /\ (~(n >= pos[m]) => pos[m] - n \in Nat)
        BY <2>2
      <4> QED BY <4>1, <4>2
    <3>2. CASE Head(moves)[2] # "to"
      BY <1>5, <2>2, <3>2 DEF NextMove, m, n, Hows
    <3> QED BY <3>1, <3>2
  <2> QED BY <1>5, <2>2, <2>3, StartFinds DEF NextMove, Alone
<1>6. CASE Jam
  BY <1>6, MotorsLeft DEF Jam, unit, motion
<1>7. ASSUME NEW m \in Motors, Pulse(m) PROVE Found'
  <2> SUFFICES ASSUME homed, ~late PROVE Found'
    BY <1>7 DEF Found, Pulse
  <2>1. m = cur /\ Underway(m) /\ ~done[m] /\ \A k \in Motors \ {m} : Standing(k)
    BY <1>7 DEF Found, Pulse, Standing, Motors
  <2>2. UNCHANGED <<cur, status, posa, pos, dist, duty>>
    BY <1>7 DEF Pulse, unit
  <2>3. counter'[m] = counter[m] + 1 /\ (done'[m] <=> counter[m] + 1 = dist[m])
        /\ at'[m] = IF duty[m] = "left" THEN at[m] - 1 ELSE at[m] + 1
    BY <1>7 DEF Pulse, PtuTypes
  <2>4. Underway(m)'
    <3>1. counter[m] \in Nat /\ dist[m] \in Nat /\ pos[m] \in Nat /\ posa = pos[m]
          /\ counter[m] <= dist[m] /\ counter[m] # dist[m] /\ duty[m] \in {"left", "right"}
      BY <2>1 DEF Underway, PtuTypes
    <3>2. counter[m] + 1 <= dist[m]
      BY <3>1
    <3>3. (done[m] <=> counter[m] = dist[m])'
      BY <2>2, <2>3
    <3>4. (at[m] = IF duty[m] = "left" THEN posa - counter[m] ELSE posa + counter[m])'
      BY <2>1, <2>2, <2>3, <3>1 DEF Underway
    <3> QED BY <2>2, <2>3, <3>1, <3>2, <3>3, <3>4 DEF Underway
  <2>5. \A k \in Motors \ {m} : Standing(k)'
    BY <1>7, <2>1, <2>2 DEF Standing, Pulse, PtuTypes
  <2> QED BY <2>1, <2>2, <2>4, <2>5 DEF Found, Motors
<1>8. ASSUME NEW c \in Callers, Execute(c) \/ PutDown(c) PROVE Found'
  BY <1>8, MotorsLeft DEF Execute, PutDown, unit, motion
<1>9. CASE UNCHANGED ptuVars
  BY <1>9, MotorsLeft DEF ptuVars, unit, motion
<1> QED
  BY <1>1, <1>2, <1>3, <1>4, <1>5, <1>6, <1>7, <1>8, <1>9 DEF PtuNext, Run

\* Once the pan-tilt unit of the library has found both switches, its positions
\* are where it stands whenever no motor moves, until a move times out: for any
\* travel, any callers, whatever commands replace one another on the slot and
\* whatever blocks the unit.
THEOREM StandsWhereItSays == PtuSpec => []PanTiltTrue
<1>1. PtuInv => PanTiltTrue
  <2> SUFFICES ASSUME PtuInv, homed, ~late, cur = "none" PROVE pos = at
    BY DEF PanTiltTrue
  <2>1. \A m \in Motors : pos[m] = at[m]
    BY DEF PtuInv, Found, Standing, Motors
  <2> QED BY <2>1 DEF PtuInv, PtuTypes
<1>2. PtuInv /\ [PtuNext]_ptuVars => PtuInv'
  BY TypesKept, FoundKept DEF PtuInv
<1> QED BY <1>1, <1>2, PtuStarts, PTL DEF PtuSpec
=============================================================================
