----------------------------- MODULE TxtPanTilt ------------------------------
(***************************************************************************)
(* The pan-tilt unit of the camera: its controller takes one command at a  *)
(* time from other threads and moves one of two motors, whose pulses a     *)
(* board counts.  Only the pan and tilt positions of the calibration are   *)
(* kept: home, centre and end.                                             *)
(***************************************************************************)
EXTENDS Integers, Sequences

CONSTANTS End, Center,   \* per motor: end of the travel and centre
          Callers,       \* threads that give commands
          MaxSteps,      \* longest relative move that is asked for
          MaxCmds, MaxJams,
          Mode           \* what the program that owns the unit allows, 1 to 3
Motors == {"pan", "tilt"}
ASSUME PtuConstants ==
  /\ End \in [Motors -> Nat] /\ Center \in [Motors -> Nat] /\ MaxSteps \in Nat
  /\ \A m \in Motors : Center[m] \in 1 .. End[m] - 1

VARIABLES status, pos,            \* the unit
          duty, dist, counter, done,      \* per motor: power, distance; the board: pulses, distance driven
          at,                     \* where the unit really stands
          cur, posa, moves,       \* the motor that moves, where from, and moves still to do
          scmd, steps,            \* the command slot
          lock, busy, seen,       \* the controller: its lock, busy, the command it has read
          want,                   \* per caller: the command it waits to put down
          jam,                    \* something blocks or slows the unit
          homed, late,            \* history: both switches were found; a move timed out
          cmds, jams
unit == <<status, pos, duty, dist, cur, posa, moves>>
motion == <<counter, done, at>>
slot == <<scmd, steps>>
control == <<lock, busy, seen>>
ptuVars == <<unit, motion, slot, control, want, jam, homed, late, cmds, jams>>

Cmds == {"stop", "home", "start_pan", "end_pan", "start_tilt", "end_tilt",
         "relmove_left", "relmove_right", "relmove_up", "relmove_down"}
Idle == [cmd |-> "none", steps |-> 0]
PtuTypeOK ==
  /\ status \in {"NOHOME", "READY", "MOVING", "ERROR"} /\ cur \in Motors \cup {"none", "home"}
  /\ \A m \in Motors : at[m] \in Int /\ pos[m] \in Nat /\ duty[m] \in {"off", "left", "right"}
  /\ scmd \in Cmds \cup {"none"} /\ seen \in Cmds \cup {"none"} /\ lock \in {"none", "run"} \cup Callers

PtuInit ==
  /\ status = "NOHOME" /\ pos = [m \in Motors |-> 0]
  /\ duty = [m \in Motors |-> "off"] /\ dist = [m \in Motors |-> 0]
  /\ counter = [m \in Motors |-> 0] /\ done = [m \in Motors |-> FALSE]
  /\ at = Center /\ cur = "none" /\ posa = 0 /\ moves = <<>>
  /\ scmd = "none" /\ steps = 0 /\ lock = "none" /\ busy = FALSE /\ seen = "none"
  /\ want = [c \in Callers |-> Idle]
  /\ jam = FALSE /\ homed = FALSE /\ late = FALSE /\ cmds = 0 /\ jams = 0

Pressed(m) == at[m] = 0
-----------------------------------------------------------------------------
(* The unit.                                                               *)

Still == UNCHANGED <<slot, control, want, jam, cmds, jams>>
\* moveHome, once, by the owner before it takes commands.
StartHome ==
  /\ status = "NOHOME" /\ cur = "none" /\ cmds = 0
  /\ cur' = "home" /\ status' = "MOVING" /\ duty' = [m \in Motors |-> "left"]
  /\ counter' = [m \in Motors |-> 0]
  /\ UNCHANGED <<pos, dist, posa, moves, done, at, homed, late>> /\ Still
\* The loop of moveHome.  After a timeout, too, the unit is ready at zero.
Home ==
  /\ cur = "home"
  /\ \/ /\ \A m \in Motors : Pressed(m)
        /\ duty' = [m \in Motors |-> "off"] /\ homed' = TRUE
        /\ pos' = [m \in Motors |-> 0] /\ counter' = [m \in Motors |-> 0]
        /\ status' = "READY" /\ cur' = "none" /\ UNCHANGED late
     \/ /\ \E m \in Motors : ~Pressed(m)
        /\ \E m \in Motors : Pressed(m) /\ duty[m] # "off" /\ duty' = [duty EXCEPT ![m] = "off"]
        /\ UNCHANGED <<pos, counter, status, cur, homed, late>>
     \/ /\ jam /\ \E m \in Motors : ~Pressed(m)
        /\ pos' = [m \in Motors |-> 0] /\ counter' = [m \in Motors |-> 0]
        /\ status' = "READY" /\ cur' = "none" /\ late' = TRUE /\ UNCHANGED <<duty, homed>>
  /\ UNCHANGED <<dist, posa, moves, done, at>> /\ Still

\* movePanPos, moveTiltPos and the relative moves: moveLeft and moveRight up
\* to their loop, with n steps; no move at all without steps or when not ready.
\* A slip would be to count on from the last move.
CounterKept(m) == UNCHANGED counter
ResetCounter(m) == counter' = [counter EXCEPT ![m] = 0]
Start(m, dir, n) ==
  IF n = 0 \/ status # "READY" THEN UNCHANGED <<status, duty, dist, cur, posa, counter, done>>
  ELSE /\ cur' = m /\ posa' = pos[m] /\ status' = "MOVING"
       /\ dist' = [dist EXCEPT ![m] = n] /\ duty' = [duty EXCEPT ![m] = dir]
       /\ ResetCounter(m) /\ done' = [done EXCEPT ![m] = FALSE]
StartPos(m, p) == IF p >= pos[m] THEN Start(m, "right", p - pos[m]) ELSE Start(m, "left", pos[m] - p)

Off(m) == duty' = [duty EXCEPT ![m] = "off"]
\* After the loop: the new position; the counter went too far to the left only
\* when the position was wrong.
Settle(m, p) ==
  /\ cur' = "none"
  /\ IF p >= 0 THEN pos' = [pos EXCEPT ![m] = p] /\ status' = "READY"
     ELSE status' = "ERROR" /\ UNCHANGED pos
\* A slip would be to wait for ever.
WaitsOn == FALSE
TimedOut == jam /\ late' = TRUE
Move ==
  /\ \E m \in Motors :
       /\ cur = m
       /\ LET left == duty[m] = "left"
              p == IF left THEN posa - counter[m] ELSE posa + counter[m]
          IN \/ done[m] /\ Settle(m, p) /\ UNCHANGED <<duty, late>>
             \/ ~done[m] /\ left /\ Pressed(m) /\ Off(m) /\ Settle(m, p) /\ UNCHANGED late
             \/ ~done[m] /\ ~left /\ p >= End[m] /\ Off(m) /\ Settle(m, p) /\ UNCHANGED late
             \/ /\ ~done[m] /\ TimedOut /\ Settle(m, p) /\ UNCHANGED duty
  /\ UNCHANGED <<dist, posa, moves, motion, homed>> /\ Still

\* The board: pulses until the distance is driven; none limits moveHome.
Pulse(m) ==
  /\ duty[m] # "off" /\ ~done[m] /\ (cur = "home" => ~Pressed(m))
  /\ counter' = [counter EXCEPT ![m] = @ + 1]
  /\ done' = [done EXCEPT ![m] = counter[m] + 1 = dist[m]]
  /\ at' = [at EXCEPT ![m] = IF duty[m] = "left" THEN @ - 1 ELSE @ + 1]
  /\ at'[m] >= 0
  /\ UNCHANGED <<unit, slot, control, want, jam, homed, late, cmds, jams>>
Jam == /\ ~jam /\ jams < MaxJams /\ jam' = TRUE /\ jams' = jams + 1
       /\ UNCHANGED <<unit, motion, slot, control, want, homed, late, cmds>>

-----------------------------------------------------------------------------
(* The controller.                                                         *)

\* executeCmd: busy is looked at without the lock, and the caller then waits
\* for the lock; a command on the slot is replaced.
Execute(c) ==
  /\ want[c] = Idle /\ cur # "home" /\ cmds < MaxCmds /\ ~busy
  /\ \E k \in Cmds, n \in 1 .. MaxSteps :
       /\ (n > 1 => k \in {"relmove_left", "relmove_right", "relmove_up", "relmove_down"})
       /\ want' = [want EXCEPT ![c] = [cmd |-> k, steps |-> n]]
  /\ cmds' = cmds + 1
  /\ UNCHANGED <<unit, motion, slot, control, jam, homed, late, jams>>
PutDown(c) ==
  /\ want[c] # Idle /\ lock = "none"
  /\ scmd' = want[c].cmd /\ steps' = want[c].steps /\ want' = [want EXCEPT ![c] = Idle]
  /\ UNCHANGED <<unit, motion, control, jam, homed, late, cmds, jams>>

Alone == UNCHANGED <<want, jam, homed, late, cmds, jams>>
\* run compares the command without the lock; stop does nothing but clear it.
Poll ==
  /\ seen = "none" /\ scmd # "none" /\ cur # "home"
  /\ IF scmd = "stop" THEN scmd' = "none" /\ steps' = 0 /\ busy' = FALSE /\ UNCHANGED seen
     ELSE seen' = scmd /\ UNCHANGED <<slot, busy>>
  /\ UNCHANGED <<unit, motion, lock>> /\ Alone

\* The mode from which a command is carried out.
Needed(c) == CASE c \in {"home", "end_pan", "end_tilt"} -> 3
               [] c \in {"start_pan", "start_tilt"} -> 2
               [] OTHER -> 1
\* The moves of a command: to a position or by steps.
Moves(c) ==
  CASE c = "home" -> <<<<"pan", "to", Center["pan"]>>, <<"tilt", "to", Center["tilt"]>>>>
    [] c = "start_pan" -> <<<<"pan", "to", 0>>>>
    [] c = "end_pan" -> <<<<"pan", "to", End["pan"]>>>>
    [] c = "start_tilt" -> <<<<"tilt", "to", 0>>>>
    [] c = "end_tilt" -> <<<<"tilt", "to", End["tilt"]>>>>
    [] c = "relmove_left" -> <<<<"pan", "left", steps>>>>
    [] c = "relmove_right" -> <<<<"pan", "right", steps>>>>
    [] c = "relmove_up" -> <<<<"tilt", "right", steps>>>>
    [] c = "relmove_down" -> <<<<"tilt", "left", steps>>>>
\* The command that was read, with the steps that are on the slot now.
Take ==
  /\ seen # "none" /\ lock = "none" /\ lock' = "run"
  /\ IF Mode < Needed(seen) THEN UNCHANGED <<moves, busy>>
     ELSE busy' = TRUE /\ moves' = Moves(seen)
  /\ UNCHANGED <<status, pos, duty, dist, cur, posa, motion, slot, seen>> /\ Alone
NextMove ==
  /\ lock = "run" /\ cur = "none" /\ moves # <<>> /\ moves' = Tail(moves)
  /\ LET m == Head(moves)[1]  how == Head(moves)[2]  n == Head(moves)[3]
     IN IF how = "to" THEN StartPos(m, n) ELSE Start(m, how, n)
  /\ UNCHANGED <<pos, at, slot, control>> /\ Alone
\* The slot is cleared, whatever lies on it by now.
\* A slip would be to keep the lock.
StaysLocked == UNCHANGED lock
Unlock == lock' = "none"
Finish ==
  /\ lock = "run" /\ cur = "none" /\ moves = <<>>
  /\ scmd' = "none" /\ steps' = 0 /\ busy' = FALSE /\ Unlock /\ seen' = "none"
  /\ UNCHANGED <<unit, motion>> /\ Alone

Run == Poll \/ Take \/ NextMove \/ Finish
PtuNext == \/ StartHome \/ Home \/ Move \/ Run \/ Jam
           \/ \E m \in Motors : Pulse(m)
           \/ \E c \in Callers : Execute(c) \/ PutDown(c)
PtuSpec == /\ PtuInit /\ [][PtuNext]_ptuVars
           /\ WF_ptuVars(StartHome) /\ WF_ptuVars(Home) /\ WF_ptuVars(Move) /\ WF_ptuVars(Run)
           /\ \A m \in Motors : WF_ptuVars(~jam /\ Pulse(m))
           /\ \A c \in Callers : WF_ptuVars(PutDown(c))

-----------------------------------------------------------------------------
(* Between two moves a unit that found its switches stands where its       *)
(* positions say, until a move has timed out.                              *)
PanTiltTrue == (homed /\ ~late /\ cur = "none") => pos = at

(* The controller gets through every command, also when the unit blocks.   *)
CommandsEnd == seen # "none" ~> seen = "none"

(* A thread that gives a command while the unit moves comes back.          *)
CallersReturn == \A c \in Callers : want[c] # Idle ~> want[c] = Idle
=============================================================================
