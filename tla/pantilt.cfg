SPECIFICATION PtuSpec
CONSTANTS
  End <- SmallEnd
  Center <- SmallCenter
  Callers = {c1, c2}
  MaxSteps = 2
  MaxCmds = 2
  MaxJams = 1
  Mode = 3
INVARIANTS PanTiltTrue
PROPERTIES CommandsEnd CallersReturn
CHECK_DEADLOCK FALSE
