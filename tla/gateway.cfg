SPECIFICATION GatewaySpec
CONSTANTS
  Cmds = {"write"}
  Clients = {"remote", "local"}
  MaxCmds = 2
  MaxLosses = 1
  MaxSwitches = 1
PROPERTIES
  AnswersRight
  OutcomesAnswered
  Resubscribes
  MotionServed
CHECK_DEADLOCK FALSE
