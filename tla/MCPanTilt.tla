----------------------------- MODULE MCPanTilt -------------------------------
(* A small pan-tilt unit: the pan motor travels further than the tilt motor. *)
EXTENDS TxtPanTilt
SmallEnd == [pan |-> 3, tilt |-> 2]
SmallCenter == [pan |-> 2, tilt |-> 1]
=============================================================================
