------------------------------ MODULE OrderLife ------------------------------
(***************************************************************************)
(* What a customer may see of an order: the states of TxtOrderState_t in   *)
(* the order in which the factory goes through them.  Each state leads to  *)
(* the next one or to a fault of its stage, and what has been shipped or   *)
(* has failed stays so.  The acknowledgement may be late by one state.     *)
(***************************************************************************)
CONSTANTS Orders
VARIABLE board

Successors(state) ==
  CASE state = "WAITING_FOR_ORDER" -> {"ORDER_ACKNOWLEDGED", "FETCHING_FROM_STORAGE"}
    [] state \in {"ORDER_ACKNOWLEDGED", "FETCHING_FROM_STORAGE"} ->
         {"ORDER_ACKNOWLEDGED", "FETCHING_FROM_STORAGE", "FETCHED_FROM_STORAGE", "ORDER_FAULT"}
    [] state = "FETCHED_FROM_STORAGE" -> {"TRANSPORT_TO_PROCESS_STATION"}
    [] state = "TRANSPORT_TO_PROCESS_STATION" -> {"IN_PROCESS", "PROCESS_FAULT"}
    [] state = "IN_PROCESS" -> {"ORDER_PROCESSED", "PROCESS_FAULT"}
    [] state = "ORDER_PROCESSED" -> {"WAITING_FOR_QA", "QA_FAULT"}
    [] state = "WAITING_FOR_QA" -> {"TRANSPORT_WP_TO_DSO"}
    [] state = "TRANSPORT_WP_TO_DSO" -> {"SHIPPED"}
    [] OTHER -> {}

LifeInit == board = [o \in Orders |-> "WAITING_FOR_ORDER"]
Advance(o) == \E state \in Successors(board[o]) : board' = [board EXCEPT ![o] = state]
LifeNext == \E o \in Orders : Advance(o)
Life == LifeInit /\ [][LifeNext]_board
=============================================================================
