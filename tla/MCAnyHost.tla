----------------------------- MODULE MCAnyHost -----------------------------
(* Every host of MatrixDevice, with a history variable that remembers      *)
(* whether the host has ever started the device with no interrupt enabled. *)
EXTENDS MCMatrixDevice

VARIABLE early

EarlyStart ==
  ~computation_requested /\ computation_requested' /\ reg_int_enable = {}

HistoryInit == Init /\ early = FALSE
HistoryNext == Next /\ early' = (early \/ EarlyStart)
HistorySpec == HistoryInit /\ [][HistoryNext]_<<vars, early>> /\ Fairness

(* An update that interrupt_controller misses goes back to a START with no *)
(* interrupt enabled: the thread's first run, which swallows its wake-up,  *)
(* is then the one for DONE and not the one for the enable write.          *)
LossNeedsEarlyStart == ~early => NoLostInterrupt

(* Without such a START an enabled pending interrupt reaches the line,     *)
(* unless the host acknowledges, masks or resets it first.                 *)
InterruptDelivered == IrqLevel ~> (interrupt \/ ~IrqLevel \/ early)
=============================================================================
