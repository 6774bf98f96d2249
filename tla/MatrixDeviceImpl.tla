-------------------------- MODULE MatrixDeviceImpl --------------------------
(***************************************************************************)
(* MatrixDevice under a disciplined host implements Accelerator.           *)
(***************************************************************************)
EXTENDS MatrixDevice

(* A task exists from the accepted START to the end of compute_thread's    *)
(* loop body.  The pointers are read from the registers at each transfer   *)
(* and n from the register at the first, so a task is the configuration at *)
(* START only if the registers did not change since.                       *)
TaskOf ==
  IF computation_requested \/ compute_pc # "start"
  THEN {[n |-> IF compute_pc = "start" THEN reg_dim_n ELSE job.n,
         ptr |-> reg_matrix_ptr]}
  ELSE {}

MovedOf ==
  CASE compute_pc \in {"start", "dma_a"} -> {}
    [] compute_pc = "dma_b" -> {"A"}
    [] compute_pc \in {"row", "dma_c"} -> {"A", "B"}

(* MatrixDevice implements the abstract device. *)
Promise == INSTANCE Accelerator WITH
  status  <- reg_status,
  cfg     <- [n |-> reg_dim_n, ptr |-> reg_matrix_ptr],
  task    <- TaskOf,
  moved   <- MovedOf,
  bus     <- {dma} \ {NoDma},
  pending <- reg_int_status # {}

(* Every step of the device under a disciplined host is one the abstract   *)
(* device allows: compute_thread's three transfers, its results and        *)
(* INT_DONE are those of the configuration at START.                       *)
ImplementsAccelerator == Promise!Safety

(* compute_thread keeps the abstract device's promise that a task, once    *)
(* started, moves on until it has succeeded or failed.                     *)
TasksEnd == Promise!Liveness
=============================================================================
