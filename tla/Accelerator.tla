----------------------------- MODULE Accelerator -----------------------------
(***************************************************************************)
(* What the matrix multiplier promises to a host that configures, starts   *)
(* and resets it only while it is idle: no threads, no events, no wait().  *)
(* A task is the configuration at the moment of START.  The device moves   *)
(* the matrices at the addresses of the task and at no other, C after A    *)
(* and B, raises INT_DONE exactly when all three were moved, and reports   *)
(* DONE or ERROR accordingly.                                              *)
(***************************************************************************)
EXTENDS Naturals

CONSTANTS MAX_N, Dims, Ptrs, NullPtr

VARIABLES
  status,      (* what REG_STATUS shows                                    *)
  cfg,         (* the dimension and the three addresses                    *)
  task,        (* the cfg that was started, a set of at most one           *)
  moved,       (* the matrices of the task that have been moved            *)
  bus,         (* the transfer in flight, a set of at most one             *)
  pending      (* INT_DONE is pending                                      *)

vars == <<status, cfg, task, moved, bus, pending>>

Mats == {"A", "B", "C"}
Cfgs == [n : Dims, ptr : [Mats -> Ptrs]]
NullCfg == [n |-> 0, ptr |-> [m \in Mats |-> NullPtr]]

Init ==
  /\ status = {"IDLE"}
  /\ cfg = NullCfg
  /\ task = {}
  /\ moved = {}
  /\ bus = {}
  /\ pending = FALSE

-----------------------------------------------------------------------------
(* The host changes the configuration. *)
Configure ==
  /\ task = {}
  /\ cfg' \in Cfgs
  /\ UNCHANGED <<status, task, moved, bus, pending>>

(* The host resets the device, and may start it in the same write. *)
Reset ==
  /\ task = {}
  /\ status' = {"IDLE"}
  /\ cfg' = NullCfg
  /\ task' \in {{}, {NullCfg}}
  /\ pending' = FALSE
  /\ UNCHANGED <<moved, bus>>

Start ==
  /\ task = {}
  /\ task' = {cfg}
  /\ UNCHANGED <<status, cfg, moved, bus, pending>>

Acknowledge ==
  /\ pending' = FALSE
  /\ UNCHANGED <<status, cfg, task, moved, bus>>

-----------------------------------------------------------------------------
(* The matrices moved once the transfer in flight has ended well. *)
Settled == moved \cup {t.mat : t \in bus}

Healthy == \A t \in bus : t.ok

ValidTask == \A t \in task : t.n \in 1..MAX_N

(* The transfer in flight, if any, ended well; another one may start. *)
Move ==
  /\ task # {}
  /\ ValidTask
  /\ Healthy
  /\ moved' = Settled
  /\ \/ bus' = {}
     \/ \E t \in task, m \in Mats \ Settled, ok \in BOOLEAN :
          /\ m = "C" => {"A", "B"} \subseteq Settled
          /\ bus' = {[mat |-> m, addr |-> t.ptr[m], ok |-> ok]}
  /\ status' = {"BUSY"}
  /\ UNCHANGED <<cfg, task, pending>>

End(result) ==
  /\ status' = {"IDLE", result}
  /\ task' = {}
  /\ moved' = {}
  /\ bus' = {}
  /\ UNCHANGED cfg

Succeed ==
  /\ task # {}
  /\ Healthy
  /\ Settled = Mats
  /\ End("DONE")
  /\ pending' = TRUE

Fail ==
  /\ task # {}
  /\ ~ValidTask \/ ~Healthy
  /\ End("ERROR")
  /\ UNCHANGED pending

Next == \/ Configure \/ Reset \/ Start \/ Acknowledge
        \/ Move \/ Succeed \/ Fail

Safety == Init /\ [][Next]_vars

(* A started task ends. *)
Liveness == WF_vars(Move \/ Succeed \/ Fail)
=============================================================================
