------------------------- MODULE MatrixDeviceProofs -------------------------
(***************************************************************************)
(* Proofs of the safety properties of MatrixDevice, for every MAX_N, every *)
(* set of dimensions and every set of words.  Each step lemma has one case *)
(* per action; the lemmas about hosts and about the device are combined in *)
(* the theorems.  Then the refinement: under a disciplined host every step *)
(* of MatrixDevice is a step of Accelerator or changes nothing Accelerator *)
(* shows.  Liveness is left to TLC.                                        *)
(***************************************************************************)
EXTENDS MatrixDeviceImpl, TLAPS

-----------------------------------------------------------------------------
(***************************************************************************)
(* Inductive invariants behind the safety properties.                      *)
(***************************************************************************)

(* What each thread can be waiting for, and where; for every host. *)
Inv ==
  /\ TypeOK
  /\ sched["compute"] \in IF compute_pc = "start" THEN {"event", "runnable"}
                                                  ELSE {"timed", "runnable"}
  /\ sched["irq"] \in {"event", "runnable"}
  /\ sched["host"] \in {"timed", "runnable", "running"}
  /\ compute_pc = "start" => "IDLE" \in reg_status /\ dma = NoDma
  /\ compute_pc # "start" => job.n \in 1..MAX_N /\ job.row < job.n
  /\ IrqDormant
  /\ ~irq_started => ~interrupt_new

(* For hosts that reset a quiet device only. *)
QuietInv ==
  /\ Inv
  /\ NoLostStart
  /\ NoStuckLine
  /\ compute_pc # "start" => reg_status = {"BUSY"}

(* For hosts that enable interrupts before START: whatever leads to the    *)
(* first completion, interrupt_controller has run once before it.          *)
EnableInv ==
  /\ Inv
  /\ NoLostInterrupt
  /\ ~irq_started =>
       /\ reg_int_status = {}
       /\ computation_requested \/ compute_pc # "start" =>
            sched["irq"] = "runnable"
       /\ compute_pc # "start" => sched["compute"] = "timed"

-----------------------------------------------------------------------------
USE DEF config, intregs, locals, line, Threads, BusyStatus

(* The initial state satisfies all three inductive invariants. *)
LEMMA InitInv == Init => QuietInv /\ EnableInv
<1> SUFFICES ASSUME Init PROVE QuietInv /\ EnableInv
  OBVIOUS
<1>1. TypeOK
  BY DeviceAssumption, Zenon
  DEF Init, TypeOK, Ptrs, NullPtr, NoDma, NoJob, Mats, IntBits, CtrlBits
<1> QED
  BY <1>1
  DEF Init, QuietInv, EnableInv, Inv, IrqDormant, NoLostStart, NoStuckLine,
      NoLostInterrupt, IrqLevel, NoDma

-----------------------------------------------------------------------------
(* A host access preserves the type invariant. *)
LEMMA HostType ==
  ASSUME TypeOK, NEW after \in {"timed", "running"},
         HostAccess(SUBSET CtrlBits, after)
  PROVE  TypeOK'
<1>1. ASSUME NEW len \in Lens, NEW bits \in SUBSET CtrlBits,
             WriteControl(len, bits, after)
      PROVE  TypeOK'
  BY <1>1, DeviceAssumption
  DEF WriteControl, AcceptsStart, Value32, Notify, TypeOK, Ptrs, NullPtr
<1>2. ASSUME NEW len \in Lens, NEW n \in Dims,
             WriteDimN(len, n, after)
      PROVE  TypeOK'
  BY <1>2, DeviceAssumption
  DEF WriteDimN, Value32, TypeOK
<1>3. ASSUME NEW len \in Lens, NEW m \in Mats, NEW ptr \in Ptrs,
             WritePtr(m, len, ptr, after)
      PROVE  TypeOK'
  BY <1>3
  DEF WritePtr, TypeOK, Ptrs
<1>4. ASSUME NEW len \in Lens, NEW m \in Mats, NEW word \in Words,
             WritePtrHigh(m, len, word, after)
      PROVE  TypeOK'
  BY <1>4, DeviceAssumption
  DEF WritePtrHigh, Value32, TypeOK, Ptrs
<1>5. ASSUME NEW len \in Lens, NEW bits \in SUBSET IntBits,
             WriteIntStatus(len, bits, after)
      PROVE  TypeOK'
  BY <1>5
  DEF WriteIntStatus, Value32, update_interrupt, Notify, TypeOK, IntBits
<1>6. ASSUME NEW len \in Lens, NEW bits \in SUBSET IntBits,
             WriteIntEnable(len, bits, after)
      PROVE  TypeOK'
  BY <1>6
  DEF WriteIntEnable, Value32, update_interrupt, Notify, TypeOK, IntBits
<1>7. CASE NoEffect(after)
  BY <1>7
  DEF NoEffect, TypeOK
<1> QED
  BY <1>1, <1>2, <1>3, <1>4, <1>5, <1>6, <1>7
  DEF HostAccess, ConfigWrite, AckWrite

(* A step of the device or the kernel preserves the type invariant. *)
LEMMA DeviceType ==
  ASSUME TypeOK, Device
  PROVE  TypeOK'
<1>1. CASE ComputeSpurious
  BY <1>1
  DEF ComputeSpurious, ComputeAt, Runs, TypeOK
<1>2. CASE ComputeReject
  BY <1>2, DeviceAssumption, Zenon
  DEF ComputeReject, ComputeAt, Runs, ValidDim, Finish, Result,
      update_interrupt, Notify, TypeOK, NoDma, NoJob, Ptrs, NullPtr
<1>3. CASE ComputeBegin
  <2>1. job' \in [n : Nat, row : Nat]
    BY <1>3, DeviceAssumption DEF ComputeBegin, TypeOK
  <2>2. dma' \in [mat : Mats \cup {"none"}, addr : Ptrs, ok : BOOLEAN]
    BY <1>3 DEF ComputeBegin, IssueDma, TypeOK, Mats
  <2> QED
    BY <1>3, <2>1, <2>2, Zenon
    DEF ComputeBegin, ComputeAt, Runs, IssueDma, TypeOK
<1>4. CASE ComputeReadB
  BY <1>4
  DEF ComputeReadB, ComputeAt, Runs, IssueDma, TypeOK, Mats
<1>5. CASE ComputeFirstRow
  BY <1>5, DeviceAssumption
  DEF ComputeFirstRow, ComputeAt, Runs, TypeOK, NoDma, Ptrs, NullPtr
<1>6. CASE ComputeNextRow
  BY <1>6
  DEF ComputeNextRow, ComputeAt, Runs, TypeOK
<1>7. CASE ComputeWriteC
  BY <1>7
  DEF ComputeWriteC, ComputeAt, Runs, IssueDma, TypeOK, Mats
<1>8. CASE ComputeDone
  BY <1>8, DeviceAssumption
  DEF ComputeDone, ComputeAt, Runs, Finish, Result, update_interrupt, Notify,
      TypeOK, NoDma, NoJob, Ptrs, NullPtr
<1>9. CASE ComputeDmaError
  BY <1>9, DeviceAssumption
  DEF ComputeDmaError, Runs, Finish, Result, update_interrupt, Notify,
      TypeOK, NoDma, NoJob, Ptrs, NullPtr
<1>10. CASE IrqFirstRun
  BY <1>10
  DEF IrqFirstRun, Runs, TypeOK
<1>11. CASE IrqUpdate
  BY <1>11
  DEF IrqUpdate, Runs, IrqLevel, TypeOK
<1>12. CASE UpdatePhase
  BY <1>12
  DEF UpdatePhase, TypeOK
<1>13. ASSUME NEW woken \in SUBSET Threads, AdvanceTime(woken)
       PROVE  TypeOK'
  BY <1>13
  DEF AdvanceTime, TypeOK
<1> QED
  BY <1>1, <1>2, <1>3, <1>4, <1>5, <1>6, <1>7,
     <1>8, <1>9, <1>10, <1>11, <1>12, <1>13
  DEF Device, Compute, Irq, Kernel

-----------------------------------------------------------------------------
(* A host access preserves Inv. *)
LEMMA HostInv ==
  ASSUME Inv, NEW after \in {"timed", "running"},
         HostAccess(SUBSET CtrlBits, after)
  PROVE  Inv'
<1>0. TypeOK'
  BY HostType DEF Inv
<1>1. ASSUME NEW len \in Lens, NEW bits \in SUBSET CtrlBits,
             WriteControl(len, bits, after)
      PROVE  Inv'
  BY <1>1, <1>0, Zenon
  DEF WriteControl, AcceptsStart, Value32, Notify, Inv, IrqDormant, TypeOK
<1>2. ASSUME NEW len \in Lens, NEW n \in Dims,
             WriteDimN(len, n, after)
      PROVE  Inv'
  BY <1>2, <1>0
  DEF WriteDimN, Value32, Inv, IrqDormant, TypeOK
<1>3. ASSUME NEW len \in Lens, NEW m \in Mats, NEW ptr \in Ptrs,
             WritePtr(m, len, ptr, after)
      PROVE  Inv'
  BY <1>3, <1>0
  DEF WritePtr, Inv, IrqDormant, TypeOK
<1>4. ASSUME NEW len \in Lens, NEW m \in Mats, NEW word \in Words,
             WritePtrHigh(m, len, word, after)
      PROVE  Inv'
  BY <1>4, <1>0
  DEF WritePtrHigh, Value32, Inv, IrqDormant, TypeOK
<1>5. ASSUME NEW len \in Lens, NEW bits \in SUBSET IntBits,
             WriteIntStatus(len, bits, after)
      PROVE  Inv'
  BY <1>5, <1>0
  DEF WriteIntStatus, Value32, update_interrupt, Notify, Inv, IrqDormant,
      TypeOK
<1>6. ASSUME NEW len \in Lens, NEW bits \in SUBSET IntBits,
             WriteIntEnable(len, bits, after)
      PROVE  Inv'
  BY <1>6, <1>0
  DEF WriteIntEnable, Value32, update_interrupt, Notify, Inv, IrqDormant,
      TypeOK
<1>7. CASE NoEffect(after)
  BY <1>7, <1>0
  DEF NoEffect, Inv, IrqDormant, TypeOK
<1> QED
  BY <1>1, <1>2, <1>3, <1>4, <1>5, <1>6, <1>7
  DEF HostAccess, ConfigWrite, AckWrite

(* A step of the device or the kernel preserves Inv. *)
LEMMA DeviceInv ==
  ASSUME Inv, Device
  PROVE  Inv'
<1>0. TypeOK'
  BY DeviceType DEF Inv
<1>1. CASE ComputeSpurious
  BY <1>1, <1>0
  DEF ComputeSpurious, ComputeAt, Runs, Inv, IrqDormant, TypeOK, NoDma
<1>2. CASE ComputeReject
  BY <1>2, <1>0
  DEF ComputeReject, ComputeAt, Runs, ValidDim, Finish, Result,
      update_interrupt, Notify, Inv, IrqDormant, TypeOK, NoDma
<1>3. CASE ComputeBegin
  BY <1>3, <1>0
  DEF ComputeBegin, ComputeAt, Runs, ValidDim, IssueDma, Inv, IrqDormant,
      TypeOK, NoDma
<1>4. CASE ComputeReadB
  BY <1>4, <1>0
  DEF ComputeReadB, ComputeAt, Runs, IssueDma, Inv, IrqDormant, TypeOK, NoDma
<1>5. CASE ComputeFirstRow
  BY <1>5, <1>0
  DEF ComputeFirstRow, ComputeAt, Runs, Inv, IrqDormant, TypeOK, NoDma
<1>6. CASE ComputeNextRow
  BY <1>6, <1>0
  DEF ComputeNextRow, ComputeAt, Runs, Inv, IrqDormant, TypeOK, NoDma
<1>7. CASE ComputeWriteC
  BY <1>7, <1>0
  DEF ComputeWriteC, ComputeAt, Runs, IssueDma, Inv, IrqDormant, TypeOK,
      NoDma
<1>8. CASE ComputeDone
  BY <1>8, <1>0
  DEF ComputeDone, ComputeAt, Runs, Finish, Result, update_interrupt, Notify,
      Inv, IrqDormant, TypeOK, NoDma
<1>9. CASE ComputeDmaError
  BY <1>9, <1>0
  DEF ComputeDmaError, Runs, Finish, Result, update_interrupt, Notify, Inv,
      IrqDormant, TypeOK, NoDma
<1>10. CASE IrqFirstRun
  BY <1>10, <1>0
  DEF IrqFirstRun, Runs, Inv, IrqDormant, TypeOK, NoDma
<1>11. CASE IrqUpdate
  BY <1>11, <1>0
  DEF IrqUpdate, Runs, IrqLevel, Inv, IrqDormant, TypeOK, NoDma
<1>12. CASE UpdatePhase
  BY <1>12, <1>0
  DEF UpdatePhase, Inv, IrqDormant, TypeOK, NoDma
<1>13. ASSUME NEW woken \in SUBSET Threads, AdvanceTime(woken)
       PROVE  Inv'
  BY <1>13, <1>0
  DEF AdvanceTime, EvaluationDone, Inv, IrqDormant, TypeOK, NoDma
<1> QED
  BY <1>1, <1>2, <1>3, <1>4, <1>5, <1>6, <1>7,
     <1>8, <1>9, <1>10, <1>11, <1>12, <1>13
  DEF Device, Compute, Irq, Kernel

-----------------------------------------------------------------------------
(* An access of a host that resets a quiet device only preserves QuietInv. *)
LEMMA HostQuiet ==
  ASSUME QuietInv, NEW after \in {"timed", "running"},
         HostAccess(CtrlQuietReset, after)
  PROVE  QuietInv'
<1>0. Inv'
  <2>1. CtrlQuietReset \subseteq SUBSET CtrlBits
    BY DEF CtrlQuietReset, CtrlBits
  <2>2. HostAccess(SUBSET CtrlBits, after)
    BY <2>1 DEF HostAccess, ConfigWrite
  <2> QED
    BY <2>2, HostInv DEF QuietInv
<1>1. ASSUME NEW len \in Lens, NEW bits \in CtrlQuietReset,
             WriteControl(len, bits, after)
      PROVE  QuietInv'
  BY <1>1, <1>0
  DEF WriteControl, AcceptsStart, Value32, Notify, QuietInv, Inv,
      NoLostStart, NoStuckLine, IrqLevel, TypeOK, CtrlQuietReset
<1>2. ASSUME NEW len \in Lens, NEW n \in Dims,
             WriteDimN(len, n, after)
      PROVE  QuietInv'
  BY <1>2, <1>0
  DEF WriteDimN, Value32, QuietInv, Inv, NoLostStart, NoStuckLine, IrqLevel,
      TypeOK
<1>3. ASSUME NEW len \in Lens, NEW m \in Mats, NEW ptr \in Ptrs,
             WritePtr(m, len, ptr, after)
      PROVE  QuietInv'
  BY <1>3, <1>0
  DEF WritePtr, QuietInv, Inv, NoLostStart, NoStuckLine, IrqLevel, TypeOK
<1>4. ASSUME NEW len \in Lens, NEW m \in Mats, NEW word \in Words,
             WritePtrHigh(m, len, word, after)
      PROVE  QuietInv'
  BY <1>4, <1>0
  DEF WritePtrHigh, Value32, QuietInv, Inv, NoLostStart, NoStuckLine,
      IrqLevel, TypeOK
<1>5. ASSUME NEW len \in Lens, NEW bits \in SUBSET IntBits,
             WriteIntStatus(len, bits, after)
      PROVE  QuietInv'
  BY <1>5, <1>0
  DEF WriteIntStatus, Value32, update_interrupt, Notify, QuietInv, Inv,
      NoLostStart, NoStuckLine, IrqLevel, TypeOK
<1>6. ASSUME NEW len \in Lens, NEW bits \in SUBSET IntBits,
             WriteIntEnable(len, bits, after)
      PROVE  QuietInv'
  BY <1>6, <1>0
  DEF WriteIntEnable, Value32, update_interrupt, Notify, QuietInv, Inv,
      NoLostStart, NoStuckLine, IrqLevel, TypeOK
<1>7. CASE NoEffect(after)
  BY <1>7, <1>0
  DEF NoEffect, QuietInv, Inv, NoLostStart, NoStuckLine, IrqLevel, TypeOK
<1> QED
  BY <1>1, <1>2, <1>3, <1>4, <1>5, <1>6, <1>7
  DEF HostAccess, ConfigWrite, AckWrite

(* A step of the device or the kernel preserves QuietInv. *)
LEMMA DeviceQuiet ==
  ASSUME QuietInv, Device
  PROVE  QuietInv'
<1>0. Inv'
  BY DeviceInv DEF QuietInv
<1>1. CASE ComputeSpurious
  BY <1>1, <1>0
  DEF ComputeSpurious, ComputeAt, Runs, QuietInv, Inv, NoLostStart,
      NoStuckLine, IrqLevel, TypeOK
<1>2. CASE ComputeReject
  BY <1>2, <1>0
  DEF ComputeReject, ComputeAt, Runs, ValidDim, Finish, Result,
      update_interrupt, Notify, QuietInv, Inv, NoLostStart, NoStuckLine,
      IrqLevel, TypeOK
<1>3. CASE ComputeBegin
  BY <1>3, <1>0
  DEF ComputeBegin, ComputeAt, Runs, ValidDim, IssueDma, QuietInv, Inv,
      NoLostStart, NoStuckLine, IrqLevel, TypeOK
<1>4. CASE ComputeReadB
  BY <1>4, <1>0
  DEF ComputeReadB, ComputeAt, Runs, IssueDma, QuietInv, Inv, NoLostStart,
      NoStuckLine, IrqLevel, TypeOK
<1>5. CASE ComputeFirstRow
  BY <1>5, <1>0
  DEF ComputeFirstRow, ComputeAt, Runs, QuietInv, Inv, NoLostStart,
      NoStuckLine, IrqLevel, TypeOK
<1>6. CASE ComputeNextRow
  BY <1>6, <1>0
  DEF ComputeNextRow, ComputeAt, Runs, QuietInv, Inv, NoLostStart,
      NoStuckLine, IrqLevel, TypeOK
<1>7. CASE ComputeWriteC
  BY <1>7, <1>0
  DEF ComputeWriteC, ComputeAt, Runs, IssueDma, QuietInv, Inv, NoLostStart,
      NoStuckLine, IrqLevel, TypeOK
<1>8. CASE ComputeDone
  BY <1>8, <1>0
  DEF ComputeDone, ComputeAt, Runs, Finish, Result, update_interrupt, Notify,
      QuietInv, Inv, NoLostStart, NoStuckLine, IrqLevel, TypeOK
<1>9. CASE ComputeDmaError
  BY <1>9, <1>0
  DEF ComputeDmaError, Runs, Finish, Result, update_interrupt, Notify,
      QuietInv, Inv, NoLostStart, NoStuckLine, IrqLevel, TypeOK
<1>10. CASE IrqFirstRun
  BY <1>10, <1>0
  DEF IrqFirstRun, Runs, QuietInv, Inv, NoLostStart, NoStuckLine, IrqLevel,
      TypeOK
<1>11. CASE IrqUpdate
  BY <1>11, <1>0, Zenon
  DEF IrqUpdate, Runs, IrqLevel, QuietInv, Inv, NoLostStart, NoStuckLine,
      IrqLevel, TypeOK
<1>12. CASE UpdatePhase
  BY <1>12, <1>0
  DEF UpdatePhase, QuietInv, Inv, NoLostStart, NoStuckLine, IrqLevel, TypeOK
<1>13. ASSUME NEW woken \in SUBSET Threads, AdvanceTime(woken)
       PROVE  QuietInv'
  BY <1>13, <1>0
  DEF AdvanceTime, EvaluationDone, QuietInv, Inv, NoLostStart, NoStuckLine,
      IrqLevel, TypeOK
<1> QED
  BY <1>1, <1>2, <1>3, <1>4, <1>5, <1>6, <1>7,
     <1>8, <1>9, <1>10, <1>11, <1>12, <1>13
  DEF Device, Compute, Irq, Kernel

-----------------------------------------------------------------------------
(* An access of a host that enables interrupts before START preserves EnableInv. *)
LEMMA HostEnable ==
  ASSUME EnableInv, NEW after \in {"timed", "running"},
         HostAccess(CtrlEnabled, after)
  PROVE  EnableInv'
<1>0. Inv'
  <2>1. CtrlEnabled \subseteq SUBSET CtrlBits
    BY DEF CtrlEnabled, CtrlBits
  <2>2. HostAccess(SUBSET CtrlBits, after)
    BY <2>1 DEF HostAccess, ConfigWrite
  <2> QED
    BY <2>2, HostInv DEF EnableInv
<1>1. ASSUME NEW len \in Lens, NEW bits \in CtrlEnabled,
             WriteControl(len, bits, after)
      PROVE  EnableInv'
  <2>1. /\ sched'["irq"] = sched["irq"]
        /\ sched'["compute"] \in {sched["compute"], "runnable"}
        /\ sched["compute"] # "event" => sched'["compute"] = sched["compute"]
    BY <1>1 DEF WriteControl, Notify, EnableInv, Inv, TypeOK
  <2>2. /\ reg_int_status' \in {reg_int_status, {}}
        /\ reg_int_status' = {} \/ reg_int_enable' = reg_int_enable
        /\ UNCHANGED <<compute_pc, irq_started, interrupt_new>>
    BY <1>1 DEF WriteControl
  <2>3. NoLostInterrupt'
    BY <2>1, <2>2 DEF EnableInv, NoLostInterrupt, IrqLevel
  <2>4. computation_requested' =>
          computation_requested \/ reg_int_enable # {}
    BY <1>1, Zenon DEF WriteControl, Value32, CtrlEnabled
  <2>5. ~irq_started /\ reg_int_enable # {} => sched["irq"] = "runnable"
    BY DEF EnableInv, Inv, IrqDormant
  <2> QED
    BY <1>0, <2>1, <2>2, <2>3, <2>4, <2>5 DEF EnableInv, Inv
<1>2. ASSUME NEW len \in Lens, NEW n \in Dims,
             WriteDimN(len, n, after)
      PROVE  EnableInv'
  BY <1>2, <1>0
  DEF WriteDimN, Value32, EnableInv, Inv, NoLostInterrupt, IrqDormant,
      IrqLevel, TypeOK
<1>3. ASSUME NEW len \in Lens, NEW m \in Mats, NEW ptr \in Ptrs,
             WritePtr(m, len, ptr, after)
      PROVE  EnableInv'
  BY <1>3, <1>0
  DEF WritePtr, EnableInv, Inv, NoLostInterrupt, IrqDormant, IrqLevel, TypeOK
<1>4. ASSUME NEW len \in Lens, NEW m \in Mats, NEW word \in Words,
             WritePtrHigh(m, len, word, after)
      PROVE  EnableInv'
  BY <1>4, <1>0
  DEF WritePtrHigh, Value32, EnableInv, Inv, NoLostInterrupt, IrqDormant,
      IrqLevel, TypeOK
<1>5. ASSUME NEW len \in Lens, NEW bits \in SUBSET IntBits,
             WriteIntStatus(len, bits, after)
      PROVE  EnableInv'
  BY <1>5, <1>0
  DEF WriteIntStatus, Value32, update_interrupt, Notify, EnableInv, Inv,
      NoLostInterrupt, IrqDormant, IrqLevel, TypeOK
<1>6. ASSUME NEW len \in Lens, NEW bits \in SUBSET IntBits,
             WriteIntEnable(len, bits, after)
      PROVE  EnableInv'
  BY <1>6, <1>0
  DEF WriteIntEnable, Value32, update_interrupt, Notify, EnableInv, Inv,
      NoLostInterrupt, IrqDormant, IrqLevel, TypeOK
<1>7. CASE NoEffect(after)
  BY <1>7, <1>0
  DEF NoEffect, EnableInv, Inv, NoLostInterrupt, IrqDormant, IrqLevel, TypeOK
<1> QED
  BY <1>1, <1>2, <1>3, <1>4, <1>5, <1>6, <1>7
  DEF HostAccess, ConfigWrite, AckWrite

(* A step of the device or the kernel preserves EnableInv. *)
LEMMA DeviceEnable ==
  ASSUME EnableInv, Device
  PROVE  EnableInv'
<1>0. Inv'
  BY DeviceInv DEF EnableInv
<1>1. CASE ComputeSpurious
  BY <1>1, <1>0
  DEF ComputeSpurious, ComputeAt, Runs, EnableInv, Inv, NoLostInterrupt,
      IrqDormant, IrqLevel, TypeOK
<1>2. CASE ComputeReject
  BY <1>2, <1>0
  DEF ComputeReject, ComputeAt, Runs, ValidDim, Finish, Result,
      update_interrupt, Notify, EnableInv, Inv, NoLostInterrupt, IrqDormant,
      IrqLevel, TypeOK
<1>3. CASE ComputeBegin
  BY <1>3, <1>0
  DEF ComputeBegin, ComputeAt, Runs, ValidDim, IssueDma, EnableInv, Inv,
      NoLostInterrupt, IrqDormant, IrqLevel, TypeOK
<1>4. CASE ComputeReadB
  BY <1>4, <1>0
  DEF ComputeReadB, ComputeAt, Runs, IssueDma, EnableInv, Inv,
      NoLostInterrupt, IrqDormant, IrqLevel, TypeOK
<1>5. CASE ComputeFirstRow
  BY <1>5, <1>0
  DEF ComputeFirstRow, ComputeAt, Runs, EnableInv, Inv, NoLostInterrupt,
      IrqDormant, IrqLevel, TypeOK
<1>6. CASE ComputeNextRow
  BY <1>6, <1>0
  DEF ComputeNextRow, ComputeAt, Runs, EnableInv, Inv, NoLostInterrupt,
      IrqDormant, IrqLevel, TypeOK
<1>7. CASE ComputeWriteC
  BY <1>7, <1>0
  DEF ComputeWriteC, ComputeAt, Runs, IssueDma, EnableInv, Inv,
      NoLostInterrupt, IrqDormant, IrqLevel, TypeOK
<1>8. CASE ComputeDone
  BY <1>8, <1>0
  DEF ComputeDone, ComputeAt, Runs, Finish, Result, update_interrupt, Notify,
      EnableInv, Inv, NoLostInterrupt, IrqDormant, IrqLevel, TypeOK
<1>9. CASE ComputeDmaError
  BY <1>9, <1>0
  DEF ComputeDmaError, Runs, Finish, Result, update_interrupt, Notify,
      EnableInv, Inv, NoLostInterrupt, IrqDormant, IrqLevel, TypeOK
<1>10. CASE IrqFirstRun
  BY <1>10, <1>0, Zenon
  DEF IrqFirstRun, Runs, EnableInv, Inv, NoLostInterrupt, IrqDormant,
      IrqLevel, TypeOK
<1>11. CASE IrqUpdate
  BY <1>11, <1>0, Zenon
  DEF IrqUpdate, Runs, IrqLevel, EnableInv, Inv, NoLostInterrupt, IrqDormant,
      IrqLevel, TypeOK
<1>12. CASE UpdatePhase
  BY <1>12, <1>0
  DEF UpdatePhase, EnableInv, Inv, NoLostInterrupt, IrqDormant, IrqLevel,
      TypeOK
<1>13. ASSUME NEW woken \in SUBSET Threads, AdvanceTime(woken)
       PROVE  EnableInv'
  BY <1>13, <1>0
  DEF AdvanceTime, EvaluationDone, EnableInv, Inv, NoLostInterrupt,
      IrqDormant, IrqLevel, TypeOK
<1> QED
  BY <1>1, <1>2, <1>3, <1>4, <1>5, <1>6, <1>7,
     <1>8, <1>9, <1>10, <1>11, <1>12, <1>13
  DEF Device, Compute, Irq, Kernel

-----------------------------------------------------------------------------
(* Under every host the registers keep their types, BUSY means a sound job is
   under way, and interrupt_controller is dormant only before any update. *)
THEOREM SafeForEveryHost == Spec => [](TypeOK /\ BusyJobSound /\ IrqDormant)
<1>1. Init => Inv
  BY InitInv DEF QuietInv
<1>2. Inv /\ [Next]_vars => Inv'
  <2> SUFFICES ASSUME Inv, [Next]_vars PROVE Inv'
    OBVIOUS
  <2>1. CASE UNCHANGED vars
    BY <2>1 DEF vars, Inv, IrqDormant, TypeOK
  <2>2. CASE Next
    BY <2>2, HostInv, DeviceInv DEF Next
  <2> QED
    BY <2>1, <2>2
<1>3. Inv => TypeOK /\ BusyJobSound /\ IrqDormant
  BY DEF Inv, TypeOK, BusyJobSound
<1> QED
  BY <1>1, <1>2, <1>3, PTL DEF Spec

(* Hosts that reset a quiet device only lose no START, see no DMA after IDLE
   and are left with no stuck line. *)
THEOREM QuietResetSafe == QuietResetSpec => [](NoLostStart /\ IdleMeansNoDma /\ NoStuckLine)
<1>1. Init => QuietInv
  BY InitInv DEF QuietInv
<1>2. QuietInv /\ [NextQuietReset]_vars => QuietInv'
  <2> SUFFICES ASSUME QuietInv, [NextQuietReset]_vars PROVE QuietInv'
    OBVIOUS
  <2>1. CASE UNCHANGED vars
    BY <2>1 DEF vars, QuietInv, Inv, NoLostStart, NoStuckLine, IrqLevel, TypeOK, IrqDormant
  <2>2. CASE NextQuietReset
    BY <2>2, HostQuiet, DeviceQuiet DEF NextQuietReset
  <2> QED
    BY <2>1, <2>2
<1>3. QuietInv => NoLostStart /\ IdleMeansNoDma /\ NoStuckLine
  BY DEF QuietInv, Inv, TypeOK, IdleMeansNoDma
<1> QED
  BY <1>1, <1>2, <1>3, PTL DEF QuietResetSpec

(* Hosts that enable interrupts before START lose no interrupt. *)
THEOREM EnableFirstSafe == EnableFirstSpec => [](NoLostInterrupt)
<1>1. Init => EnableInv
  BY InitInv DEF QuietInv
<1>2. EnableInv /\ [NextEnableFirst]_vars => EnableInv'
  <2> SUFFICES ASSUME EnableInv, [NextEnableFirst]_vars PROVE EnableInv'
    OBVIOUS
  <2>1. CASE UNCHANGED vars
    BY <2>1 DEF vars, EnableInv, Inv, NoLostInterrupt, IrqDormant, IrqLevel, TypeOK
  <2>2. CASE NextEnableFirst
    BY <2>2, HostEnable, DeviceEnable DEF NextEnableFirst
  <2> QED
    BY <2>1, <2>2
<1>3. EnableInv => NoLostInterrupt
  BY DEF EnableInv
<1> QED
  BY <1>1, <1>2, <1>3, PTL DEF EnableFirstSpec

-----------------------------------------------------------------------------
(* The registers and the state of the threads keep their types, for every
   host, dimension and word. *)
THEOREM DeviceTypeOK == Spec => []TypeOK
BY SafeForEveryHost, PTL

(* BUSY always means that compute_thread is inside a sound job. *)
THEOREM BusyJobsSound == Spec => []BusyJobSound
BY SafeForEveryHost, PTL

(* The update that dont_initialize() swallows is always the first one. *)
THEOREM DormantBeforeUpdates == Spec => []IrqDormant
BY SafeForEveryHost, PTL

(* No START is lost by a host that resets a quiet device only. *)
THEOREM NoStartLost == QuietResetSpec => []NoLostStart
BY QuietResetSafe, PTL

(* Such a host sees no transfer after IDLE. *)
THEOREM NoDmaAfterIdle == QuietResetSpec => []IdleMeansNoDma
BY QuietResetSafe, PTL

(* Such a host is not left with a line that interrupt_controller forgot. *)
THEOREM LineNeverStuck == QuietResetSpec => []NoStuckLine
BY QuietResetSafe, PTL

-----------------------------------------------------------------------------
(* A disciplined host has no control from START until compute_thread has   *)
(* set BUSY, so it never configures a device that has a task; the transfer *)
(* in flight is the one compute_thread waits for.                          *)
DiscInv ==
  /\ Inv
  /\ sched["host"] # "running"
  /\ computation_requested =>
       /\ compute_pc = "start"
       /\ sched["compute"] = "runnable"
       /\ sched["host"] = "timed"
  /\ compute_pc # "start" => reg_status = {"BUSY"}
  /\ compute_pc = "dma_a" => dma.mat = "A"
  /\ compute_pc = "dma_b" => dma.mat = "B"
  /\ compute_pc = "dma_c" => dma.mat = "C"
  /\ compute_pc = "row" => dma = NoDma

-----------------------------------------------------------------------------
(* A host with control that sees IDLE sees a device without a task. *)
LEMMA IdleControl ==
  ASSUME DiscInv, HostHasControl, "IDLE" \in reg_status
  PROVE  ~computation_requested /\ compute_pc = "start" /\ dma = NoDma
BY DEF DiscInv, Inv, HostHasControl

(* Every step of a disciplined host is a step of some host. *)
LEMMA DisciplinedNext == ASSUME NextDisciplined PROVE Next
BY DEF NextDisciplined, Next, HostAccess

(* A configuring write preserves DiscInv. *)
LEMMA ConfigDisc ==
  ASSUME DiscInv, Inv', "IDLE" \in reg_status,
         ConfigWrite(SUBSET CtrlBits, "timed")
  PROVE  DiscInv'
<1>1. ASSUME NEW len \in Lens, NEW bits \in SUBSET CtrlBits,
             WriteControl(len, bits, "timed")
      PROVE  DiscInv'
  <2>1. ~computation_requested /\ compute_pc = "start" /\ dma = NoDma
    BY <1>1, IdleControl DEF WriteControl
  <2>2. sched["compute"] \in {"event", "runnable"} /\ sched \in [Threads -> {"event", "timed", "runnable", "running"}]
    BY <2>1 DEF DiscInv, Inv, TypeOK
  <2> QED
    BY <1>1, <2>1, <2>2, Zenon
    DEF WriteControl, AcceptsStart, Value32, Notify, DiscInv
<1>2. ASSUME NEW len \in Lens, NEW n \in Dims, WriteDimN(len, n, "timed")
      PROVE  DiscInv'
  BY <1>2 DEF WriteDimN, DiscInv, Inv, TypeOK
<1>3. ASSUME NEW len \in Lens, NEW m \in Mats, NEW ptr \in Ptrs,
             WritePtr(m, len, ptr, "timed")
      PROVE  DiscInv'
  BY <1>3 DEF WritePtr, DiscInv, Inv, TypeOK
<1>4. ASSUME NEW len \in Lens, NEW m \in Mats, NEW word \in Words,
             WritePtrHigh(m, len, word, "timed")
      PROVE  DiscInv'
  BY <1>4 DEF WritePtrHigh, DiscInv, Inv, TypeOK
<1>5. ASSUME NEW len \in Lens, NEW bits \in SUBSET IntBits,
             WriteIntEnable(len, bits, "timed")
      PROVE  DiscInv'
  BY <1>5 DEF WriteIntEnable, update_interrupt, Notify, DiscInv, Inv, TypeOK
<1> QED
  BY <1>1, <1>2, <1>3, <1>4, <1>5 DEF ConfigWrite

(* A step of compute_thread preserves DiscInv. *)
LEMMA ComputeDisc ==
  ASSUME DiscInv, Inv', Compute
  PROVE  DiscInv'
<1>1. CASE ComputeSpurious
  BY <1>1 DEF ComputeSpurious, ComputeAt, Runs, DiscInv, Inv, TypeOK
<1>2. CASE ComputeReject
  BY <1>2, Zenon DEF ComputeReject, ComputeAt, Runs, Finish, update_interrupt, Notify,
              DiscInv, Inv, TypeOK
<1>3. CASE ComputeBegin
  BY <1>3 DEF ComputeBegin, ComputeAt, Runs, IssueDma, DiscInv, Inv, TypeOK
<1>4. CASE ComputeReadB
  BY <1>4 DEF ComputeReadB, ComputeAt, Runs, IssueDma, DiscInv, Inv, TypeOK
<1>5. CASE ComputeFirstRow
  BY <1>5 DEF ComputeFirstRow, ComputeAt, Runs, DiscInv, Inv, TypeOK
<1>6. CASE ComputeNextRow
  BY <1>6 DEF ComputeNextRow, ComputeAt, Runs, DiscInv, Inv, TypeOK
<1>7. CASE ComputeWriteC
  BY <1>7 DEF ComputeWriteC, ComputeAt, Runs, IssueDma, DiscInv, Inv, TypeOK
<1>8. CASE ComputeDone
  BY <1>8, Zenon DEF ComputeDone, ComputeAt, Runs, Finish, update_interrupt, Notify,
              DiscInv, Inv, TypeOK
<1>9. CASE ComputeDmaError
  BY <1>9, Zenon DEF ComputeDmaError, Runs, Finish, update_interrupt, Notify, DiscInv,
              Inv, TypeOK
<1> QED
  BY <1>1, <1>2, <1>3, <1>4, <1>5, <1>6, <1>7, <1>8, <1>9 DEF Compute

(* Every step of the device under a disciplined host preserves DiscInv. *)
LEMMA DiscStep ==
  ASSUME DiscInv, [NextDisciplined]_vars
  PROVE  DiscInv'
<1>1. CASE UNCHANGED vars
  BY <1>1 DEF vars, DiscInv, Inv, IrqDormant, TypeOK
<1>2. CASE NextDisciplined
  <2>0. Inv'
    BY <1>2, DisciplinedNext, HostInv, DeviceInv DEF DiscInv, Next
  <2>1. CASE "IDLE" \in reg_status /\ ConfigWrite(SUBSET CtrlBits, "timed")
    BY <2>0, <2>1, ConfigDisc
  <2>2. CASE AckWrite("timed")
    BY <2>0, <2>2
    DEF AckWrite, WriteIntStatus, update_interrupt, Notify, DiscInv, Inv, TypeOK
  <2>3. CASE NoEffect("timed")
    BY <2>0, <2>3 DEF NoEffect, DiscInv, Inv, TypeOK
  <2>4. CASE Compute
    BY <2>0, <2>4, ComputeDisc
  <2>5. CASE IrqFirstRun
    BY <2>0, <2>5 DEF IrqFirstRun, Runs, DiscInv, Inv, TypeOK
  <2>6. CASE IrqUpdate
    BY <2>0, <2>6 DEF IrqUpdate, Runs, DiscInv, Inv, TypeOK
  <2>7. CASE UpdatePhase
    BY <2>0, <2>7 DEF UpdatePhase, DiscInv, Inv, TypeOK
  <2>8. ASSUME NEW woken \in SUBSET Threads, AdvanceTime(woken)
        PROVE  DiscInv'
    BY <2>0, <2>8 DEF AdvanceTime, EvaluationDone, DiscInv, Inv, TypeOK
  <2> QED
    BY <1>2, <2>1, <2>2, <2>3, <2>4, <2>5, <2>6, <2>7, <2>8
    DEF NextDisciplined, Device, Irq, Kernel
<1> QED
  BY <1>1, <1>2

-----------------------------------------------------------------------------
(* A configuring write is Configure, Reset or Start, or shows nothing. *)
LEMMA ConfigMaps ==
  ASSUME DiscInv, Inv', "IDLE" \in reg_status,
         ConfigWrite(SUBSET CtrlBits, "timed")
  PROVE  [Promise!Next]_(Promise!vars)
<1>0. reg_dim_n' \in Dims /\ reg_matrix_ptr' \in [Mats -> Ptrs]
  BY DEF Inv, TypeOK
<1>1. ASSUME NEW len \in Lens, NEW bits \in SUBSET CtrlBits,
             WriteControl(len, bits, "timed")
      PROVE  [Promise!Next]_(Promise!vars)
  <2>1. ~computation_requested /\ compute_pc = "start" /\ dma = NoDma
    BY <1>1, IdleControl DEF WriteControl
  <2>2. UNCHANGED <<compute_pc, job, dma>>
    BY <1>1 DEF WriteControl
  <2>3. CASE "RESET" \in Value32(len, bits, {})
    <3>1. /\ reg_status' = {"IDLE"} /\ reg_dim_n' = 0 /\ reg_int_status' = {}
          /\ reg_matrix_ptr' = [m \in Mats |-> NullPtr]
      BY <1>1, <2>3 DEF WriteControl
    <3> QED
      BY <2>1, <2>2, <3>1
      DEF Promise!Next, Promise!Reset, Promise!NullCfg, Promise!Mats, Mats,
          TaskOf, MovedOf
  <2>4. CASE "RESET" \notin Value32(len, bits, {})
    <3>1. UNCHANGED <<reg_status, reg_dim_n, reg_matrix_ptr, reg_int_status>>
      BY <1>1, <2>4 DEF WriteControl
    <3>2. CASE computation_requested'
      BY <2>1, <2>2, <3>1, <3>2
      DEF Promise!Next, Promise!Start, TaskOf, MovedOf
    <3>3. CASE ~computation_requested'
      BY <2>1, <2>2, <3>1, <3>3 DEF Promise!vars, TaskOf, MovedOf
    <3> QED
      BY <3>2, <3>3
  <2> QED
    BY <2>3, <2>4
<1>2. ASSUME ~computation_requested, compute_pc = "start",
             UNCHANGED <<reg_status, reg_int_status, computation_requested,
                         compute_pc, job, dma>>
      PROVE  [Promise!Next]_(Promise!vars)
  BY <1>0, <1>2
  DEF Promise!Next, Promise!Configure, Promise!Cfgs, Promise!Mats, Mats, TaskOf,
      MovedOf
<1>3. ASSUME NEW len \in Lens, NEW n \in Dims, WriteDimN(len, n, "timed")
      PROVE  [Promise!Next]_(Promise!vars)
  BY <1>2, <1>3, IdleControl DEF WriteDimN
<1>4. ASSUME NEW len \in Lens, NEW m \in Mats, NEW ptr \in Ptrs,
             WritePtr(m, len, ptr, "timed")
      PROVE  [Promise!Next]_(Promise!vars)
  BY <1>2, <1>4, IdleControl DEF WritePtr
<1>5. ASSUME NEW len \in Lens, NEW m \in Mats, NEW word \in Words,
             WritePtrHigh(m, len, word, "timed")
      PROVE  [Promise!Next]_(Promise!vars)
  BY <1>2, <1>5, IdleControl DEF WritePtrHigh
<1>6. ASSUME NEW len \in Lens, NEW bits \in SUBSET IntBits,
             WriteIntEnable(len, bits, "timed")
      PROVE  [Promise!Next]_(Promise!vars)
  BY <1>2, <1>6, IdleControl DEF WriteIntEnable
<1> QED
  BY <1>1, <1>3, <1>4, <1>5, <1>6 DEF ConfigWrite

(* While compute_thread waits for a transfer, that transfer is in flight. *)
LEMMA InFlight == ASSUME dma # NoDma PROVE {dma} \ {NoDma} = {dma}
OBVIOUS

(* No START is accepted while a job runs. *)
LEMMA NoNewRequest ==
  ASSUME DiscInv, compute_pc # "start" PROVE computation_requested = FALSE
BY DEF DiscInv, Inv, TypeOK

(* compute_thread issues a transfer of its task that is due: a Move. *)
LEMMA IssueMaps ==
  ASSUME NEW m \in Mats, NEW ok \in BOOLEAN,
         computation_requested \/ compute_pc # "start", TaskOf' = TaskOf,
         Promise!ValidTask, Promise!Healthy,
         MovedOf' = Promise!Settled, m \notin Promise!Settled,
         m = "C" => {"A", "B"} \subseteq Promise!Settled,
         dma' = [mat |-> m, addr |-> reg_matrix_ptr[m], ok |-> ok],
         reg_status' = {"BUSY"},
         UNCHANGED <<reg_dim_n, reg_matrix_ptr, reg_int_status>>
  PROVE  [Promise!Next]_(Promise!vars)
<1>1. PICK t \in TaskOf : t.ptr = reg_matrix_ptr
  BY Zenon DEF TaskOf
<1>2. dma' # NoDma
  BY DEF NoDma, Mats
<1>3. ({dma} \ {NoDma})' = {[mat |-> m, addr |-> t.ptr[m], ok |-> ok]}
  BY <1>1, <1>2
<1>4. Promise!Move
  BY <1>1, <1>3 DEF Promise!Move, Promise!Mats, Mats
<1> QED
  BY <1>4 DEF Promise!Next

(* A step of compute_thread is Move, Succeed or Fail, or shows nothing. *)
LEMMA ComputeMaps ==
  ASSUME DiscInv, Compute
  PROVE  [Promise!Next]_(Promise!vars)
<1> USE DEF TaskOf, MovedOf
<1>0. /\ reg_dim_n \in Nat
      /\ compute_pc # "start" => job.n \in 1..MAX_N
  BY DeviceAssumption DEF DiscInv, Inv, TypeOK
<1>1. CASE ComputeSpurious
  BY <1>1 DEF ComputeSpurious, Promise!vars
<1>2. CASE ComputeReject
  <2>1. compute_pc = "start" /\ computation_requested /\ reg_dim_n \notin 1..MAX_N
    BY <1>0, <1>2 DEF ComputeReject, ComputeAt, ValidDim
  <2> QED
    BY <1>2, <2>1, Zenon
    DEF ComputeReject, Finish, Result, Promise!Next, Promise!Fail, Promise!End,
        Promise!ValidTask
<1>3. CASE ComputeBegin
  <2>1. /\ compute_pc = "start" /\ computation_requested /\ dma = NoDma
        /\ reg_dim_n \in 1..MAX_N
    BY <1>0, <1>3, DeviceAssumption DEF ComputeBegin, ComputeAt, ValidDim, DiscInv, Inv
  <2>2. PICK ok \in BOOLEAN : dma' = [mat |-> "A", addr |-> reg_matrix_ptr["A"], ok |-> ok]
    BY <1>3 DEF ComputeBegin, IssueDma
  <2>3. Promise!Settled = {} /\ Promise!Healthy
    BY <2>1 DEF Promise!Settled, Promise!Healthy
  <2>4. Promise!ValidTask /\ TaskOf' = TaskOf /\ MovedOf' = {}
    BY <1>3, <2>1 DEF ComputeBegin, IssueDma, Promise!ValidTask
  <2> QED
    BY <1>3, <2>1, <2>2, <2>3, <2>4, IssueMaps, Zenon DEF ComputeBegin, Mats
<1>4. CASE ComputeReadB
  <2>1. compute_pc = "dma_a" /\ dma.mat = "A" /\ dma # NoDma /\ dma.ok /\ reg_status = {"BUSY"}
    BY <1>4 DEF ComputeReadB, ComputeAt, DiscInv, NoDma
  <2>2. PICK ok \in BOOLEAN : dma' = [mat |-> "B", addr |-> reg_matrix_ptr["B"], ok |-> ok]
    BY <1>4 DEF ComputeReadB, IssueDma
  <2>3. Promise!Settled = {"A"} /\ Promise!Healthy
    BY <2>1, InFlight DEF Promise!Settled, Promise!Healthy
  <2>4. Promise!ValidTask /\ TaskOf' = TaskOf /\ MovedOf' = {"A"}
    BY <1>0, <1>4, <2>1 DEF ComputeReadB, IssueDma, Promise!ValidTask
  <2> QED
    BY <1>4, <2>1, <2>2, <2>3, <2>4, IssueMaps, Zenon DEF ComputeReadB, Mats
<1>5. CASE ComputeFirstRow
  <2>1. compute_pc = "dma_b" /\ dma.mat = "B" /\ dma # NoDma /\ dma.ok /\ reg_status = {"BUSY"}
    BY <1>5 DEF ComputeFirstRow, ComputeAt, DiscInv, NoDma
  <2>2. Promise!Settled = {"A", "B"} /\ Promise!Healthy
    BY <2>1, InFlight DEF Promise!Settled, Promise!Healthy
  <2>3. Promise!ValidTask /\ TaskOf # {}
    <3>0. compute_pc # "start"
      BY <2>1
    <3>1. TaskOf # {}
      BY <3>0, Zenon
    <3>2. \A t \in TaskOf : t.n = job.n
      BY <3>0
    <3>3. job.n \in 1..MAX_N
      BY <1>0, <2>1
    <3> HIDE DEF TaskOf
    <3> QED
      BY <3>1, <3>2, <3>3 DEF Promise!ValidTask
  <2>4. TaskOf' = TaskOf /\ MovedOf' = {"A", "B"} /\ ({dma} \ {NoDma})' = {}
    BY <1>5, <2>1 DEF ComputeFirstRow
  <2> QED
    BY <1>5, <2>1, <2>2, <2>3, <2>4
    DEF ComputeFirstRow, Promise!Next, Promise!Move
<1>6. CASE ComputeNextRow
  BY <1>6 DEF ComputeNextRow, ComputeAt, DiscInv, Inv, TypeOK, Promise!vars
<1>7. CASE ComputeWriteC
  <2>1. compute_pc = "row" /\ dma = NoDma /\ reg_status = {"BUSY"}
    BY <1>7 DEF ComputeWriteC, ComputeAt, DiscInv
  <2>2. PICK ok \in BOOLEAN : dma' = [mat |-> "C", addr |-> reg_matrix_ptr["C"], ok |-> ok]
    BY <1>7 DEF ComputeWriteC, IssueDma
  <2>3. Promise!Settled = {"A", "B"} /\ Promise!Healthy
    BY <2>1 DEF Promise!Settled, Promise!Healthy
  <2>4. Promise!ValidTask /\ TaskOf' = TaskOf /\ MovedOf' = {"A", "B"}
    BY <1>0, <1>7, <2>1 DEF ComputeWriteC, IssueDma, Promise!ValidTask
  <2> QED
    BY <1>7, <2>1, <2>2, <2>3, <2>4, IssueMaps, Zenon DEF ComputeWriteC, Mats
<1>8. CASE ComputeDone
  <2>1. compute_pc = "dma_c" /\ dma.mat = "C" /\ dma # NoDma /\ dma.ok
    BY <1>8 DEF ComputeDone, ComputeAt, DiscInv, NoDma
  <2>2. Promise!Settled = Promise!Mats /\ Promise!Healthy
    BY <2>1, InFlight DEF Promise!Settled, Promise!Healthy, Promise!Mats
  <2>3. /\ TaskOf # {} /\ TaskOf' = {} /\ MovedOf' = {} /\ ({dma} \ {NoDma})' = {}
        /\ (reg_int_status # {})' = TRUE
    BY <1>8, <2>1, NoNewRequest, Zenon DEF ComputeDone, Finish
  <2> QED
    BY <1>8, <2>2, <2>3
    DEF ComputeDone, Finish, Result, Promise!Next, Promise!Succeed, Promise!End
<1>9. CASE ComputeDmaError
  <2>1. compute_pc # "start" /\ dma # NoDma /\ ~dma.ok
    BY <1>9 DEF ComputeDmaError, DiscInv, NoDma
  <2>2. ~Promise!Healthy
    BY <2>1, InFlight DEF Promise!Healthy
  <2>3. TaskOf # {} /\ TaskOf' = {} /\ MovedOf' = {} /\ ({dma} \ {NoDma})' = {}
    BY <1>9, <2>1, NoNewRequest, Zenon DEF ComputeDmaError, Finish
  <2> QED
    BY <1>9, <2>2, <2>3
    DEF ComputeDmaError, Finish, Result, Promise!Next, Promise!Fail, Promise!End
<1> QED
  BY <1>1, <1>2, <1>3, <1>4, <1>5, <1>6, <1>7, <1>8, <1>9 DEF Compute

-----------------------------------------------------------------------------
(* Every step of MatrixDevice under a disciplined host is one of Accelerator
   or leaves what Accelerator shows unchanged. *)
LEMMA StepMaps ==
  ASSUME DiscInv, DiscInv', [NextDisciplined]_vars
  PROVE  [Promise!Next]_(Promise!vars)
<1>1. ASSUME UNCHANGED <<reg_status, reg_dim_n, reg_matrix_ptr, reg_int_status,
                         computation_requested, compute_pc, job, dma>>
      PROVE  [Promise!Next]_(Promise!vars)
  BY <1>1 DEF Promise!vars, TaskOf, MovedOf
<1>2. CASE UNCHANGED vars
  BY <1>1, <1>2 DEF vars
<1>3. CASE "IDLE" \in reg_status /\ ConfigWrite(SUBSET CtrlBits, "timed")
  BY <1>3, ConfigMaps DEF DiscInv
<1>4. ASSUME NEW len \in Lens, NEW bits \in SUBSET IntBits,
             WriteIntStatus(len, bits, "timed")
      PROVE  [Promise!Next]_(Promise!vars)
  <2>1. reg_int_status' \subseteq reg_int_status
    BY <1>4 DEF WriteIntStatus
  <2>2. UNCHANGED <<reg_status, reg_dim_n, reg_matrix_ptr,
                    computation_requested, compute_pc, job, dma>>
    BY <1>4 DEF WriteIntStatus
  <2>3. CASE reg_int_status' # {}
    <3>1. (reg_int_status # {})' = (reg_int_status # {})
      BY <2>1, <2>3
    <3> QED
      BY <2>2, <3>1 DEF Promise!vars, TaskOf, MovedOf
  <2>4. CASE reg_int_status' = {}
    BY <2>2, <2>4 DEF Promise!Next, Promise!Acknowledge, TaskOf, MovedOf
  <2> QED
    BY <2>3, <2>4
<1>5. CASE NoEffect("timed")
  BY <1>1, <1>5 DEF NoEffect
<1>6. CASE Compute
  BY <1>6, ComputeMaps
<1>7. CASE Irq
  BY <1>1, <1>7 DEF Irq, IrqFirstRun, IrqUpdate
<1>8. CASE Kernel
  BY <1>1, <1>8 DEF Kernel, UpdatePhase, AdvanceTime
<1> QED
  BY <1>2, <1>3, <1>4, <1>5, <1>6, <1>7, <1>8
  DEF NextDisciplined, AckWrite, Device

(* Under a disciplined host the device with its threads, events and registers
   implements the abstract accelerator: the transfers, results and INT_DONE of
   compute_thread are those of the configuration at START. *)
THEOREM DeviceImplementsAccelerator == DisciplinedSpec => ImplementsAccelerator
<1>1. Init => DiscInv
  BY InitInv DEF Init, DiscInv, QuietInv
<1>2. DiscInv /\ [NextDisciplined]_vars => DiscInv'
  BY DiscStep
<1>3. Init => Promise!Init
  BY DEF Init, Promise!Init, Promise!NullCfg, Promise!Mats, Mats, TaskOf, MovedOf
<1>4. DiscInv /\ DiscInv' /\ [NextDisciplined]_vars => [Promise!Next]_(Promise!vars)
  BY StepMaps
<1> QED
  BY <1>1, <1>2, <1>3, <1>4, PTL
  DEF DisciplinedSpec, ImplementsAccelerator, Promise!Safety
=============================================================================
