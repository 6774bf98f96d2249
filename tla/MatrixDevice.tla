---------------------------- MODULE MatrixDevice ----------------------------
(***************************************************************************)
(* The PCIe matrix multiplier of custom-endpoint/matrix_multiplier_pcie.h: *)
(* its BAR0 registers, its two SystemC threads (compute_thread and         *)
(* interrupt_controller) and the one TLM initiator that is bound to        *)
(* bar0_target_socket (the host).                                          *)
(*                                                                         *)
(* SystemC threads are cooperative: a thread runs until it calls wait().   *)
(* sched records what each thread waits for:                               *)
(*   "event"     it sits in wait() on its sc_event;                        *)
(*   "timed"     it sits in wait(delay);                                   *)
(*   "runnable"  it has been woken and has not run yet;                    *)
(*   "running"   (host only) it made an access and has not called wait()   *)
(*               yet, so nobody else can run.                              *)
(* sc_event::notify() is an immediate notification: it wakes a thread that *)
(* waits for the event at that instant and is lost on any other thread.    *)
(* Delays are not modelled as numbers: once nothing is runnable, time      *)
(* advances to an instant at which some of the timed threads wake up       *)
(* together, in an order the scheduler is free to choose.                  *)
(***************************************************************************)
EXTENDS Naturals

CONSTANTS
  MAX_N,    (* the largest dimension accepted: 256 in the code             *)
  Dims,     (* the values the host may write to REG_DIM_N                  *)
  Words     (* the 32-bit values the host may write to a pointer half      *)

ASSUME DeviceAssumption ==
  /\ MAX_N \in Nat \ {0}
  /\ Dims \subseteq Nat /\ 0 \in Dims
  /\ 0 \in Words

VARIABLES
  reg_control,            (* set of control bits                           *)
  reg_status,             (* set of status bits                            *)
  reg_dim_n,
  reg_matrix_ptr,         (* reg_matrix_{a,b,c}_ptr, as 32-bit halves      *)
  reg_int_status,         (* set of interrupt bits                         *)
  reg_int_enable,         (* set of interrupt bits                         *)
  computation_requested,
  compute_pc,             (* the wait() compute_thread sits in             *)
  job,                    (* n and i, the locals of perform_matrix_multiply*)
  dma,                    (* trans, the local of dma_read and dma_write    *)
  irq_started,            (* interrupt_controller has run at least once    *)
  interrupt,              (* the value of the sc_out<bool> signal          *)
  interrupt_new,          (* its value after the next update phase         *)
  sched                   (* what each thread waits for                    *)

config == <<reg_dim_n, reg_matrix_ptr>>
intregs == <<reg_int_status, reg_int_enable>>
locals == <<compute_pc, job, dma>>
line == <<irq_started, interrupt, interrupt_new>>

vars == <<reg_control, reg_status, config, intregs, computation_requested,
          locals, line, sched>>

CtrlBits == {"START", "RESET"}
StatusBits == {"IDLE", "BUSY", "DONE", "ERROR"}
IntBits == {"INT_DONE", "OTHER"}    \* OTHER: any bit the device never sets
Lens == {4, 8}                      \* the lengths bar0_b_transport accepts
Mats == {"A", "B", "C"}
Ptrs == [hi : Words, lo : Words]
NullPtr == [hi |-> 0, lo |-> 0]
NoDma == [mat |-> "none", addr |-> NullPtr, ok |-> FALSE]
NoJob == [n |-> 0, row |-> 0]

Threads == {"compute", "irq", "host"}

TypeOK ==
  /\ reg_control \in SUBSET CtrlBits
  /\ reg_status \in {{"IDLE"}, {"BUSY"}, {"IDLE", "DONE"}, {"IDLE", "ERROR"}}
  /\ reg_dim_n \in Dims
  /\ reg_matrix_ptr \in [Mats -> Ptrs]
  /\ reg_int_status \in SUBSET {"INT_DONE"}
  /\ reg_int_enable \in SUBSET IntBits
  /\ computation_requested \in BOOLEAN
  /\ compute_pc \in {"start", "dma_a", "dma_b", "row", "dma_c"}
  /\ job \in [n : Nat, row : Nat]
  /\ dma \in [mat : Mats \cup {"none"}, addr : Ptrs, ok : BOOLEAN]
  /\ irq_started \in BOOLEAN
  /\ interrupt \in BOOLEAN
  /\ interrupt_new \in BOOLEAN
  /\ sched \in [Threads -> {"event", "timed", "runnable", "running"}]

(* The state in which sc_start() has run compute_thread up to its first    *)
(* wait(start_event); interrupt_controller is under dont_initialize().     *)
Init ==
  /\ reg_control = {}
  /\ reg_status = {"IDLE"}
  /\ reg_dim_n = 0
  /\ reg_matrix_ptr = [m \in Mats |-> NullPtr]
  /\ reg_int_status = {}
  /\ reg_int_enable = {}
  /\ computation_requested = FALSE
  /\ compute_pc = "start"
  /\ job = NoJob
  /\ dma = NoDma
  /\ irq_started = FALSE
  /\ interrupt = FALSE
  /\ interrupt_new = FALSE
  /\ sched = [t \in Threads |-> IF t = "host" THEN "timed" ELSE "event"]

-----------------------------------------------------------------------------
(***************************************************************************)
(* The SystemC kernel.                                                     *)
(***************************************************************************)

(* sc_event::notify(): wakes t if it waits for the event now, else is lost *)
Notify(s, t) ==
  IF s[t] = "event" THEN [s EXCEPT ![t] = "runnable"] ELSE s

(* Mutant: the notification is forgotten. *)
update_interruptLost(s) == s

update_interrupt(s) == Notify(s, "irq")

(* The level of the line, as the registers ask for it.                     *)
IrqLevel == reg_int_status \cap reg_int_enable # {}

(* Thread t is the one the kernel runs now. *)
Runs(t) == sched[t] = "runnable" /\ sched["host"] # "running"

EvaluationDone == \A t \in Threads : sched[t] \in {"event", "timed"}

(* The update phase gives the interrupt signal the value last written.     *)
UpdatePhase ==
  /\ EvaluationDone
  /\ interrupt # interrupt_new
  /\ interrupt' = interrupt_new
  /\ UNCHANGED <<reg_control, reg_status, config, intregs,
                 computation_requested, locals, irq_started, interrupt_new,
                 sched>>

(* Time advances and the threads of woken time out at the same instant.    *)
AdvanceTime(woken) ==
  /\ EvaluationDone
  /\ interrupt = interrupt_new
  /\ woken # {}
  /\ \A t \in woken : sched[t] = "timed"
  /\ sched' = [t \in Threads |-> IF t \in woken THEN "runnable" ELSE sched[t]]
  /\ UNCHANGED <<reg_control, reg_status, config, intregs,
                 computation_requested, locals, line>>

-----------------------------------------------------------------------------
(***************************************************************************)
(* BAR0 accesses by the host.  The host has control when it is runnable or *)
(* running; after the access it calls wait(delay) ("timed") or keeps       *)
(* control, as a temporally decoupled initiator may ("running").           *)
(***************************************************************************)
HostHasControl == sched["host"] \in {"runnable", "running"}

(* An 8-byte write leaves the 32-bit local value at 0. *)
Value32(len, value, zero) == IF len = 4 THEN value ELSE zero

(* Mutant: START is accepted without a look at REG_STATUS. *)
AcceptsStartAlways(reset) == TRUE

(* START is accepted when REG_STATUS shows IDLE, after a reset if any. *)
AcceptsStart(reset) == reset \/ "IDLE" \in reg_status

(* case REG_CONTROL: reset_device() when RESET is set, then the start      *)
(* request when START is set and the device is (now) idle.                 *)
WriteControl(len, bits, after) ==
  LET value == Value32(len, bits, {})
      reset == "RESET" \in value
      start == "START" \in value /\ AcceptsStart(reset)
      awake == IF start THEN Notify(sched, "compute") ELSE sched
  IN /\ HostHasControl
     /\ reg_control' = IF reset THEN {} ELSE value
     /\ reg_status' = IF reset THEN {"IDLE"} ELSE reg_status
     /\ reg_dim_n' = IF reset THEN 0 ELSE reg_dim_n
     /\ reg_matrix_ptr' = IF reset THEN [m \in Mats |-> NullPtr]
                                   ELSE reg_matrix_ptr
     /\ reg_int_status' = IF reset THEN {} ELSE reg_int_status
     /\ reg_int_enable' = IF reset THEN {} ELSE reg_int_enable
     /\ computation_requested' = (start \/ (~reset /\ computation_requested))
     /\ sched' = [awake EXCEPT !["host"] = after]
     /\ UNCHANGED <<locals, line>>

(* case REG_DIM_N *)
WriteDimN(len, n, after) ==
  /\ HostHasControl
  /\ reg_dim_n' = Value32(len, n, 0)
  /\ sched' = [sched EXCEPT !["host"] = after]
  /\ UNCHANGED <<reg_control, reg_status, reg_matrix_ptr, intregs,
                 computation_requested, locals, line>>

(* case REG_MATRIX_{A,B,C}_PTR: the whole pointer or its low half.         *)
WritePtr(m, len, ptr, after) ==
  /\ HostHasControl
  /\ reg_matrix_ptr' =
       [reg_matrix_ptr EXCEPT ![m] = IF len = 8 THEN ptr
                                     ELSE [hi |-> @.hi, lo |-> ptr.lo]]
  /\ sched' = [sched EXCEPT !["host"] = after]
  /\ UNCHANGED <<reg_control, reg_status, reg_dim_n, intregs,
                 computation_requested, locals, line>>

(* case REG_MATRIX_{A,B,C}_PTR + 4: the high half.                         *)
WritePtrHigh(m, len, word, after) ==
  /\ HostHasControl
  /\ reg_matrix_ptr' =
       [reg_matrix_ptr EXCEPT ![m] = [hi |-> Value32(len, word, 0),
                                      lo |-> @.lo]]
  /\ sched' = [sched EXCEPT !["host"] = after]
  /\ UNCHANGED <<reg_control, reg_status, reg_dim_n, intregs,
                 computation_requested, locals, line>>

(* Mutant: the acknowledgement forgets update_interrupt(). *)
WriteIntStatusSilent(len, bits, after) ==
  /\ HostHasControl
  /\ reg_int_status' = reg_int_status \ Value32(len, bits, {})
  /\ sched' = [sched EXCEPT !["host"] = after]
  /\ UNCHANGED <<reg_control, reg_status, config, reg_int_enable,
                 computation_requested, locals, line>>

(* case REG_INT_STATUS: write one to clear.                                *)
WriteIntStatus(len, bits, after) ==
  /\ HostHasControl
  /\ reg_int_status' = reg_int_status \ Value32(len, bits, {})
  /\ sched' = [update_interrupt(sched) EXCEPT !["host"] = after]
  /\ UNCHANGED <<reg_control, reg_status, config, reg_int_enable,
                 computation_requested, locals, line>>

(* case REG_INT_ENABLE *)
WriteIntEnable(len, bits, after) ==
  /\ HostHasControl
  /\ reg_int_enable' = Value32(len, bits, {})
  /\ sched' = [update_interrupt(sched) EXCEPT !["host"] = after]
  /\ UNCHANGED <<reg_control, reg_status, config, reg_int_status,
                 computation_requested, locals, line>>

(* Every access that changes no register: a read, a write to REG_STATUS or *)
(* to an undefined offset, an access of another length.  Also the host     *)
(* waiting or polling the interrupt line without an access.                *)
NoEffect(after) ==
  /\ HostHasControl
  /\ sched' = [sched EXCEPT !["host"] = after]
  /\ UNCHANGED <<reg_control, reg_status, config, intregs,
                 computation_requested, locals, line>>

(* The writes that configure, start or reset the device; ctrl is the set   *)
(* of values the host may write to REG_CONTROL now.                        *)
ConfigWrite(ctrl, after) ==
  \E len \in Lens :
    \/ \E bits \in ctrl : WriteControl(len, bits, after)
    \/ \E n \in Dims : WriteDimN(len, n, after)
    \/ \E m \in Mats, ptr \in Ptrs : WritePtr(m, len, ptr, after)
    \/ \E m \in Mats, word \in Words : WritePtrHigh(m, len, word, after)
    \/ \E bits \in SUBSET IntBits : WriteIntEnable(len, bits, after)

AckWrite(after) ==
  \E len \in Lens, bits \in SUBSET IntBits : WriteIntStatus(len, bits, after)

HostAccess(ctrl, after) ==
  ConfigWrite(ctrl, after) \/ AckWrite(after) \/ NoEffect(after)

-----------------------------------------------------------------------------
(***************************************************************************)
(* compute_thread.  Each action is the code between two calls of wait().   *)
(***************************************************************************)
ComputeAt(pc) == Runs("compute") /\ compute_pc = pc

(* Mutant: the upper bound is not checked. *)
ValidDimNoMax(n) == n # 0

ValidDim(n) == n # 0 /\ n <= MAX_N

(* dma_read and dma_write up to wait(delay): the transaction goes out with *)
(* the pointer register's value now; the target sets the response.         *)
IssueDma(m, pc) ==
  /\ \E ok \in BOOLEAN :
       dma' = [mat |-> m, addr |-> reg_matrix_ptr[m], ok |-> ok]
  /\ compute_pc' = pc
  /\ sched' = [sched EXCEPT !["compute"] = "timed"]

(* Mutants: the result bits are added to BUSY; a failure sets no status. *)
ResultKeepsBusy(success) ==
  reg_status \cup IF success THEN {"IDLE", "DONE"} ELSE {"IDLE", "ERROR"}
ResultOnlyDone(success) == IF success THEN {"IDLE", "DONE"} ELSE reg_status

(* What compute_thread leaves in REG_STATUS. *)
Result(success) == IF success THEN {"IDLE", "DONE"} ELSE {"IDLE", "ERROR"}

(* The end of the loop body of compute_thread, back to wait(start_event).  *)
Finish(success) ==
  /\ reg_status' = Result(success)
  /\ reg_int_status' = IF success THEN reg_int_status \cup {"INT_DONE"}
                                  ELSE reg_int_status
  /\ sched' = [update_interrupt(sched) EXCEPT !["compute"] = "event"]
  /\ compute_pc' = "start"
  /\ job' = NoJob
  /\ dma' = NoDma
  /\ UNCHANGED <<reg_control, config, reg_int_enable, line>>

(* Woken, but a reset has withdrawn the request. *)
ComputeSpurious ==
  /\ ComputeAt("start")
  /\ ~computation_requested
  /\ sched' = [sched EXCEPT !["compute"] = "event"]
  /\ UNCHANGED <<reg_control, reg_status, config, intregs,
                 computation_requested, locals, line>>

(* Mutant: the request outlives a rejected dimension. *)
ComputeRejectKeeps ==
  /\ ComputeAt("start")
  /\ computation_requested
  /\ ~ValidDim(reg_dim_n)
  /\ UNCHANGED computation_requested
  /\ Finish(FALSE)

(* perform_matrix_multiply returns false on the dimension; BUSY is set and *)
(* replaced without a wait() in between.                                   *)
ComputeReject ==
  /\ ComputeAt("start")
  /\ computation_requested
  /\ ~ValidDim(reg_dim_n)
  /\ computation_requested' = FALSE
  /\ Finish(FALSE)

(* Mutant: BUSY is added and IDLE is not cleared. *)
BusyStatusIdle == reg_status \cup {"BUSY"}

(* reg_status = STATUS_BUSY, then reg_status &= ~STATUS_IDLE. *)
BusyStatus == {"BUSY"} \ {"IDLE"}

ComputeBegin ==
  /\ ComputeAt("start")
  /\ computation_requested
  /\ ValidDim(reg_dim_n)
  /\ computation_requested' = FALSE
  /\ reg_status' = BusyStatus
  /\ job' = [n |-> reg_dim_n, row |-> 0]
  /\ IssueDma("A", "dma_a")
  /\ UNCHANGED <<reg_control, config, intregs, line>>

ComputeReadB ==
  /\ ComputeAt("dma_a")
  /\ dma.ok
  /\ IssueDma("B", "dma_b")
  /\ UNCHANGED <<reg_control, reg_status, config, intregs,
                 computation_requested, job, line>>

(* Row 0 is computed and the thread waits at the end of the loop body.     *)
ComputeFirstRow ==
  /\ ComputeAt("dma_b")
  /\ dma.ok
  /\ dma' = NoDma
  /\ compute_pc' = "row"
  /\ sched' = [sched EXCEPT !["compute"] = "timed"]
  /\ UNCHANGED <<reg_control, reg_status, config, intregs,
                 computation_requested, job, line>>

ComputeNextRow ==
  /\ ComputeAt("row")
  /\ job.row + 1 < job.n
  /\ job' = [job EXCEPT !.row = @ + 1]
  /\ sched' = [sched EXCEPT !["compute"] = "timed"]
  /\ UNCHANGED <<reg_control, reg_status, config, intregs,
                 computation_requested, compute_pc, dma, line>>

ComputeWriteC ==
  /\ ComputeAt("row")
  /\ job.row + 1 >= job.n
  /\ IssueDma("C", "dma_c")
  /\ UNCHANGED <<reg_control, reg_status, config, intregs,
                 computation_requested, job, line>>

(* Mutant: the response to the write of C is ignored. *)
ComputeDoneUnchecked ==
  /\ ComputeAt("dma_c")
  /\ Finish(TRUE)
  /\ UNCHANGED computation_requested

ComputeDone ==
  /\ ComputeAt("dma_c")
  /\ dma.ok
  /\ Finish(TRUE)
  /\ UNCHANGED computation_requested

(* One of the three transfers came back with an error response.            *)
ComputeDmaError ==
  /\ Runs("compute")
  /\ compute_pc \in {"dma_a", "dma_b", "dma_c"}
  /\ ~dma.ok
  /\ Finish(FALSE)
  /\ UNCHANGED computation_requested

Compute ==
  \/ ComputeSpurious \/ ComputeReject \/ ComputeBegin \/ ComputeReadB
  \/ ComputeFirstRow \/ ComputeNextRow \/ ComputeWriteC \/ ComputeDone
  \/ ComputeDmaError

-----------------------------------------------------------------------------
(***************************************************************************)
(* interrupt_controller.  Because of dont_initialize() the first           *)
(* notification only runs the thread up to its first wait().               *)
(***************************************************************************)
IrqFirstRun ==
  /\ Runs("irq")
  /\ ~irq_started
  /\ irq_started' = TRUE
  /\ sched' = [sched EXCEPT !["irq"] = "event"]
  /\ UNCHANGED <<reg_control, reg_status, config, intregs,
                 computation_requested, locals, interrupt, interrupt_new>>

(* Mutant: status and mask are compared, not masked. *)
IrqUpdateEqual ==
  /\ Runs("irq")
  /\ irq_started
  /\ interrupt_new' = (reg_int_status # {} /\ reg_int_status = reg_int_enable)
  /\ sched' = [sched EXCEPT !["irq"] = "event"]
  /\ UNCHANGED <<reg_control, reg_status, config, intregs,
                 computation_requested, locals, irq_started, interrupt>>

IrqUpdate ==
  /\ Runs("irq")
  /\ irq_started
  /\ interrupt_new' = IrqLevel
  /\ sched' = [sched EXCEPT !["irq"] = "event"]
  /\ UNCHANGED <<reg_control, reg_status, config, intregs,
                 computation_requested, locals, irq_started, interrupt>>

Irq == IrqFirstRun \/ IrqUpdate

-----------------------------------------------------------------------------
Kernel == UpdatePhase \/ \E woken \in SUBSET Threads : AdvanceTime(woken)

Device == Compute \/ Irq \/ Kernel

(* Any TLM initiator: every access, at any moment it has control, with or  *)
(* without a wait() after it.                                              *)
Next ==
  \/ \E after \in {"timed", "running"} : HostAccess(SUBSET CtrlBits, after)
  \/ Device

(* An initiator that waits for the annotated delay after every access, as  *)
(* the mmio_ functions of the test driver do.                              *)
NextWaiting == HostAccess(SUBSET CtrlBits, "timed") \/ Device

(* Any initiator that resets the device only while it is not busy and has  *)
(* no interrupt pending.                                                   *)
CtrlQuietReset == IF "BUSY" \in reg_status \/ reg_int_status # {}
                  THEN SUBSET {"START"} ELSE SUBSET CtrlBits
NextQuietReset ==
  \/ \E after \in {"timed", "running"} : HostAccess(CtrlQuietReset, after)
  \/ Device

(* Any initiator that enables an interrupt before it writes START, as the  *)
(* test driver does.                                                       *)
CtrlEnabled == IF reg_int_enable = {} THEN SUBSET {"RESET"}
                                      ELSE SUBSET CtrlBits
NextEnableFirst ==
  \/ \E after \in {"timed", "running"} : HostAccess(CtrlEnabled, after)
  \/ Device

(* An initiator that waits after every access and configures, starts and   *)
(* resets the device only while REG_STATUS shows IDLE.                     *)
NextDisciplined ==
  \/ "IDLE" \in reg_status /\ ConfigWrite(SUBSET CtrlBits, "timed")
  \/ AckWrite("timed")
  \/ NoEffect("timed")
  \/ Device

(* The kernel runs every runnable thread, updates signals and advances     *)
(* time; every delay is finite and time diverges, so a timed thread wakes  *)
(* eventually; a host that has control eventually calls wait().            *)
Fairness ==
  /\ WF_vars(Compute)
  /\ WF_vars(Irq)
  /\ WF_vars(UpdatePhase)
  /\ WF_vars(AckWrite("timed") \/ NoEffect("timed"))
  /\ SF_vars(\E woken \in SUBSET Threads :
               "compute" \in woken /\ AdvanceTime(woken))

Spec == Init /\ [][Next]_vars
QuietResetSpec == Init /\ [][NextQuietReset]_vars
EnableFirstSpec == Init /\ [][NextEnableFirst]_vars
WaitingSpec == Init /\ [][NextWaiting]_vars
DisciplinedSpec == Init /\ [][NextDisciplined]_vars

FairSpec == Spec /\ Fairness
FairQuietResetSpec == QuietResetSpec /\ Fairness
FairWaitingSpec == WaitingSpec /\ Fairness
FairDisciplinedSpec == DisciplinedSpec /\ Fairness

-----------------------------------------------------------------------------
(***************************************************************************)
(* Properties under every host (Spec).                                     *)
(***************************************************************************)

(* A host that sees BUSY sees a job that is under way, of a dimension      *)
(* perform_matrix_multiply accepts, at a row inside the matrix: no reset,  *)
(* rejected START or failed transfer leaves BUSY behind.                   *)
BusyJobSound ==
  "BUSY" \in reg_status =>
    compute_pc # "start" /\ job.n \in 1..MAX_N /\ job.row < job.n

(* interrupt_controller sleeps before its first run only while neither     *)
(* interrupt register was ever changed: the update its first run swallows  *)
(* is the first one there is.                                              *)
IrqDormant ==
  ~irq_started /\ sched["irq"] = "event" =>
    reg_int_status = {} /\ reg_int_enable = {}

(* compute_thread always comes to the end of a job and shows IDLE there,   *)
(* whatever the host writes and however the transfers end: a job that a    *)
(* reset has made the registers forget too.                                *)
BusyEnds ==
  (compute_pc # "start") ~> (compute_pc = "start" /\ "IDLE" \in reg_status)

(***************************************************************************)
(* Properties of hosts that enable interrupts before START                 *)
(* (EnableFirstSpec).                                                      *)
(***************************************************************************)

(* No interrupt update is lost: when interrupt_controller is back in       *)
(* wait() and the registers ask for an interrupt, it has raised the line.  *)
NoLostInterrupt ==
  sched["irq"] = "event" /\ IrqLevel => interrupt_new

(***************************************************************************)
(* Properties of hosts that reset a quiet device only (QuietResetSpec).    *)
(***************************************************************************)

(* No accepted START is lost: while computation_requested is set,          *)
(* compute_thread has been woken from wait(start_event) and will see it.   *)
NoLostStart ==
  computation_requested =>
    sched["compute"] = "runnable" /\ compute_pc = "start"

(* Once REG_STATUS shows IDLE the device touches host memory no more until *)
(* the next START, so the host may reuse the buffers.                      *)
IdleMeansNoDma ==
  "IDLE" \in reg_status => compute_pc = "start" /\ dma = NoDma

(* The line is not left high: when interrupt_controller is back in wait()  *)
(* and the registers ask for no interrupt, it has lowered the line.        *)
NoStuckLine ==
  sched["irq"] = "event" /\ ~IrqLevel => ~interrupt_new

(* An accepted START is withdrawn by a reset or runs to IDLE with DONE or  *)
(* ERROR.                                                                  *)
StartCompletes ==
  computation_requested ~> (~computation_requested /\ "IDLE" \in reg_status)

=============================================================================
