------------------------------ MODULE TestBench ------------------------------
(***************************************************************************)
(* custom-endpoint/testbench.cpp: the matrix multiplier, the host memory   *)
(* its DMA reads and writes, and the test_driver that runs one job.  The   *)
(* scenario (dimension and addresses) and the contents of memory, literals *)
(* in the code, are chosen at the start.                                   *)
(***************************************************************************)
EXTENDS MatrixDevice, HostMemory, FiniteSetsExt

CONSTANTS
  Scenarios,  (* records [n, A, B, C] with pointers A, B, C                *)
  Contents    (* what memory may hold when sc_start() is called            *)

ASSUME ScenarioAssumption ==
  /\ Scenarios \subseteq [n : Dims, A : Ptrs, B : Ptrs, C : Ptrs]
  /\ Contents \subseteq [Cells -> Values]
  /\ Words \subseteq 0..(WORD - 1)

VARIABLES
  mem,        (* the contents of host_memory                               *)
  matrix,     (* matrix_a, matrix_b, matrix_c of perform_matrix_multiply   *)
  drv_pc,     (* the next access of test_sequence                          *)
  seen,       (* status and int_status, the locals of test_sequence        *)
  test,       (* the scenario                                              *)
  mem0        (* the contents of host_memory when sc_start() is called     *)

benchvars == <<vars, mem, matrix, drv_pc, seen, test, mem0>>

NoMatrix == <<>>

BenchInit ==
  /\ Init
  /\ test \in Scenarios
  /\ mem0 \in Contents
  /\ mem = mem0
  /\ matrix = [m \in Mats |-> NoMatrix]
  /\ drv_pc = "read_status"
  /\ seen = [status |-> {}, int_status |-> {}]

-----------------------------------------------------------------------------
(***************************************************************************)
(* compute_thread with its data.                                           *)
(***************************************************************************)

(* A transfer leaves the device: host_memory's response is dma'.ok.        *)
Response == dma'.ok = Accepts(AddrOf(dma'.addr), job'.n * job'.n)

(* dma_read into matrix m; rejected, it leaves the vector's zeros.         *)
Fill(m) ==
  \E junk \in Values :
    matrix' = [matrix EXCEPT ![m] =
      IF dma'.ok THEN ReadFrom(mem, AddrOf(dma'.addr), job'.n * job'.n, junk)
      ELSE [i \in 0..(job'.n * job'.n - 1) |-> 0]]

(* Mutant: B is read by columns. *)
RowSumTransposed(n, i, j) ==
  LET sum[k \in 0..n] ==
        IF k = 0 THEN 0
        ELSE sum[k - 1] + matrix["A"][i * n + k - 1]
                          * matrix["B"][j * n + k - 1]
  IN sum[n]

(* sum, after the loop over k for row i and column j                       *)
RowSum(n, i, j) ==
  LET sum[k \in 0..n] ==
        IF k = 0 THEN 0
        ELSE sum[k - 1] + matrix["A"][i * n + k - 1]
                          * matrix["B"][(k - 1) * n + j]
  IN sum[n]

(* Row i of matrix_c is filled in; the vector starts with n * n zeros.     *)
ComputeRow(n, i) ==
  matrix' = [matrix EXCEPT !["C"] =
    [x \in 0..(n * n - 1) |->
       IF x \div n = i THEN RowSum(n, i, x % n)
       ELSE IF @ = NoMatrix THEN 0 ELSE @[x]]]

BenchCompute ==
  \/ ComputeBegin /\ Response /\ Fill("A") /\ UNCHANGED mem
  \/ ComputeReadB /\ Response /\ Fill("B") /\ UNCHANGED mem
  \/ ComputeFirstRow /\ ComputeRow(job.n, 0) /\ UNCHANGED mem
  \/ ComputeNextRow /\ ComputeRow(job.n, job.row + 1) /\ UNCHANGED mem
  \/ /\ ComputeWriteC
     /\ Response
     /\ mem' = IF dma'.ok
               THEN WriteTo(mem, AddrOf(dma'.addr), job.n * job.n, matrix["C"])
               ELSE mem
     /\ UNCHANGED matrix
  \/ /\ ComputeSpurious \/ ComputeReject \/ ComputeDone \/ ComputeDmaError
     /\ matrix' = [m \in Mats |-> NoMatrix]
     /\ UNCHANGED mem

-----------------------------------------------------------------------------
(***************************************************************************)
(* test_sequence: the accesses in order, each followed by wait(delay).     *)
(***************************************************************************)
At(pc, next) == drv_pc = pc /\ drv_pc' = next

(* The loop on interrupt_in ends with the first read of REG_STATUS, in the *)
(* same step.                                                              *)
Poll ==
  /\ drv_pc = "poll"
  /\ NoEffect("timed")
  /\ IF interrupt
     THEN drv_pc' = "read_int" /\ seen' = [seen EXCEPT !.status = reg_status]
     ELSE UNCHANGED <<drv_pc, seen>>

ReadInt ==
  /\ At("read_int", "ack")
  /\ NoEffect("timed")
  /\ seen' = [seen EXCEPT !.int_status = reg_int_status]

(* Mutant: the job is started before the last pointer is written. *)
ConfigureStartFirst ==
  \/ At("read_status", "dim_n") /\ NoEffect("timed")
  \/ At("dim_n", "ptr_a") /\ WriteDimN(4, test.n, "timed")
  \/ At("ptr_a", "ptr_b") /\ WritePtr("A", 8, test.A, "timed")
  \/ At("ptr_b", "enable") /\ WritePtr("B", 8, test.B, "timed")
  \/ At("ptr_c", "poll") /\ WritePtr("C", 8, test.C, "timed")
  \/ At("enable", "start") /\ WriteIntEnable(4, {"INT_DONE"}, "timed")
  \/ At("start", "ptr_c") /\ WriteControl(4, {"START"}, "timed")

Configure ==
  \/ At("read_status", "dim_n") /\ NoEffect("timed")
  \/ At("dim_n", "ptr_a") /\ WriteDimN(4, test.n, "timed")
  \/ At("ptr_a", "ptr_b") /\ WritePtr("A", 8, test.A, "timed")
  \/ At("ptr_b", "ptr_c") /\ WritePtr("B", 8, test.B, "timed")
  \/ At("ptr_c", "enable") /\ WritePtr("C", 8, test.C, "timed")
  \/ At("enable", "start") /\ WriteIntEnable(4, {"INT_DONE"}, "timed")
  \/ At("start", "poll") /\ WriteControl(4, {"START"}, "timed")

(* The write-back of int_status with its wait, wait(100) and sc_stop().    *)
Conclude ==
  \/ At("ack", "wait") /\ WriteIntStatus(4, seen.int_status, "timed")
  \/ At("wait", "stop") /\ NoEffect("timed")
  \/ At("stop", "stopped") /\ NoEffect("timed")

test_sequence ==
  /\ \/ (Configure \/ Conclude) /\ UNCHANGED seen
     \/ Poll
     \/ ReadInt
  /\ UNCHANGED <<mem, matrix>>

BenchNext ==
  /\ drv_pc # "stopped"
  /\ \/ test_sequence
     \/ BenchCompute /\ UNCHANGED <<drv_pc, seen>>
     \/ (Irq \/ Kernel) /\ UNCHANGED <<mem, matrix, drv_pc, seen>>
  /\ UNCHANGED <<test, mem0>>

(* Every delay in the test bench is finite: the simulation goes on until   *)
(* sc_stop(), and each timed thread wakes eventually.                      *)
BenchSpec ==
  /\ BenchInit
  /\ [][BenchNext]_benchvars
  /\ WF_benchvars(BenchNext)
  /\ \A t \in Threads :
       SF_benchvars(BenchNext /\ \E woken \in SUBSET Threads :
                                   t \in woken /\ AdvanceTime(woken))

-----------------------------------------------------------------------------
(***************************************************************************)
(* Properties.                                                             *)
(***************************************************************************)

(* Memory keeps its size, and every vector of perform_matrix_multiply is   *)
(* empty or has exactly n * n entries for the n of the running job.        *)
BenchTypeOK ==
  /\ TypeOK
  /\ mem \in [Cells -> Nat]
  /\ \A m \in Mats : \/ matrix[m] = NoMatrix
                     \/ matrix[m] \in [0..(job.n * job.n - 1) -> Nat]
  /\ seen.status \subseteq StatusBits
  /\ seen.int_status \subseteq {"INT_DONE"}

(* Memory as a matrix with rows and columns, and the product as defined in *)
(* mathematics, for reference.                                             *)
Entry(m0, ptr, n, i, j) == m0[AddrOf(ptr) + i * n + j]
Product(m0, t, i, j) ==
  MapThenSumSet(LAMBDA k : Entry(m0, t.A, t.n, i, k) * Entry(m0, t.B, t.n, k, j),
                0..(t.n - 1))

InMemory(ptr, n) == AddrOf(ptr) + n * n <= MemSize

(* The scenarios the device can carry out. *)
Feasible ==
  /\ test.n \in 1..MAX_N
  /\ \A m \in Mats : InMemory(test[m], test.n)

(* When test_sequence calls sc_stop(), which it reaches for feasible       *)
(* scenarios only, it has seen DONE and INT_DONE, the line is low again    *)
(* and C in memory is the product of A and B as they were at the start,    *)
(* also where the three buffers overlap.                                   *)
TestPasses ==
  drv_pc = "stopped" =>
    /\ Feasible
    /\ seen = [status |-> {"IDLE", "DONE"}, int_status |-> {"INT_DONE"}]
    /\ ~interrupt
    /\ \A i, j \in 0..(test.n - 1) :
         Entry(mem, test.C, test.n, i, j) = Product(mem0, test, i, j)

(* Memory outside the C buffer never changes, and an infeasible scenario   *)
(* changes nothing at all.                                                 *)
OnlyCWritten ==
  \A c \in Cells :
    mem[c] # mem0[c] =>
      Feasible /\ c \in AddrOf(test.C)..(AddrOf(test.C) + test.n * test.n - 1)

(* test_sequence reaches sc_stop() in every feasible scenario.             *)
TestTerminates == Feasible ~> (drv_pc = "stopped")

(* test_driver is a disciplined host, so what MatrixDevice promises such a *)
(* host holds in the test bench.                                           *)
DriverDisciplined == DisciplinedSpec
=============================================================================
