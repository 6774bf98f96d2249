--------------------------- MODULE TestBenchProofs ---------------------------
(***************************************************************************)
(* The driver of testbench.cpp is a disciplined host, for every scenario   *)
(* and every contents of memory, so what MatrixDeviceProofs shows of the   *)
(* device holds inside the test bench.  Then what memory and the vectors   *)
(* of perform_matrix_multiply hold, wait by wait: the test ends with the   *)
(* product in C, whatever the buffers overlap, and nothing but C is ever   *)
(* written.                                                                *)
(***************************************************************************)
EXTENDS TestBench, MatrixDeviceProofs, MatrixArithmetic

USE DEF config, intregs, locals, line, Threads, BusyStatus

(* The accesses of test_sequence up to START. *)
Before == {"read_status", "dim_n", "ptr_a", "ptr_b", "ptr_c", "enable", "start"}

(* Until test_sequence writes START the device has no task and shows IDLE. *)
BenchInv ==
  /\ TypeOK
  /\ test \in Scenarios
  /\ seen \in [status : SUBSET StatusBits, int_status : SUBSET {"INT_DONE"}]
  /\ drv_pc \in Before =>
       compute_pc = "start" /\ ~computation_requested /\ reg_status = {"IDLE"}

(* The initial state of the bench satisfies BenchInv. *)
LEMMA BenchInitInv == BenchInit => BenchInv
BY InitInv DEF BenchInit, Init, BenchInv, QuietInv, Inv

(* A register access of test_sequence is one of a disciplined host. *)
LEMMA SequenceDisciplined ==
  ASSUME BenchInv, test_sequence
  PROVE  NextDisciplined
<1>1. /\ test.n \in Dims
      /\ test.A \in Ptrs /\ test.B \in Ptrs /\ test.C \in Ptrs
  BY ScenarioAssumption DEF BenchInv
<1>2. ASSUME ConfigWrite(SUBSET CtrlBits, "timed"), drv_pc \in Before
      PROVE  NextDisciplined
  BY <1>2 DEF BenchInv, NextDisciplined
<1>3. CASE NoEffect("timed")
  BY <1>3 DEF NextDisciplined
<1>4. CASE drv_pc = "dim_n" /\ WriteDimN(4, test.n, "timed")
  BY <1>1, <1>2, <1>4 DEF ConfigWrite, Lens, Before
<1>5. CASE drv_pc = "ptr_a" /\ WritePtr("A", 8, test.A, "timed")
  BY <1>1, <1>2, <1>5 DEF ConfigWrite, Lens, Before, Mats
<1>6. CASE drv_pc = "ptr_b" /\ WritePtr("B", 8, test.B, "timed")
  BY <1>1, <1>2, <1>6 DEF ConfigWrite, Lens, Before, Mats
<1>7. CASE drv_pc = "ptr_c" /\ WritePtr("C", 8, test.C, "timed")
  BY <1>1, <1>2, <1>7 DEF ConfigWrite, Lens, Before, Mats
<1>8. CASE drv_pc = "enable" /\ WriteIntEnable(4, {"INT_DONE"}, "timed")
  BY <1>2, <1>8 DEF ConfigWrite, Lens, Before, IntBits
<1>9. CASE drv_pc = "start" /\ WriteControl(4, {"START"}, "timed")
  BY <1>2, <1>9 DEF ConfigWrite, Lens, Before, CtrlBits
<1>10. CASE WriteIntStatus(4, seen.int_status, "timed")
  BY <1>10 DEF BenchInv, NextDisciplined, AckWrite, Lens, IntBits
<1> QED
  BY <1>3, <1>4, <1>5, <1>6, <1>7, <1>8, <1>9, <1>10
  DEF test_sequence, Configure, Conclude, Poll, ReadInt, At

(* Every step of the bench is a step of the device under such a host. *)
LEMMA BenchDisciplined ==
  ASSUME BenchInv, BenchNext
  PROVE  NextDisciplined
<1>1. ASSUME BenchCompute PROVE Compute
  BY <1>1 DEF BenchCompute, Compute
<1> QED
  BY <1>1, SequenceDisciplined DEF BenchNext, NextDisciplined, Device

(* Every step of the bench preserves BenchInv. *)
LEMMA BenchStep ==
  ASSUME BenchInv, BenchNext
  PROVE  BenchInv'
<1>1. TypeOK'
  BY BenchDisciplined, DisciplinedNext, HostType, DeviceType DEF BenchInv, Next
<1>2. test' \in Scenarios
  BY DEF BenchInv, BenchNext
<1>3. CASE test_sequence
  <2>1. seen' \in [status : SUBSET StatusBits, int_status : SUBSET {"INT_DONE"}]
    BY <1>3
    DEF test_sequence, Poll, ReadInt, BenchInv, TypeOK, StatusBits, IntBits
  <2>2. drv_pc' \in Before =>
          /\ drv_pc \in Before
          /\ UNCHANGED <<compute_pc, computation_requested, reg_status>>
    BY <1>3
    DEF test_sequence, Configure, Conclude, Poll, ReadInt, At, Before, NoEffect,
        WriteDimN, WritePtr, WriteIntEnable
  <2> QED
    BY <1>1, <1>2, <2>1, <2>2 DEF BenchInv
<1>4. CASE BenchCompute /\ UNCHANGED <<drv_pc, seen>>
  <2>1. ASSUME drv_pc \in Before
        PROVE  UNCHANGED <<compute_pc, computation_requested, reg_status>>
    BY <1>4, <2>1, Zenon
    DEF BenchInv, BenchCompute, ComputeAt, ComputeSpurious, ComputeReject,
        ComputeBegin, ComputeReadB, ComputeFirstRow, ComputeNextRow,
        ComputeWriteC, ComputeDone, ComputeDmaError
  <2> QED
    BY <1>1, <1>2, <1>4, <2>1 DEF BenchInv
<1>5. CASE (Irq \/ Kernel) /\ UNCHANGED <<drv_pc, seen>>
  <2>1. UNCHANGED <<compute_pc, computation_requested, reg_status>>
    BY <1>5 DEF Irq, IrqFirstRun, IrqUpdate, Kernel, UpdatePhase, AdvanceTime
  <2> QED
    BY <1>1, <1>2, <1>5, <2>1 DEF BenchInv
<1> QED
  BY <1>3, <1>4, <1>5 DEF BenchNext

(* A stuttering step of the bench preserves BenchInv. *)
LEMMA BenchUnchanged ==
  ASSUME BenchInv, UNCHANGED benchvars
  PROVE  BenchInv'
<1>1. UNCHANGED <<test, seen, drv_pc, compute_pc, computation_requested, reg_status>>
  BY DEF benchvars, vars
<1>2. TypeOK'
  BY DEF benchvars, vars, BenchInv, TypeOK
<1> QED
  BY <1>1, <1>2 DEF BenchInv

-----------------------------------------------------------------------------
(* test_driver configures, starts and resets only an idle device and waits
   after every access. *)
THEOREM DriverIsDisciplined == BenchSpec => DriverDisciplined
<1>1. BenchInit => BenchInv /\ Init
  BY BenchInitInv DEF BenchInit
<1>2. BenchInv /\ [BenchNext]_benchvars => BenchInv'
  BY BenchStep, BenchUnchanged
<1>3. BenchInv /\ [BenchNext]_benchvars => [NextDisciplined]_vars
  BY BenchDisciplined DEF benchvars
<1> QED
  BY <1>1, <1>2, <1>3, PTL DEF BenchSpec, DriverDisciplined, DisciplinedSpec

(* Inside the test bench the device keeps the promises of the abstract
   accelerator. *)
THEOREM BenchImplementsAccelerator == BenchSpec => ImplementsAccelerator
BY DriverIsDisciplined, DeviceImplementsAccelerator, PTL DEF DriverDisciplined

-----------------------------------------------------------------------------
(* The response of a transfer is the one host_memory's test gave it. *)
Answered == dma.ok => Accepts(AddrOf(dma.addr), job.n * job.n)

(* Every step of the bench preserves Answered. *)
LEMMA AnsweredStep ==
  ASSUME BenchInv, Answered, BenchNext
  PROVE  Answered'
<1>1. ASSUME UNCHANGED dma, job'.n = job.n PROVE Answered'
  BY <1>1 DEF Answered, Accepts, Add, AddrOf
<1>2. ASSUME dma' = NoDma PROVE Answered'
  BY <1>2 DEF Answered, NoDma
<1>3. ASSUME Response PROVE Answered'
  BY <1>3, Zenon DEF Answered, Response, Accepts, Add, AddrOf
<1>4. CASE test_sequence
  <2>1. UNCHANGED <<dma, job>>
    BY <1>4
    DEF test_sequence, Configure, Conclude, Poll, ReadInt, NoEffect, WriteDimN,
        WritePtr, WriteIntEnable, WriteIntStatus, WriteControl
  <2> QED
    BY <1>1, <2>1
<1>5. CASE BenchCompute
  BY <1>1, <1>2, <1>3, <1>5, Zenon
  DEF BenchCompute, ComputeFirstRow, ComputeNextRow, ComputeSpurious,
      ComputeReject, ComputeDone, ComputeDmaError, Finish, BenchInv, TypeOK
<1>6. CASE Irq \/ Kernel
  <2>1. UNCHANGED <<dma, job>>
    BY <1>6 DEF Irq, IrqFirstRun, IrqUpdate, Kernel, UpdatePhase, AdvanceTime
  <2> QED
    BY <1>1, <2>1
<1> QED
  BY <1>4, <1>5, <1>6 DEF BenchNext

-----------------------------------------------------------------------------
(* The products the loop over k adds up for row i and column j. *)
Terms(a, b, n, i, j) == [k \in 1..n |-> a[i * n + k - 1] * b[(k - 1) * n + j]]

(* They are naturals when the vectors hold naturals. *)
LEMMA TermsType ==
  ASSUME NEW n \in Nat \ {0}, NEW i \in 0..(n - 1), NEW j \in 0..(n - 1),
         NEW a \in [0..(n * n - 1) -> Nat], NEW b \in [0..(n * n - 1) -> Nat]
  PROVE  Terms(a, b, n, i, j) \in [1..n -> Nat]
<1>1. ASSUME NEW k \in 1..n
      PROVE  a[i * n + k - 1] * b[(k - 1) * n + j] \in Nat
  <2>1. k - 1 \in 0..(n - 1) /\ i * n \in Nat
    OBVIOUS
  <2>2. i * n + (k - 1) \in 0..(n * n - 1)
    BY <2>1, IndexIn
  <2>3. (k - 1) * n + j \in 0..(n * n - 1)
    BY <2>1, IndexIn
  <2>4. i * n + k - 1 = i * n + (k - 1)
    BY <2>1
  <2>5. a[i * n + k - 1] \in Nat /\ b[(k - 1) * n + j] \in Nat
    BY <2>2, <2>3, <2>4
  <2> QED BY <2>5
<1> QED
  BY <1>1, Zenon DEF Terms

(* The loop over k computes their sum. *)
LEMMA RowSumIs ==
  ASSUME NEW n \in Nat \ {0}, NEW i \in 0..(n - 1), NEW j \in 0..(n - 1),
         matrix["A"] \in [0..(n * n - 1) -> Nat],
         matrix["B"] \in [0..(n * n - 1) -> Nat]
  PROVE  /\ RowSum(n, i, j) = SumTo(Terms(matrix["A"], matrix["B"], n, i, j), n)
         /\ RowSum(n, i, j) \in Nat
<1> DEFINE g == Terms(matrix["A"], matrix["B"], n, i, j)
           Body(f) == [k \in 0..n |-> IF k = 0 THEN 0
                        ELSE f[k - 1] + matrix["A"][i * n + k - 1]
                                        * matrix["B"][(k - 1) * n + j]]
           c == CHOOSE f : f = Body(f)
<1>1. g \in [1..n -> Nat]
  BY TermsType, Zenon
<1>2. PICK p : PartialSums(p, g, n)
  BY <1>1, PartialSumsExist, SMTT(30)
<1>3. p = Body(p)
  <2>1. /\ p \in [0..n -> Nat]
        /\ p[0] = 0
        /\ \A k \in 1..n : p[k] = p[k - 1] + g[k]
    BY <1>2 DEF PartialSums
  <2>2. \A k \in 1..n :
          g[k] = matrix["A"][i * n + k - 1] * matrix["B"][(k - 1) * n + j]
    BY DEF Terms
  <2>3. ASSUME NEW k \in 0..n
        PROVE  p[k] = IF k = 0 THEN 0
                      ELSE p[k - 1] + matrix["A"][i * n + k - 1]
                                      * matrix["B"][(k - 1) * n + j]
    <3> HIDE DEF g
    <3>1. k = 0 \/ k \in 1..n
      OBVIOUS
    <3>2. CASE k = 0
      BY <2>1, <3>2
    <3>3. CASE k \in 1..n
      <4>1. k # 0
        BY <3>3
      <4>2. p[k] = p[k - 1] + g[k]
        BY <2>1, <3>3
      <4> QED
        BY <2>2, <3>3, <4>1, <4>2, Zenon
    <3> QED
      BY <3>1, <3>2, <3>3
  <2> QED
    BY <2>1, <2>3, Zenon
<1>4. c = Body(c)
  BY <1>3, Zenon
<1>5. RowSum(n, i, j) = c[n]
  BY DEF RowSum
<1>6. ASSUME NEW k \in 0..n, k # 0
      PROVE  g[k] = matrix["A"][i * n + k - 1] * matrix["B"][(k - 1) * n + j]
  BY <1>6 DEF Terms
<1>7. c = [k \in 0..n |-> IF k = 0 THEN 0 ELSE c[k - 1] + g[k]]
  <2> HIDE DEF g, c
  <2> QED BY <1>4, <1>6
<1> HIDE DEF g, c
<1>8. PartialSums(c, g, n)
  BY <1>1, <1>7, RecursiveSums, Zenon
<1>9. SumTo(g, n) = c[n] /\ SumTo(g, n) \in Nat
  BY <1>1, <1>8, SumToUnique, SumToIs, SMTT(30)
<1> QED
  BY <1>5, <1>9 DEF g

(* Where the vectors hold the contents of the two buffers, that sum is the
   entry of the product. *)
LEMMA ProductIs ==
  ASSUME NEW n \in Nat \ {0}, test.n = n,
         NEW i \in 0..(n - 1), NEW j \in 0..(n - 1),
         matrix["A"] \in [0..(n * n - 1) -> Nat],
         matrix["B"] \in [0..(n * n - 1) -> Nat],
         AddrOf(test.A) \in Nat, AddrOf(test.B) \in Nat,
         \A x \in 0..(n * n - 1) : /\ matrix["A"][x] = mem0[AddrOf(test.A) + x]
                                   /\ matrix["B"][x] = mem0[AddrOf(test.B) + x]
  PROVE  Product(mem0, test, i, j) = SumTo(Terms(matrix["A"], matrix["B"], n, i, j), n)
<1> DEFINE a == matrix["A"]
           b == matrix["B"]
           h == [k \in 0..(n - 1) |-> a[i * n + k] * b[k * n + j]]
           op(k) == Entry(mem0, test.A, n, i, k) * Entry(mem0, test.B, n, k, j)
           Body(f) == [s \in SUBSET (0..(n - 1)) |->
                         IF s = {} THEN 0
                         ELSE op(CHOOSE x \in s : TRUE) + f[s \ {CHOOSE x \in s : TRUE}]]
           c == CHOOSE f : f = Body(f)
<1>1. ASSUME NEW k \in 0..(n - 1) PROVE h[k] \in Nat /\ h[k] = op(k)
  <2>1. i * n + k \in 0..(n * n - 1) /\ k * n + j \in 0..(n * n - 1)
    BY IndexIn, Zenon
  <2>2. i * n \in Nat /\ k * n \in Nat
    OBVIOUS
  <2>3. /\ AddrOf(test.A) + (i * n + k) = AddrOf(test.A) + i * n + k
        /\ AddrOf(test.B) + (k * n + j) = AddrOf(test.B) + k * n + j
    BY <2>2
  <2>4. a[i * n + k] \in Nat /\ b[k * n + j] \in Nat
    BY <2>1, SMTT(30)
  <2>5. /\ a[i * n + k] = Entry(mem0, test.A, n, i, k)
        /\ b[k * n + j] = Entry(mem0, test.B, n, k, j)
    BY <2>1, <2>3 DEF Entry
  <2>6. h[k] = a[i * n + k] * b[k * n + j]
    OBVIOUS
  <2> HIDE DEF h, a, b
  <2> QED BY <2>4, <2>5, <2>6
<1>2. h \in [0..(n - 1) -> Nat]
  BY <1>1, Zenon
<1>3. Product(mem0, test, i, j) = c[0..(n - 1)]
  BY DEF Product, MapThenSumSet, MapThenFoldSet
<1> HIDE DEF h
<1>4. ASSUME NEW f PROVE Body(f) = f <=> SetSums(f, h, n)
  <2>1. ASSUME NEW s \in SUBSET (0..(n - 1)), s # {}
        PROVE  op(CHOOSE x \in s : TRUE) = h[CHOOSE x \in s : TRUE]
    <3>1. (CHOOSE x \in s : TRUE) \in 0..(n - 1)
      BY <2>1, Zenon
    <3> QED BY <3>1, <1>1
  <2> DEFINE Sums == [s \in SUBSET (0..(n - 1)) |->
                        IF s = {} THEN 0
                        ELSE h[CHOOSE x \in s : TRUE] + f[s \ {CHOOSE x \in s : TRUE}]]
  <2>2. Body(f) = Sums
    <3>1. ASSUME NEW s \in SUBSET (0..(n - 1)) PROVE Body(f)[s] = Sums[s]
      <4>1. CASE s = {}
        BY <4>1
      <4>2. CASE s # {}
        <5>1. Body(f)[s] = op(CHOOSE x \in s : TRUE) + f[s \ {CHOOSE x \in s : TRUE}]
          BY <4>2, Zenon
        <5>2. Sums[s] = h[CHOOSE x \in s : TRUE] + f[s \ {CHOOSE x \in s : TRUE}]
          BY <4>2, Zenon
        <5> QED BY <5>1, <5>2, <4>2, <2>1, Zenon
      <4> QED BY <4>1, <4>2
    <3> QED BY <3>1, Zenon
  <2> QED BY <2>2, Zenon DEF SetSums
<1>5. SetSums(c, h, n)
  <2>1. PICK f : SetSums(f, h, n)
    BY <1>2, SetSumsExist, Zenon
  <2>2. f = Body(f)
    BY <2>1, <1>4, Zenon
  <2>3. c = Body(c)
    <3> HIDE DEF Body
    <3> QED BY <2>2, Zenon
  <2> HIDE DEF c
  <2> QED BY <2>3, <1>4, Zenon
<1>6. c[0..(n - 1)] = SumTo([k \in 1..n |-> h[k - 1]], n)
  <2> HIDE DEF c
  <2> QED BY <1>2, <1>5, SetSumsIs, Zenon
<1>7. [k \in 1..n |-> h[k - 1]] = Terms(a, b, n, i, j)
  <2>1. ASSUME NEW k \in 1..n
        PROVE  h[k - 1] = a[i * n + k - 1] * b[(k - 1) * n + j]
    <3>1. k - 1 \in 0..(n - 1) /\ i * n \in Nat
      OBVIOUS
    <3>2. i * n + (k - 1) = i * n + k - 1
      BY <3>1
    <3> QED BY <3>1, <3>2 DEF h
  <2> QED BY <2>1 DEF Terms
<1> QED
  BY <1>3, <1>6, <1>7

-----------------------------------------------------------------------------
(* What the device invariants say of the bench. *)
BenchBase == BenchInv /\ DiscInv /\ QuietInv /\ Answered

(* The accesses of test_sequence, by what they can do to the device. *)
LEMMA BenchWrites ==
  ASSUME BenchInv, test_sequence
  PROVE  \/ drv_pc = "start" /\ WriteControl(4, {"START"}, "timed")
         \/ ConfigWrite({}, "timed") \/ AckWrite("timed") \/ NoEffect("timed")
<1>1. /\ test.n \in Dims
      /\ test.A \in Ptrs /\ test.B \in Ptrs /\ test.C \in Ptrs
      /\ seen.int_status \in SUBSET IntBits
  BY ScenarioAssumption DEF BenchInv, IntBits
<1>2. WriteDimN(4, test.n, "timed") => ConfigWrite({}, "timed")
  BY <1>1 DEF ConfigWrite, Lens
<1>3. \A m \in Mats : WritePtr(m, 8, test[m], "timed") => ConfigWrite({}, "timed")
  BY <1>1 DEF ConfigWrite, Lens, Mats
<1>4. WriteIntEnable(4, {"INT_DONE"}, "timed") => ConfigWrite({}, "timed")
  BY DEF ConfigWrite, Lens, IntBits
<1>5. WriteIntStatus(4, seen.int_status, "timed") => AckWrite("timed")
  BY <1>1 DEF AckWrite, Lens
<1> QED
  BY <1>2, <1>3, <1>4, <1>5
  DEF test_sequence, Configure, Conclude, Poll, ReadInt, At, Mats

(* test_sequence never resets the device. *)
LEMMA BenchQuiet ==
  ASSUME BenchInv, BenchNext
  PROVE  HostAccess(CtrlQuietReset, "timed") \/ Device
<1>1. CASE WriteControl(4, {"START"}, "timed")
  <2>1. {"START"} \in CtrlQuietReset /\ 4 \in Lens
    BY DEF CtrlQuietReset, CtrlBits, Lens
  <2> QED
    BY <1>1, <2>1 DEF HostAccess, ConfigWrite
<1>2. CASE ConfigWrite({}, "timed") \/ AckWrite("timed") \/ NoEffect("timed")
  BY <1>2 DEF HostAccess, ConfigWrite
<1>3. CASE test_sequence
  BY <1>1, <1>2, <1>3, BenchWrites
<1>4. CASE BenchCompute \/ Irq \/ Kernel
  BY <1>4 DEF BenchCompute, Device, Compute
<1> QED
  BY <1>3, <1>4 DEF BenchNext

(* The device invariants hold at the start of the bench. *)
LEMMA BenchBaseInit == BenchInit => BenchBase
<1>1. Init => DiscInv /\ QuietInv
  BY InitInv DEF Init, DiscInv, QuietInv
<1> QED
  BY <1>1, BenchInitInv DEF BenchInit, Init, Answered, NoDma, BenchBase

(* Every step of the bench preserves them. *)
LEMMA BenchBaseStep ==
  ASSUME BenchBase, [BenchNext]_benchvars
  PROVE  BenchBase'
<1>1. CASE BenchNext
  <2>1. BenchInv' /\ Answered'
    BY <1>1, BenchStep, AnsweredStep DEF BenchBase
  <2>2. DiscInv'
    BY <1>1, BenchDisciplined, DiscStep DEF BenchBase
  <2>3. QuietInv'
    BY <1>1, BenchQuiet, HostQuiet, DeviceQuiet DEF BenchBase
  <2> QED
    BY <2>1, <2>2, <2>3 DEF BenchBase
<1>2. CASE UNCHANGED benchvars
  <2>1. BenchInv' /\ DiscInv'
    BY <1>2, BenchUnchanged, DiscStep DEF benchvars, BenchBase
  <2>2. Answered'
    BY <1>2 DEF benchvars, vars, Answered, Accepts, Add, AddrOf, BenchBase
  <2>3. QuietInv'
    <3>1. Inv'
      BY <2>1 DEF DiscInv
    <3> QED
      BY <1>2, <3>1
      DEF benchvars, vars, BenchBase, QuietInv, NoLostStart, NoStuckLine, IrqLevel
  <2> QED
    BY <2>1, <2>2, <2>3 DEF BenchBase
<1> QED
  BY <1>1, <1>2

-----------------------------------------------------------------------------
(* test_sequence writes START with INT_DONE enabled. *)
EnabledAtStart == drv_pc = "start" => reg_int_enable = {"INT_DONE"}

(* Every step of the bench preserves EnabledAtStart. *)
LEMMA EnabledStep ==
  ASSUME EnabledAtStart, BenchNext
  PROVE  EnabledAtStart'
<1>1. CASE test_sequence
  <2>1. CASE At("enable", "start") /\ WriteIntEnable(4, {"INT_DONE"}, "timed")
    BY <2>1 DEF WriteIntEnable, Value32, EnabledAtStart
  <2>2. CASE drv_pc' # "start"
    BY <2>2 DEF EnabledAtStart
  <2> QED
    BY <1>1, <2>1, <2>2
    DEF test_sequence, Configure, Conclude, Poll, ReadInt, At, NoEffect,
        EnabledAtStart
<1>2. CASE BenchCompute /\ UNCHANGED drv_pc
  <2>1. UNCHANGED reg_int_enable
    BY <1>2, Zenon
    DEF BenchCompute, ComputeSpurious, ComputeReject, ComputeBegin,
        ComputeReadB, ComputeFirstRow, ComputeNextRow, ComputeWriteC,
        ComputeDone, ComputeDmaError, Finish
  <2> QED
    BY <1>2, <2>1 DEF EnabledAtStart
<1>3. CASE (Irq \/ Kernel) /\ UNCHANGED drv_pc
  <2>1. UNCHANGED reg_int_enable
    BY <1>3 DEF Irq, IrqFirstRun, IrqUpdate, Kernel, UpdatePhase, AdvanceTime
  <2> QED
    BY <1>3, <2>1 DEF EnabledAtStart
<1> QED
  BY <1>1, <1>2, <1>3 DEF BenchNext

(* So each step is one of a host that enables interrupts before START. *)
LEMMA BenchEnables ==
  ASSUME BenchInv, EnabledAtStart, BenchNext
  PROVE  NextEnableFirst
<1>1. ASSUME HostAccess(CtrlEnabled, "timed") PROVE NextEnableFirst
  BY <1>1 DEF NextEnableFirst
<1>2. CASE drv_pc = "start" /\ WriteControl(4, {"START"}, "timed")
  <2>1. {"START"} \in CtrlEnabled /\ 4 \in Lens
    BY <1>2 DEF EnabledAtStart, CtrlEnabled, CtrlBits, Lens
  <2> QED
    BY <1>1, <1>2, <2>1 DEF HostAccess, ConfigWrite
<1>3. CASE ConfigWrite({}, "timed") \/ AckWrite("timed") \/ NoEffect("timed")
  BY <1>1, <1>3 DEF HostAccess, ConfigWrite
<1>4. CASE test_sequence
  BY <1>2, <1>3, <1>4, BenchWrites
<1>5. CASE BenchCompute \/ Irq \/ Kernel
  BY <1>5 DEF BenchCompute, NextEnableFirst, Device, Compute
<1> QED
  BY <1>4, <1>5 DEF BenchNext

(* Both orders that the device asks of a host: test_sequence enables the
   interrupt before START, ... *)
THEOREM BenchEnablesFirst == BenchSpec => EnableFirstSpec
<1>1. BenchInit => BenchInv /\ EnabledAtStart /\ Init
  BY BenchInitInv DEF BenchInit, EnabledAtStart
<1>2. BenchInv /\ EnabledAtStart /\ [BenchNext]_benchvars
        => (BenchInv /\ EnabledAtStart)'
  <2>1. ASSUME EnabledAtStart, UNCHANGED benchvars PROVE EnabledAtStart'
    BY <2>1 DEF benchvars, vars, EnabledAtStart
  <2> QED
    BY <2>1, BenchStep, EnabledStep, BenchUnchanged
<1>3. BenchInv /\ EnabledAtStart /\ [BenchNext]_benchvars => [NextEnableFirst]_vars
  BY BenchEnables DEF benchvars
<1> QED
  BY <1>1, <1>2, <1>3, PTL DEF BenchSpec, EnableFirstSpec

(* ... and never resets a device that is busy or has an interrupt pending. *)
THEOREM BenchResetsQuiet == BenchSpec => QuietResetSpec
<1>1. BenchInit => BenchInv /\ Init
  BY BenchInitInv DEF BenchInit
<1>2. BenchInv /\ [BenchNext]_benchvars => BenchInv'
  BY BenchStep, BenchUnchanged
<1>3. BenchInv /\ [BenchNext]_benchvars => [NextQuietReset]_vars
  BY BenchQuiet DEF benchvars, NextQuietReset
<1> QED
  BY <1>1, <1>2, <1>3, PTL DEF BenchSpec, QuietResetSpec

(* The interrupt that test_sequence polls for is not lost, although the first
   notification of interrupt_controller is swallowed, for every scenario. *)
THEOREM BenchLosesNoInterrupt == BenchSpec => []NoLostInterrupt
BY BenchEnablesFirst, EnableFirstSafe, PTL

(* Nor is its START; it sees no transfer once the device shows IDLE and is
   not left with a line that nobody will lower. *)
THEOREM BenchLosesNoStart == BenchSpec => [](NoLostStart /\ IdleMeansNoDma /\ NoStuckLine)
BY BenchResetsQuiet, QuietResetSafe, PTL

-----------------------------------------------------------------------------
(* The vectors of perform_matrix_multiply that have been filled. *)
Filled ==
  {m \in Mats : \/ m = "A" /\ compute_pc # "start"
                \/ m = "B" /\ compute_pc \in {"dma_b", "row", "dma_c"}
                \/ m = "C" /\ compute_pc \in {"row", "dma_c"}}

(* A vector is empty before it is filled and has n * n entries afterwards. *)
VectorInv ==
  /\ mem \in [Cells -> Nat]
  /\ mem0 \in [Cells -> Nat]
  /\ matrix = [m \in Mats |-> matrix[m]]
  /\ \A m \in Mats :
       /\ m \in Filled => matrix[m] \in [0..(job.n * job.n - 1) -> Nat]
       /\ m \notin Filled => matrix[m] = NoMatrix

(* The data VectorInv is about. *)
datavars == <<mem, mem0, matrix, compute_pc, job>>

(* A step that leaves the data alone preserves VectorInv. *)
LEMMA VectorUnchanged ==
  ASSUME VectorInv, UNCHANGED datavars
  PROVE  VectorInv'
BY DEF datavars, VectorInv, Filled

(* The steps of the bench that are not compute_thread's leave the data alone,
   and with it the transfer. *)
LEMMA OthersKeepData ==
  ASSUME BenchNext, ~ (BenchCompute /\ UNCHANGED <<drv_pc, seen>>)
  PROVE  UNCHANGED datavars /\ UNCHANGED <<dma, test>>
<1>1. CASE test_sequence
  BY <1>1, Zenon
  DEF BenchNext, test_sequence, Configure, Conclude, Poll, ReadInt, NoEffect,
      WriteDimN, WritePtr, WriteIntEnable, WriteIntStatus, WriteControl, datavars
<1>2. CASE (Irq \/ Kernel) /\ UNCHANGED <<mem, matrix, drv_pc, seen>>
  BY <1>2
  DEF BenchNext, Irq, IrqFirstRun, IrqUpdate, Kernel, UpdatePhase, AdvanceTime,
      datavars
<1> QED
  BY <1>1, <1>2 DEF BenchNext

(* dma_read gives a vector of n * n naturals. *)
LEMMA FillType ==
  ASSUME VectorInv, NEW m \in Mats, Fill(m), job'.n \in Nat
  PROVE  /\ matrix' = [matrix EXCEPT ![m] = matrix'[m]]
         /\ matrix'[m] \in [0..(job'.n * job'.n - 1) -> Nat]
<1> DEFINE D == 0..(job'.n * job'.n - 1)
<1>1. PICK junk \in Values :
        matrix' = [matrix EXCEPT ![m] =
          IF dma'.ok THEN ReadFrom(mem, AddrOf(dma'.addr), job'.n * job'.n, junk)
          ELSE [i \in D |-> 0]]
  BY Zenon DEF Fill
<1>2. ReadFrom(mem, AddrOf(dma'.addr), job'.n * job'.n, junk) \in [D -> Nat]
  <2>1. junk \in Nat /\ \A c \in Cells : mem[c] \in Nat
    BY MemoryAssumption DEF VectorInv
  <2> QED
    BY <2>1 DEF ReadFrom
<1>3. [i \in D |-> 0] \in [D -> Nat]
  OBVIOUS
<1> HIDE DEF D
<1>4. matrix = [k \in Mats |-> matrix[k]]
  BY DEF VectorInv
<1> QED
  BY <1>1, <1>2, <1>3, <1>4 DEF D

(* So does the loop over one row of matrix_c. *)
LEMMA RowType ==
  ASSUME VectorInv, NEW n \in Nat \ {0}, n = job.n, NEW i \in 0..(n - 1),
         {"A", "B"} \subseteq Filled, ComputeRow(n, i)
  PROVE  /\ matrix' = [matrix EXCEPT !["C"] = matrix'["C"]]
         /\ matrix'["C"] \in [0..(n * n - 1) -> Nat]
<1> DEFINE old(x) == IF matrix["C"] = NoMatrix THEN 0 ELSE matrix["C"][x]
           row == [x \in 0..(n * n - 1) |->
                     IF x \div n = i THEN RowSum(n, i, x % n) ELSE old(x)]
<1>1. matrix = [m \in Mats |-> matrix[m]] /\ "C" \in Mats
  BY DEF VectorInv, Mats
<1>2. matrix' = [matrix EXCEPT !["C"] = row]
  BY DEF ComputeRow
<1>3. /\ matrix["A"] \in [0..(n * n - 1) -> Nat]
      /\ matrix["B"] \in [0..(n * n - 1) -> Nat]
  BY DEF VectorInv, Mats
<1>4. ASSUME NEW x \in 0..(n * n - 1) PROVE RowSum(n, i, x % n) \in Nat
  <2>1. x % n \in 0..(n - 1)
    BY IndexSplit
  <2> QED
    BY <1>3, <2>1, RowSumIs, Zenon
<1>5. ASSUME NEW x \in 0..(n * n - 1) PROVE old(x) \in Nat
  BY DEF VectorInv, Mats
<1>6. row \in [0..(n * n - 1) -> Nat]
  BY <1>4, <1>5
<1> HIDE DEF row
<1> QED
  BY <1>1, <1>2, <1>6

(* dma_write leaves naturals in memory. *)
LEMMA WriteType ==
  ASSUME mem \in [Cells -> Nat], NEW addr, NEW len \in Nat,
         NEW data \in [0..(len - 1) -> Nat]
  PROVE  WriteTo(mem, addr, len, data) \in [Cells -> Nat]
<1>1. ASSUME NEW c \in Cells, \E i \in 0..(len - 1) : Add(addr, i) = c
      PROVE  data[CHOOSE i \in 0..(len - 1) : Add(addr, i) = c] \in Nat
  <2>1. (CHOOSE i \in 0..(len - 1) : Add(addr, i) = c) \in 0..(len - 1)
    BY <1>1
  <2> QED
    BY <2>1
<1> QED
  BY <1>1 DEF WriteTo

(* Every step of compute_thread preserves VectorInv. *)
LEMMA VectorCompute ==
  ASSUME BenchBase, VectorInv, BenchCompute, mem0' = mem0
  PROVE  VectorInv'
<1>0. /\ reg_dim_n \in Nat
      /\ compute_pc # "start" => job.n \in Nat \ {0} /\ job.row \in Nat /\ job.row < job.n
  BY DeviceAssumption DEF BenchBase, DiscInv, Inv, TypeOK
<1>1. CASE ComputeBegin /\ Fill("A") /\ UNCHANGED mem
  <2>1. compute_pc = "start" /\ compute_pc' = "dma_a" /\ job'.n \in Nat
    BY <1>0, <1>1 DEF ComputeBegin, ComputeAt, IssueDma
  <2>2. /\ matrix' = [matrix EXCEPT !["A"] = matrix'["A"]]
        /\ matrix'["A"] \in [0..(job'.n * job'.n - 1) -> Nat]
    BY <1>1, <2>1, FillType DEF Mats
  <2> QED
    BY <1>1, <2>1, <2>2 DEF VectorInv, Filled, Mats
<1>2. CASE ComputeReadB /\ Fill("B") /\ UNCHANGED mem
  <2>1. compute_pc = "dma_a" /\ compute_pc' = "dma_b" /\ UNCHANGED job
    BY <1>2 DEF ComputeReadB, ComputeAt, IssueDma
  <2>2. /\ matrix' = [matrix EXCEPT !["B"] = matrix'["B"]]
        /\ matrix'["B"] \in [0..(job'.n * job'.n - 1) -> Nat]
    BY <1>0, <1>2, <2>1, FillType DEF Mats
  <2> QED
    BY <1>2, <2>1, <2>2, Zenon DEF VectorInv, Filled, Mats
<1>3. CASE ComputeFirstRow /\ ComputeRow(job.n, 0) /\ UNCHANGED mem
  <2>1. compute_pc = "dma_b" /\ compute_pc' = "row" /\ UNCHANGED job
    BY <1>3 DEF ComputeFirstRow, ComputeAt
  <2>2. {"A", "B"} \subseteq Filled /\ 0 \in 0..(job.n - 1)
    BY <1>0, <2>1 DEF Filled, Mats
  <2>3. /\ matrix' = [matrix EXCEPT !["C"] = matrix'["C"]]
        /\ matrix'["C"] \in [0..(job.n * job.n - 1) -> Nat]
    BY <1>0, <1>3, <2>1, <2>2, RowType
  <2> QED
    BY <1>3, <2>1, <2>3, Zenon DEF VectorInv, Filled, Mats
<1>4. CASE ComputeNextRow /\ ComputeRow(job.n, job.row + 1) /\ UNCHANGED mem
  <2>1. /\ compute_pc = "row" /\ compute_pc' = "row" /\ job'.n = job.n
        /\ job.row + 1 < job.n
    BY <1>4 DEF ComputeNextRow, ComputeAt, BenchBase, BenchInv, TypeOK
  <2>2. {"A", "B"} \subseteq Filled /\ job.row + 1 \in 0..(job.n - 1)
    BY <1>0, <2>1 DEF Filled, Mats
  <2>3. /\ matrix' = [matrix EXCEPT !["C"] = matrix'["C"]]
        /\ matrix'["C"] \in [0..(job.n * job.n - 1) -> Nat]
    BY <1>0, <1>4, <2>1, <2>2, RowType
  <2> QED
    BY <1>4, <2>1, <2>3, Zenon DEF VectorInv, Filled, Mats
<1>5. CASE /\ ComputeWriteC
           /\ mem' = IF dma'.ok
                     THEN WriteTo(mem, AddrOf(dma'.addr), job.n * job.n, matrix["C"])
                     ELSE mem
           /\ UNCHANGED matrix
  <2>1. compute_pc = "row" /\ compute_pc' = "dma_c" /\ UNCHANGED job
    BY <1>5 DEF ComputeWriteC, ComputeAt, IssueDma
  <2>2. job.n * job.n \in Nat /\ matrix["C"] \in [0..(job.n * job.n - 1) -> Nat]
    BY <1>0, <2>1 DEF VectorInv, Filled, Mats
  <2>3. mem' \in [Cells -> Nat]
    BY <1>5, <2>2, WriteType, Zenon DEF VectorInv
  <2> QED
    BY <1>5, <2>1, <2>3 DEF VectorInv, Filled, Mats
<1>6. CASE /\ ComputeSpurious \/ ComputeReject \/ ComputeDone \/ ComputeDmaError
           /\ matrix' = [m \in Mats |-> NoMatrix]
           /\ UNCHANGED mem
  <2>1. compute_pc' = "start"
    BY <1>6, Zenon
    DEF ComputeSpurious, ComputeAt, ComputeReject, ComputeDone, ComputeDmaError, Finish
  <2> QED
    BY <1>6, <2>1 DEF VectorInv, Filled, Mats
<1> QED
  BY <1>1, <1>2, <1>3, <1>4, <1>5, <1>6 DEF BenchCompute

(* Every step of the bench preserves VectorInv. *)
LEMMA VectorStep ==
  ASSUME BenchBase, VectorInv, [BenchNext]_benchvars
  PROVE  VectorInv'
<1>1. CASE BenchNext /\ BenchCompute
  BY <1>1, VectorCompute DEF BenchNext
<1>2. CASE BenchNext /\ ~BenchCompute
  BY <1>2, OthersKeepData, VectorUnchanged
<1>3. CASE UNCHANGED benchvars
  BY <1>3, VectorUnchanged DEF benchvars, vars, datavars
<1> QED
  BY <1>1, <1>2, <1>3

(* At the start memory holds its contents and the vectors are empty. *)
LEMMA VectorInit == BenchInit => VectorInv
<1> SUFFICES ASSUME BenchInit PROVE VectorInv
  OBVIOUS
<1>1. mem0 \in [Cells -> Nat] /\ mem = mem0
  BY ScenarioAssumption, MemoryAssumption, Zenon DEF BenchInit
<1>2. Filled = {} /\ matrix = [m \in Mats |-> NoMatrix]
  BY DEF BenchInit, Init, Filled
<1> QED
  BY <1>1, <1>2 DEF VectorInv

(* Whatever the scenario and the contents of memory, wrapped addresses
   included, host_memory keeps its size and every vector of
   perform_matrix_multiply is empty or holds n * n numbers. *)
THEOREM BenchTypesOK == BenchSpec => []BenchTypeOK
<1>1. BenchInit => BenchBase /\ VectorInv
  BY BenchBaseInit, VectorInit
<1>2. BenchBase /\ VectorInv /\ [BenchNext]_benchvars => (BenchBase /\ VectorInv)'
  BY BenchBaseStep, VectorStep
<1>3. BenchBase /\ VectorInv => BenchTypeOK
  <2> SUFFICES ASSUME BenchBase, VectorInv PROVE BenchTypeOK
    OBVIOUS
  <2>1. TypeOK /\ mem \in [Cells -> Nat] /\ seen.status \subseteq StatusBits
    BY DEF BenchBase, BenchInv, VectorInv
  <2>2. \A m \in Mats : \/ matrix[m] = NoMatrix
                        \/ matrix[m] \in [0..(job.n * job.n - 1) -> Nat]
    BY DEF VectorInv
  <2> QED
    BY <2>1, <2>2 DEF BenchTypeOK, BenchBase, BenchInv
<1> QED
  BY <1>1, <1>2, <1>3, PTL DEF BenchSpec

-----------------------------------------------------------------------------
(* The registers hold what test_sequence has written, and job and transfer
   are those of the scenario. *)
ConfigInv ==
  /\ drv_pc \notin {"read_status", "dim_n"} => reg_dim_n = test.n
  /\ drv_pc \notin {"read_status", "dim_n", "ptr_a"} =>
       reg_matrix_ptr["A"] = test.A
  /\ drv_pc \notin {"read_status", "dim_n", "ptr_a", "ptr_b"} =>
       reg_matrix_ptr["B"] = test.B
  /\ drv_pc \notin {"read_status", "dim_n", "ptr_a", "ptr_b", "ptr_c"} =>
       reg_matrix_ptr["C"] = test.C
  /\ compute_pc # "start" => job.n = test.n
  /\ dma.mat \in Mats => dma.addr = test[dma.mat]

(* The accesses of test_sequence after the acknowledgement. *)
Acked == {"wait", "stop", "stopped"}

(* One job runs; the line is high only once it is DONE and, from the wait()
   that follows the acknowledgement, low again. *)
PhaseInv ==
  /\ computation_requested => reg_status = {"IDLE"} /\ drv_pc = "poll"
  /\ interrupt \/ interrupt_new \/ reg_int_status # {} => "DONE" \in reg_status
  /\ "DONE" \in reg_status /\ drv_pc \notin Acked => reg_int_status = {"INT_DONE"}
  /\ drv_pc \in {"read_int", "ack"} \cup Acked =>
       "DONE" \in reg_status /\ seen.status = {"IDLE", "DONE"}
  /\ drv_pc \in {"ack"} \cup Acked => seen.int_status = {"INT_DONE"}
  /\ drv_pc \in Acked => reg_int_status = {}
  /\ drv_pc = "wait" /\ sched["host"] = "runnable" => ~interrupt /\ ~interrupt_new
  /\ drv_pc \in {"stop", "stopped"} => ~interrupt /\ ~interrupt_new

(* Every access of test_sequence preserves ConfigInv. *)
LEMMA ConfigSequence ==
  ASSUME BenchBase, ConfigInv, test_sequence, test' = test
  PROVE  ConfigInv'
<1>0. /\ UNCHANGED <<compute_pc, job, dma>>
      /\ reg_matrix_ptr \in [Mats -> Ptrs]
  BY Zenon DEF test_sequence, Configure, Conclude, Poll, ReadInt, NoEffect, WriteDimN,
         WritePtr, WriteIntEnable, WriteIntStatus, WriteControl, BenchBase,
         BenchInv, TypeOK
<1>1. CASE At("read_status", "dim_n") /\ NoEffect("timed")
  BY <1>0, <1>1 DEF At, ConfigInv
<1>2. CASE At("dim_n", "ptr_a") /\ WriteDimN(4, test.n, "timed")
  BY <1>0, <1>2 DEF At, WriteDimN, Value32, ConfigInv
<1>3. CASE At("ptr_a", "ptr_b") /\ WritePtr("A", 8, test.A, "timed")
  BY <1>0, <1>3 DEF At, WritePtr, ConfigInv, Mats
<1>4. CASE At("ptr_b", "ptr_c") /\ WritePtr("B", 8, test.B, "timed")
  BY <1>0, <1>4 DEF At, WritePtr, ConfigInv, Mats
<1>5. CASE At("ptr_c", "enable") /\ WritePtr("C", 8, test.C, "timed")
  BY <1>0, <1>5 DEF At, WritePtr, ConfigInv, Mats
<1>6. ASSUME UNCHANGED config,
             drv_pc \notin {"read_status", "dim_n", "ptr_a", "ptr_b", "ptr_c"}
      PROVE  ConfigInv'
  BY <1>0, <1>6 DEF ConfigInv
<1>7. CASE At("enable", "start") /\ WriteIntEnable(4, {"INT_DONE"}, "timed")
  BY <1>6, <1>7 DEF At, WriteIntEnable
<1>8. CASE At("start", "poll") /\ WriteControl(4, {"START"}, "timed")
  BY <1>6, <1>8 DEF At, WriteControl, Value32
<1>9. CASE Poll \/ ReadInt \/ Conclude
  BY <1>6, <1>9 DEF Poll, ReadInt, Conclude, At, NoEffect, WriteIntStatus
<1> QED
  BY <1>1, <1>2, <1>3, <1>4, <1>5, <1>7, <1>8, <1>9 DEF test_sequence, Configure

(* So does every step of compute_thread. *)
LEMMA ConfigCompute ==
  ASSUME BenchBase, ConfigInv, PhaseInv, BenchCompute, UNCHANGED <<drv_pc, test>>
  PROVE  ConfigInv'
<1>0. UNCHANGED config
  BY Zenon DEF BenchCompute, ComputeSpurious, ComputeReject, ComputeBegin,
         ComputeReadB, ComputeFirstRow, ComputeNextRow, ComputeWriteC,
         ComputeDone, ComputeDmaError, Finish
<1>1. computation_requested \/ compute_pc # "start" =>
        /\ reg_dim_n = test.n
        /\ \A m \in Mats : reg_matrix_ptr[m] = test[m]
  <2>1. computation_requested \/ compute_pc # "start" => drv_pc \notin Before
    BY DEF BenchBase, BenchInv
  <2> QED
    BY <2>1 DEF ConfigInv, Before, Mats
<1>2. CASE ComputeBegin
  BY <1>0, <1>1, <1>2 DEF ComputeBegin, IssueDma, ConfigInv, Mats
<1>3. CASE ComputeReadB \/ ComputeWriteC
  <2>1. compute_pc # "start" /\ compute_pc' # "start" /\ UNCHANGED job
    BY <1>3 DEF ComputeReadB, ComputeWriteC, ComputeAt, IssueDma
  <2>2. PICK m \in Mats : dma'.mat = m /\ dma'.addr = reg_matrix_ptr[m]
    BY <1>3 DEF ComputeReadB, ComputeWriteC, IssueDma, Mats
  <2> QED
    BY <1>0, <1>1, <2>1, <2>2 DEF ConfigInv
<1>4. CASE ComputeFirstRow
  BY <1>0, <1>4 DEF ComputeFirstRow, ComputeAt, NoDma, Mats, ConfigInv
<1>5. CASE ComputeNextRow
  <2>1. job'.n = job.n /\ UNCHANGED <<compute_pc, dma>>
    BY <1>5 DEF ComputeNextRow, BenchBase, BenchInv, TypeOK
  <2> QED
    BY <1>0, <2>1 DEF ConfigInv
<1>6. CASE ComputeSpurious
  BY <1>0, <1>6 DEF ComputeSpurious, ConfigInv
<1>7. CASE ComputeReject \/ ComputeDone \/ ComputeDmaError
  <2>1. compute_pc' = "start" /\ dma' = NoDma
    BY <1>7, Zenon DEF ComputeReject, ComputeDone, ComputeDmaError, Finish
  <2> QED
    BY <1>0, <2>1 DEF ConfigInv, NoDma, Mats
<1> QED
  BY <1>2, <1>3, <1>4, <1>5, <1>6, <1>7 DEF BenchCompute

(* Every access of test_sequence preserves PhaseInv. *)
LEMMA PhaseSequence ==
  ASSUME BenchBase, PhaseInv, test_sequence
  PROVE  PhaseInv'
<1>0. /\ TypeOK /\ UNCHANGED <<interrupt, interrupt_new>>
      /\ sched' = [sched' EXCEPT !["host"] = "timed"]
      /\ sched'["host"] = "timed"
      /\ HostHasControl
      /\ drv_pc \in Before =>
           compute_pc = "start" /\ ~computation_requested /\ reg_status = {"IDLE"}
  <2>1. TypeOK
    BY DEF BenchBase, BenchInv
  <2>2. sched \in [Threads -> {"event", "timed", "runnable", "running"}]
    BY <2>1 DEF TypeOK
  <2>3. \E s \in [Threads -> {"event", "timed", "runnable", "running"}] :
          sched' = [s EXCEPT !["host"] = "timed"]
    BY <2>2
    DEF test_sequence, Configure, Conclude, Poll, ReadInt, NoEffect, WriteDimN,
        WritePtr, WriteIntEnable, WriteIntStatus, WriteControl, update_interrupt, Notify
  <2> QED
    BY <2>1, <2>3, Zenon
    DEF test_sequence, Configure, Conclude, Poll, ReadInt, NoEffect, WriteDimN,
        WritePtr, WriteIntEnable, WriteIntStatus, WriteControl, BenchBase, BenchInv
<1>1. ASSUME UNCHANGED <<reg_status, reg_int_status, computation_requested>>,
             drv_pc \in Before, drv_pc' \in Before
      PROVE  PhaseInv'
  BY <1>0, <1>1 DEF PhaseInv, Before, Acked
<1>2. CASE Configure /\ drv_pc # "start"
  BY <1>1, <1>2
  DEF Configure, At, Before, NoEffect, WriteDimN, WritePtr, WriteIntEnable
<1>3. CASE At("start", "poll") /\ WriteControl(4, {"START"}, "timed") /\ UNCHANGED seen
  <2>1. UNCHANGED <<reg_status, reg_int_status>>
    BY <1>3 DEF WriteControl, Value32
  <2> QED
    BY <1>0, <1>3, <2>1 DEF At, PhaseInv, Before, Acked
<1>4. CASE Poll
  <2>1. UNCHANGED <<reg_status, reg_int_status, computation_requested>>
    BY <1>4 DEF Poll, NoEffect
  <2>2. CASE ~interrupt
    BY <1>0, <1>4, <2>1, <2>2 DEF Poll, PhaseInv, Acked
  <2>3. CASE interrupt
    <3>1. "DONE" \in reg_status /\ reg_status = {"IDLE", "DONE"}
      BY <1>0, <2>3 DEF PhaseInv, TypeOK
    <3>2. drv_pc = "poll" /\ drv_pc' = "read_int" /\ seen'.status = reg_status
      BY <1>4, <2>3 DEF Poll, BenchBase, BenchInv
    <3> QED
      BY <1>0, <2>1, <3>1, <3>2 DEF PhaseInv, Acked
  <2> QED
    BY <2>2, <2>3
<1>5. CASE ReadInt
  <2>1. UNCHANGED <<reg_status, reg_int_status, computation_requested>>
    BY <1>5 DEF ReadInt, NoEffect
  <2>2. /\ drv_pc = "read_int" /\ drv_pc' = "ack"
        /\ seen'.status = seen.status /\ seen'.int_status = reg_int_status
    BY <1>5 DEF ReadInt, At, BenchBase, BenchInv
  <2> QED
    BY <1>0, <2>1, <2>2 DEF PhaseInv, Acked
<1>6. CASE At("ack", "wait") /\ WriteIntStatus(4, seen.int_status, "timed") /\ UNCHANGED seen
  <2>1. /\ UNCHANGED <<reg_status, computation_requested>>
        /\ reg_int_status' = reg_int_status \ seen.int_status
    BY <1>6 DEF WriteIntStatus, Value32
  <2>2. drv_pc = "ack" /\ drv_pc' = "wait"
    BY <1>6 DEF At
  <2> QED
    BY <1>0, <1>6, <2>1, <2>2 DEF PhaseInv, Acked
<1>7. CASE /\ At("wait", "stop") \/ At("stop", "stopped")
           /\ NoEffect("timed") /\ UNCHANGED seen
  <2>1. UNCHANGED <<reg_status, reg_int_status, computation_requested>>
    BY <1>7 DEF NoEffect
  <2>2. sched["host"] = "runnable"
    BY <1>0 DEF HostHasControl, BenchBase, DiscInv
  <2> QED
    BY <1>0, <1>7, <2>1, <2>2 DEF At, PhaseInv, Acked
<1> QED
  BY <1>2, <1>3, <1>4, <1>5, <1>6, <1>7 DEF test_sequence, Configure, Conclude, At

(* So does every step of compute_thread, interrupt_controller and kernel. *)
LEMMA PhaseDevice ==
  ASSUME BenchBase, PhaseInv, UNCHANGED <<drv_pc, seen>>,
         BenchCompute \/ Irq \/ Kernel
  PROVE  PhaseInv'
<1>0. /\ TypeOK
      /\ compute_pc # "start" => reg_status = {"BUSY"}
      /\ drv_pc \in Before =>
           compute_pc = "start" /\ ~computation_requested /\ reg_status = {"IDLE"}
      /\ sched["host"] # "running"
  BY DEF BenchBase, BenchInv, DiscInv
<1>1. ASSUME UNCHANGED <<reg_status, reg_int_status, computation_requested,
                         interrupt, interrupt_new>>,
             sched'["host"] = sched["host"]
      PROVE  PhaseInv'
  BY <1>1 DEF PhaseInv
<1>2. CASE ComputeSpurious \/ ComputeReadB \/ ComputeFirstRow \/ ComputeNextRow
           \/ ComputeWriteC
  BY <1>0, <1>1, <1>2
  DEF ComputeSpurious, ComputeReadB, ComputeFirstRow, ComputeNextRow,
      ComputeWriteC, IssueDma, TypeOK
<1>3. ASSUME sched'["host"] = sched["host"], UNCHANGED <<interrupt, interrupt_new>>,
             ~computation_requested', "DONE" \notin reg_status,
             "DONE" \notin reg_status', reg_int_status' = {}
      PROVE  PhaseInv'
  BY <1>3 DEF PhaseInv
<1>4. CASE ComputeBegin
  <2>1. /\ computation_requested /\ ~computation_requested'
        /\ UNCHANGED <<reg_int_status, interrupt, interrupt_new>>
        /\ sched'["host"] = sched["host"] /\ reg_status' = {"BUSY"}
    BY <1>0, <1>4 DEF ComputeBegin, IssueDma, TypeOK
  <2> QED
    BY <2>1, <1>3 DEF PhaseInv
<1>5. CASE ComputeReject
  <2>1. /\ computation_requested /\ ~computation_requested'
        /\ UNCHANGED <<reg_int_status, interrupt, interrupt_new>>
        /\ sched'["host"] = sched["host"] /\ "DONE" \notin reg_status'
    BY <1>0, <1>5
    DEF ComputeReject, Finish, Result, update_interrupt, Notify, TypeOK
  <2> QED
    BY <2>1, <1>3 DEF PhaseInv
<1>6. CASE ComputeDmaError
  <2>1. /\ compute_pc # "start" /\ UNCHANGED computation_requested
        /\ UNCHANGED <<reg_int_status, interrupt, interrupt_new>>
        /\ sched'["host"] = sched["host"] /\ "DONE" \notin reg_status'
    BY <1>0, <1>6
    DEF ComputeDmaError, Finish, Result, update_interrupt, Notify, TypeOK
  <2> QED
    BY <2>1, <1>0, <1>3 DEF PhaseInv
<1>7. CASE ComputeDone
  <2>1. /\ compute_pc # "start" /\ UNCHANGED computation_requested
        /\ UNCHANGED <<interrupt, interrupt_new>>
        /\ sched'["host"] = sched["host"]
        /\ reg_status' = {"IDLE", "DONE"}
        /\ reg_int_status' = reg_int_status \cup {"INT_DONE"}
    BY <1>0, <1>7
    DEF ComputeDone, ComputeAt, Finish, Result, update_interrupt, Notify, TypeOK
  <2>2. reg_int_status' = {"INT_DONE"} /\ ~computation_requested /\ drv_pc \notin Acked
    BY <2>1, <1>0 DEF PhaseInv, TypeOK
  <2> QED
    BY <2>1, <2>2, <1>0 DEF PhaseInv
<1>8. CASE IrqFirstRun
  BY <1>0, <1>1, <1>8 DEF IrqFirstRun, TypeOK
<1>9. CASE IrqUpdate
  <2>1. /\ UNCHANGED <<reg_status, reg_int_status, computation_requested, interrupt>>
        /\ interrupt_new' = IrqLevel /\ sched'["host"] = sched["host"]
    BY <1>0, <1>9 DEF IrqUpdate, TypeOK
  <2>2. interrupt_new' => reg_int_status # {}
    BY <2>1, Zenon DEF IrqLevel
  <2> QED
    BY <2>1, <2>2 DEF PhaseInv, Acked
<1>10. CASE UpdatePhase
  <2>1. /\ UNCHANGED <<reg_status, reg_int_status, computation_requested,
                       interrupt_new, sched>>
        /\ interrupt' = interrupt_new
    BY <1>10 DEF UpdatePhase
  <2> QED
    BY <2>1 DEF PhaseInv
<1>11. ASSUME NEW woken \in SUBSET Threads, AdvanceTime(woken)
       PROVE  PhaseInv'
  <2>1. /\ UNCHANGED <<reg_status, reg_int_status, computation_requested,
                       interrupt, interrupt_new>>
        /\ interrupt = interrupt_new /\ sched["irq"] = "event"
    BY <1>0, <1>11 DEF AdvanceTime, EvaluationDone, BenchBase, DiscInv, Inv
  <2>2. drv_pc \in Acked => ~interrupt_new
    BY <2>1 DEF PhaseInv, BenchBase, QuietInv, NoStuckLine, IrqLevel
  <2> QED
    BY <2>1, <2>2 DEF PhaseInv, Acked
<1> QED
  BY <1>2, <1>4, <1>5, <1>6, <1>7, <1>8, <1>9, <1>10, <1>11
  DEF BenchCompute, Irq, Kernel

-----------------------------------------------------------------------------
(* No buffer of the scenario reaches the end of the 64-bit address space, as
   with the literals of test_sequence. *)
NoWrap == \A m \in Mats : AddrOf(test[m]) + test.n * test.n < WORD * WORD

(* The vector m holds the buffer m as it was at the start. *)
Holds(m) ==
  /\ InMemory(test[m], test.n)
  /\ \A x \in 0..(test.n * test.n - 1) : matrix[m][x] = mem0[AddrOf(test[m]) + x]

(* The first rows of the vector C, up to job.row, are those of the product. *)
RowsDone ==
  \A i, j \in 0..(test.n - 1) :
    i <= job.row => matrix["C"][i * test.n + j] = Product(mem0, test, i, j)

(* dma_write has stored C. *)
Stored == "DONE" \in reg_status \/ (compute_pc = "dma_c" /\ dma.ok)

(* The buffer C holds the product, and nothing else has changed. *)
ProductStored ==
  /\ Feasible
  /\ \A c \in Cells :
       c \notin AddrOf(test.C)..(AddrOf(test.C) + test.n * test.n - 1) =>
         mem[c] = mem0[c]
  /\ \A i, j \in 0..(test.n - 1) :
       Entry(mem, test.C, test.n, i, j) = Product(mem0, test, i, j)

(* What the vectors and memory hold at each wait() of compute_thread. *)
DataInv ==
  /\ NoWrap
  /\ compute_pc \in {"dma_a", "dma_b"} => job.row = 0
  /\ compute_pc = "dma_a" /\ dma.ok => Holds("A")
  /\ compute_pc \in {"dma_b", "row", "dma_c"} => Holds("A")
  /\ compute_pc = "dma_b" /\ dma.ok => Holds("B")
  /\ compute_pc \in {"row", "dma_c"} => Holds("B") /\ RowsDone
  /\ compute_pc = "dma_c" => job.row + 1 = test.n
  /\ ~Stored => mem = mem0
  /\ Stored => ProductStored

(* The addresses of a buffer that does not wrap. *)
LEMMA Addresses ==
  ASSUME test \in Scenarios, NoWrap, NEW m \in Mats
  PROVE  /\ test.n \in Nat /\ test.n * test.n \in Nat
         /\ AddrOf(test[m]) \in Nat
         /\ \A x \in 0..(test.n * test.n) :
              Add(AddrOf(test[m]), x) = AddrOf(test[m]) + x
<1>1. /\ test.n \in Nat /\ WORD \in Nat
      /\ test[m].hi \in Nat /\ test[m].lo \in Nat
  <2>1. test[m] \in [hi : Words, lo : Words] /\ test.n \in Dims
    BY ScenarioAssumption DEF Ptrs, Mats
  <2>2. /\ WORD \in Nat /\ \A w \in Words : w \in Nat
        /\ \A n \in Dims : n \in Nat
    BY ScenarioAssumption, MemoryAssumption, DeviceAssumption
  <2> QED
    BY <2>1, <2>2
<1>2. test.n * test.n \in Nat /\ AddrOf(test[m]) \in Nat /\ WORD * WORD \in Nat
  BY <1>1 DEF AddrOf
<1>3. AddrOf(test[m]) + test.n * test.n < WORD * WORD
  BY DEF NoWrap
<1>4. ASSUME NEW y \in Nat, NEW k \in Nat, y < k PROVE y % k = y
  BY <1>4
<1>5. ASSUME NEW x \in 0..(test.n * test.n)
      PROVE  Add(AddrOf(test[m]), x) = AddrOf(test[m]) + x
  <2>1. AddrOf(test[m]) + x \in Nat /\ AddrOf(test[m]) + x < WORD * WORD
    BY <1>2, <1>3
  <2> QED
    BY <1>2, <1>4, <2>1 DEF Add
<1> QED
  BY <1>1, <1>2, <1>5

(* An accepted transfer of the scenario lies inside memory. *)
LEMMA AcceptedInMemory ==
  ASSUME test \in Scenarios, NoWrap, NEW m \in Mats,
         Accepts(AddrOf(test[m]), test.n * test.n)
  PROVE  InMemory(test[m], test.n)
<1>1. test.n * test.n \in 0..(test.n * test.n)
  BY Addresses
<1> QED
  BY <1>1, Addresses DEF Accepts, InMemory

(* An accepted dma_read copies the buffer. *)
LEMMA FillHolds ==
  ASSUME test \in Scenarios, NoWrap, NEW m \in Mats,
         DOMAIN matrix = Mats, mem = mem0,
         Response, Fill(m), dma'.ok, dma'.addr = test[m], job'.n = test.n
  PROVE  /\ InMemory(test[m], test.n)
         /\ \A x \in 0..(test.n * test.n - 1) :
              matrix'[m][x] = mem0[AddrOf(test[m]) + x]
<1>1. Accepts(AddrOf(test[m]), test.n * test.n)
  BY DEF Response
<1>2. InMemory(test[m], test.n)
  BY <1>1, AcceptedInMemory
<1>3. PICK junk \in Values :
        matrix'[m] = ReadFrom(mem0, AddrOf(test[m]), test.n * test.n, junk)
  BY DEF Fill
<1>4. ASSUME NEW x \in 0..(test.n * test.n - 1)
      PROVE  matrix'[m][x] = mem0[AddrOf(test[m]) + x]
  <2>1. x \in 0..(test.n * test.n)
    BY Addresses
  <2>2. Add(AddrOf(test[m]), x) = AddrOf(test[m]) + x
    BY <2>1, Addresses
  <2>3. AddrOf(test[m]) + x \in Cells
    BY <1>2, Addresses, MemoryAssumption DEF InMemory, Cells
  <2> QED
    BY <1>3, <2>2, <2>3 DEF ReadFrom
<1> QED
  BY <1>2, <1>4

(* dma_write copies the vector into the buffer and nowhere else. *)
LEMMA WriteStores ==
  ASSUME test \in Scenarios, NoWrap, InMemory(test.C, test.n), NEW data,
         mem' = WriteTo(mem0, AddrOf(test.C), test.n * test.n, data)
  PROVE  /\ \A x \in 0..(test.n * test.n - 1) : mem'[AddrOf(test.C) + x] = data[x]
         /\ \A c \in Cells :
              c \notin AddrOf(test.C)..(AddrOf(test.C) + test.n * test.n - 1) =>
                mem'[c] = mem0[c]
<1> DEFINE a == AddrOf(test.C)
           L == test.n * test.n
<1>1. /\ L \in Nat /\ a \in Nat
      /\ \A x \in 0..L : Add(a, x) = a + x
  BY Addresses DEF Mats
<1>2. a + L <= MemSize /\ MemSize \in Nat
  BY MemoryAssumption DEF InMemory
<1>3. mem' = [c \in Cells |-> IF \E i \in 0..(L - 1) : Add(a, i) = c
                              THEN data[CHOOSE i \in 0..(L - 1) : Add(a, i) = c]
                              ELSE mem0[c]]
  BY DEF WriteTo
<1> HIDE DEF a, L
<1>4. ASSUME NEW x \in 0..(L - 1) PROVE mem'[a + x] = data[x]
  <2>1. a + x \in Cells /\ Add(a, x) = a + x
    BY <1>1, <1>2 DEF Cells
  <2>2. \A i \in 0..(L - 1) : Add(a, i) = a + x => i = x
    BY <1>1
  <2>3. (CHOOSE i \in 0..(L - 1) : Add(a, i) = a + x) = x
    BY <2>1, <2>2
  <2> QED
    BY <1>3, <2>1, <2>3
<1>5. ASSUME NEW c \in Cells, c \notin a..(a + L - 1) PROVE mem'[c] = mem0[c]
  <2>1. ASSUME NEW i \in 0..(L - 1) PROVE Add(a, i) # c
    <3>1. Add(a, i) = a + i /\ a + i \in a..(a + L - 1)
      BY <1>1
    <3> QED
      BY <1>5, <3>1
  <2> QED
    BY <1>3, <2>1
<1> QED
  BY <1>4, <1>5 DEF a, L

(* The loops over j and k compute an entry of the product. *)
LEMMA EntryComputed ==
  ASSUME test \in Scenarios, NoWrap, VectorInv, job.n = test.n, test.n # 0,
         {"A", "B"} \subseteq Filled, Holds("A"), Holds("B"),
         NEW i \in 0..(test.n - 1), NEW j \in 0..(test.n - 1)
  PROVE  RowSum(test.n, i, j) = Product(mem0, test, i, j)
<1>1. test.n \in Nat \ {0} /\ AddrOf(test.A) \in Nat /\ AddrOf(test.B) \in Nat
  BY Addresses DEF Mats
<1>2. /\ matrix["A"] \in [0..(test.n * test.n - 1) -> Nat]
      /\ matrix["B"] \in [0..(test.n * test.n - 1) -> Nat]
  BY DEF VectorInv, Mats
<1>3. \A x \in 0..(test.n * test.n - 1) :
        /\ matrix["A"][x] = mem0[AddrOf(test.A) + x]
        /\ matrix["B"][x] = mem0[AddrOf(test.B) + x]
  BY DEF Holds
<1>4. RowSum(test.n, i, j) = SumTo(Terms(matrix["A"], matrix["B"], test.n, i, j), test.n)
  BY <1>1, <1>2, RowSumIs, Zenon
<1>5. Product(mem0, test, i, j)
        = SumTo(Terms(matrix["A"], matrix["B"], test.n, i, j), test.n)
  BY <1>1, <1>2, <1>3, ProductIs, Zenon
<1> QED
  BY <1>4, <1>5

(* With row r computed, the rows up to r are those of the product. *)
LEMMA RowComputed ==
  ASSUME test \in Scenarios, NoWrap, VectorInv, job.n = test.n, job.row \in Nat,
         {"A", "B"} \subseteq Filled, Holds("A"), Holds("B"),
         NEW r \in 0..(test.n - 1), ComputeRow(test.n, r),
         r = 0 \/ ("C" \in Filled /\ r = job.row + 1 /\ RowsDone),
         NEW i \in 0..(test.n - 1), NEW j \in 0..(test.n - 1), i <= r
  PROVE  matrix'["C"][i * test.n + j] = Product(mem0, test, i, j)
<1> DEFINE x == i * test.n + j
<1>1. test.n \in Nat /\ test.n # 0 /\ job.n \in Nat
  BY Addresses DEF Mats
<1>2. x \in 0..(test.n * test.n - 1) /\ x \div test.n = i /\ x % test.n = j
  BY <1>1, IndexIn, IndexJoin, Zenon
<1>3. matrix = [m \in Mats |-> matrix[m]] /\ "C" \in Mats
  BY DEF VectorInv, Mats
<1> HIDE DEF x
<1>4. matrix'["C"][x] = IF i = r THEN RowSum(test.n, r, j)
                        ELSE IF matrix["C"] = NoMatrix THEN 0 ELSE matrix["C"][x]
  BY <1>2, <1>3 DEF ComputeRow
<1>5. CASE i = r
  BY <1>1, <1>4, <1>5, EntryComputed DEF x
<1>6. CASE i # r
  <2>1. "C" \in Filled /\ r = job.row + 1 /\ RowsDone /\ i < r
    BY <1>1, <1>6
  <2>2. matrix["C"] \in [0..(test.n * test.n - 1) -> Nat]
    BY <2>1, <1>3 DEF VectorInv
  <2>3. matrix["C"] # NoMatrix
    <3>1. x \in DOMAIN matrix["C"]
      BY <1>2, <2>2, Zenon
    <3>2. DOMAIN NoMatrix = {}
      BY DEF NoMatrix
    <3> QED
      BY <3>1, <3>2
  <2>4. i <= job.row
    BY <1>1, <2>1
  <2> QED
    BY <1>4, <1>6, <2>1, <2>3, <2>4 DEF RowsDone, x
<1> QED
  BY <1>5, <1>6 DEF x

(* A step that leaves data, transfer and status alone preserves DataInv. *)
LEMMA DataUnchanged ==
  ASSUME DataInv, UNCHANGED datavars, UNCHANGED <<dma, test, reg_status>>
  PROVE  DataInv'
<1>1. UNCHANGED <<mem, mem0, matrix, compute_pc, job>>
  BY DEF datavars
<1>2. NoWrap' = NoWrap /\ Stored' = Stored /\ \A m \in Mats : Holds(m)' = Holds(m)
  BY <1>1 DEF NoWrap, Stored, Holds, InMemory, AddrOf
<1>3. RowsDone' = RowsDone
  BY <1>1 DEF RowsDone
<1>4. ProductStored' = ProductStored
  BY <1>1 DEF ProductStored, Feasible, InMemory, AddrOf, Entry
<1> QED
  BY <1>1, <1>2, <1>3, <1>4 DEF DataInv, Mats

(* Every step of compute_thread preserves DataInv. *)
LEMMA DataCompute ==
  ASSUME BenchBase, VectorInv, ConfigInv, PhaseInv, DataInv, ConfigInv',
         BenchCompute, UNCHANGED <<test, mem0>>
  PROVE  DataInv'
<1>0. /\ test \in Scenarios /\ NoWrap /\ NoWrap' /\ DOMAIN matrix = Mats
      /\ matrix = [m \in Mats |-> matrix[m]]
      /\ compute_pc # "start" =>
           /\ reg_status = {"BUSY"}
           /\ test.n \in Nat /\ test.n \in 1..MAX_N /\ job.n = test.n
           /\ job.row \in Nat /\ job.row < test.n
  <2>1. NoWrap /\ NoWrap'
    BY DEF DataInv, NoWrap, AddrOf
  <2>2. matrix = [m \in Mats |-> matrix[m]] /\ DOMAIN matrix = Mats
    BY DEF VectorInv
  <2> QED
    BY <2>1, <2>2, DeviceAssumption
    DEF BenchBase, BenchInv, DiscInv, Inv, TypeOK, ConfigInv
<1>1. ASSUME NEW m \in Mats, Holds(m), matrix'[m] = matrix[m]
      PROVE  Holds(m)'
  BY <1>1 DEF Holds, InMemory, AddrOf
<1>2. ASSUME NEW m \in Mats, Fill(m), Response, dma'.mat = m, dma'.ok,
             job'.n = test.n, mem = mem0
      PROVE  Holds(m)'
  <2>1. dma'.addr = test[m]
    BY <1>2 DEF ConfigInv
  <2>2. /\ InMemory(test[m], test.n)
        /\ \A x \in 0..(test.n * test.n - 1) :
             matrix'[m][x] = mem0[AddrOf(test[m]) + x]
    BY <1>0, <1>2, <2>1, FillHolds
  <2> QED
    BY <2>2 DEF Holds, InMemory, AddrOf
<1>3. CASE ComputeBegin /\ Response /\ Fill("A") /\ UNCHANGED mem
  <2>1. /\ compute_pc = "start" /\ reg_status = {"IDLE"}
        /\ compute_pc' = "dma_a" /\ reg_status' = {"BUSY"}
        /\ dma'.mat = "A" /\ job'.row = 0
    BY <1>3 DEF ComputeBegin, ComputeAt, IssueDma, PhaseInv
  <2>2. mem = mem0 /\ mem' = mem0' /\ ~Stored'
    BY <1>3, <2>1 DEF DataInv, Stored
  <2>3. job'.n = test.n
    BY <2>1 DEF ConfigInv
  <2>4. dma'.ok => Holds("A")'
    BY <1>2, <1>3, <2>1, <2>2, <2>3 DEF Mats
  <2> QED
    BY <1>0, <2>1, <2>2, <2>4 DEF DataInv
<1>4. CASE ComputeReadB /\ Response /\ Fill("B") /\ UNCHANGED mem
  <2>1. /\ compute_pc = "dma_a" /\ compute_pc' = "dma_b" /\ dma.ok
        /\ dma'.mat = "B" /\ UNCHANGED <<job, reg_status>>
    BY <1>4 DEF ComputeReadB, ComputeAt, IssueDma
  <2>2. mem = mem0 /\ mem' = mem0' /\ ~Stored'
    BY <1>0, <1>4, <2>1 DEF DataInv, Stored
  <2>3. dma'.ok => Holds("B")'
    BY <1>0, <1>2, <1>4, <2>1, <2>2 DEF Mats
  <2>4. Holds("A")'
    <3>1. matrix'["A"] = matrix["A"]
      BY <1>0, <1>4 DEF Fill, Mats
    <3> QED
      BY <1>1, <2>1, <3>1 DEF DataInv, Mats
  <2> QED
    BY <1>0, <2>1, <2>2, <2>3, <2>4 DEF DataInv
<1>5. ASSUME NEW r \in 0..(test.n - 1), ComputeRow(test.n, r), job'.row = r,
             compute_pc \in {"dma_b", "row"}, compute_pc' = "row",
             Holds("A"), Holds("B"), reg_status' = reg_status, UNCHANGED mem,
             r = 0 \/ (compute_pc = "row" /\ r = job.row + 1 /\ RowsDone)
      PROVE  DataInv'
  <2>1. mem = mem0 /\ mem' = mem0' /\ ~Stored'
    BY <1>0, <1>5 DEF DataInv, Stored
  <2>2. Holds("A")' /\ Holds("B")'
    <3>1. matrix'["A"] = matrix["A"] /\ matrix'["B"] = matrix["B"]
      BY <1>0, <1>5 DEF ComputeRow, Mats
    <3> QED
      BY <1>1, <1>5, <3>1 DEF Mats
  <2>3. {"A", "B"} \subseteq Filled /\ (compute_pc = "row" => "C" \in Filled)
    BY <1>5 DEF Filled, Mats
  <2>4. ASSUME NEW i \in 0..(test.n - 1), NEW j \in 0..(test.n - 1), i <= r
        PROVE  matrix'["C"][i * test.n + j] = Product(mem0, test, i, j)
    BY <1>0, <1>5, <2>3, <2>4, RowComputed
  <2>5. RowsDone'
    BY <1>5, <2>4 DEF RowsDone
  <2> QED
    BY <1>0, <1>5, <2>1, <2>2, <2>5 DEF DataInv
<1>6. CASE ComputeFirstRow /\ ComputeRow(job.n, 0) /\ UNCHANGED mem
  <2>1. /\ compute_pc = "dma_b" /\ compute_pc' = "row" /\ dma.ok
        /\ UNCHANGED <<job, reg_status>>
    BY <1>6 DEF ComputeFirstRow, ComputeAt
  <2>2. 0 \in 0..(test.n - 1) /\ job.n = test.n /\ job'.row = 0
    BY <1>0, <2>1 DEF DataInv
  <2> QED
    BY <1>5, <1>6, <2>1, <2>2 DEF DataInv
<1>7. CASE ComputeNextRow /\ ComputeRow(job.n, job.row + 1) /\ UNCHANGED mem
  <2>1. /\ compute_pc = "row" /\ compute_pc' = "row" /\ UNCHANGED reg_status
        /\ job.row + 1 < job.n /\ job'.row = job.row + 1
    BY <1>7 DEF ComputeNextRow, ComputeAt, BenchBase, BenchInv, TypeOK
  <2>2. job.row + 1 \in 0..(test.n - 1) /\ job.n = test.n
    BY <1>0, <2>1
  <2> QED
    BY <1>5, <1>7, <2>1, <2>2 DEF DataInv
<1>8. CASE /\ ComputeWriteC
           /\ Response
           /\ mem' = IF dma'.ok
                     THEN WriteTo(mem, AddrOf(dma'.addr), job.n * job.n, matrix["C"])
                     ELSE mem
           /\ UNCHANGED matrix
  <2>1. /\ compute_pc = "row" /\ compute_pc' = "dma_c" /\ dma'.mat = "C"
        /\ job.row + 1 >= job.n /\ UNCHANGED <<job, reg_status>>
    BY <1>8 DEF ComputeWriteC, ComputeAt, IssueDma
  <2>2. mem = mem0 /\ Holds("A") /\ Holds("B") /\ RowsDone /\ job'.row + 1 = test.n
    BY <1>0, <2>1 DEF DataInv, Stored
  <2>3. Holds("A")' /\ Holds("B")' /\ RowsDone'
    <3>1. RowsDone'
      BY <1>8, <2>1, <2>2 DEF RowsDone
    <3> QED
      BY <1>1, <1>8, <2>2, <3>1 DEF Mats
  <2>4. dma'.addr = test.C
    BY <2>1 DEF ConfigInv, Mats
  <2>5. CASE ~dma'.ok
    <3>1. mem' = mem0' /\ ~Stored'
      BY <1>0, <1>8, <2>1, <2>2, <2>5 DEF Stored
    <3> QED
      BY <1>0, <2>1, <2>2, <2>3, <3>1 DEF DataInv
  <2>6. CASE dma'.ok
    <3>1. Accepts(AddrOf(test.C), test.n * test.n)
      BY <1>0, <1>8, <2>1, <2>4, <2>6 DEF Response
    <3>2. InMemory(test.C, test.n)
      BY <1>0, <3>1, AcceptedInMemory DEF Mats
    <3>3. mem' = WriteTo(mem0, AddrOf(test.C), test.n * test.n, matrix["C"])
      BY <1>0, <1>8, <2>1, <2>2, <2>4, <2>6
    <3>4. /\ \A x \in 0..(test.n * test.n - 1) : mem'[AddrOf(test.C) + x] = matrix["C"][x]
          /\ \A c \in Cells :
               c \notin AddrOf(test.C)..(AddrOf(test.C) + test.n * test.n - 1) =>
                 mem'[c] = mem0[c]
      BY <1>0, <3>2, <3>3, WriteStores
    <3>5. ASSUME NEW i \in 0..(test.n - 1), NEW j \in 0..(test.n - 1)
          PROVE  Entry(mem', test.C, test.n, i, j) = Product(mem0, test, i, j)
      <4>1. i * test.n + j \in 0..(test.n * test.n - 1) /\ i * test.n \in Nat
        BY <1>0, <2>1, IndexIn
      <4>2. AddrOf(test.C) \in Nat
        BY <1>0, Addresses DEF Mats
      <4>3. AddrOf(test.C) + (i * test.n + j) = AddrOf(test.C) + i * test.n + j
        BY <4>1, <4>2
      <4>4. i <= job.row
        BY <1>0, <2>1, <2>2
      <4> QED
        BY <2>2, <3>4, <4>1, <4>3, <4>4 DEF Entry, RowsDone
    <3>6. Feasible
      BY <1>0, <2>1, <2>2, <3>2 DEF Feasible, Holds, Mats
    <3>7. ProductStored'
      <4>1. Feasible'
        BY <3>6 DEF Feasible, InMemory, AddrOf
      <4> QED
        BY <3>4, <3>5, <4>1 DEF ProductStored, AddrOf, Entry
    <3>8. Stored'
      BY <2>1, <2>6 DEF Stored
    <3> QED
      BY <1>0, <2>1, <2>2, <2>3, <3>7, <3>8 DEF DataInv
  <2> QED
    BY <2>5, <2>6
<1>9. ASSUME compute_pc' = "start", UNCHANGED mem,
             Stored' = Stored
      PROVE  DataInv'
  <2>1. ProductStored' = ProductStored
    BY <1>9 DEF ProductStored, Feasible, InMemory, AddrOf, Entry
  <2> QED
    BY <1>0, <1>9, <2>1 DEF DataInv
<1>10. CASE (ComputeSpurious \/ ComputeReject) /\ UNCHANGED mem
  <2>1. /\ compute_pc = "start" /\ compute_pc' = "start"
        /\ "DONE" \in reg_status' <=> "DONE" \in reg_status
    BY <1>10 DEF ComputeSpurious, ComputeReject, ComputeAt, Finish, Result, PhaseInv
  <2> QED
    BY <1>9, <1>10, <2>1 DEF Stored
<1>11. CASE (ComputeDone \/ ComputeDmaError) /\ UNCHANGED mem
  <2>1. /\ compute_pc # "start" /\ compute_pc' = "start"
        /\ "DONE" \in reg_status' <=> (compute_pc = "dma_c" /\ dma.ok)
    BY <1>11 DEF ComputeDone, ComputeDmaError, ComputeAt, Finish, Result
  <2> QED
    BY <1>0, <1>9, <1>11, <2>1 DEF Stored
<1> QED
  BY <1>3, <1>4, <1>6, <1>7, <1>8, <1>10, <1>11 DEF BenchCompute

-----------------------------------------------------------------------------
(* Registers, phases and data together. *)
BenchData == BenchBase /\ VectorInv /\ ConfigInv /\ PhaseInv /\ DataInv

(* At the start nothing has been written, and no buffer wraps. *)
LEMMA DataInit == BenchInit /\ NoWrap => BenchData
<1> SUFFICES ASSUME BenchInit, NoWrap PROVE BenchData
  OBVIOUS
<1>1. BenchBase /\ VectorInv
  BY BenchBaseInit, VectorInit
<1>2. ConfigInv /\ PhaseInv
  BY DEF BenchInit, Init, ConfigInv, PhaseInv, NoDma, Mats, Acked
<1>3. DataInv
  BY DEF BenchInit, Init, DataInv, Stored
<1> QED
  BY <1>1, <1>2, <1>3 DEF BenchData

(* Every step of the bench preserves BenchData. *)
LEMMA DataStep ==
  ASSUME BenchData, [BenchNext]_benchvars
  PROVE  BenchData'
<1>0. BenchBase' /\ VectorInv'
  BY BenchBaseStep, VectorStep DEF BenchData
<1>1. CASE BenchNext /\ test_sequence
  <2>1. ConfigInv' /\ PhaseInv'
    BY <1>1, ConfigSequence, PhaseSequence DEF BenchData, BenchNext
  <2>2. UNCHANGED datavars /\ UNCHANGED <<dma, test, reg_status>>
    BY <1>1, Zenon
    DEF BenchNext, test_sequence, Configure, Conclude, Poll, ReadInt, NoEffect,
        WriteDimN, WritePtr, WriteIntEnable, WriteIntStatus, WriteControl,
        Value32, datavars
  <2> QED
    BY <1>0, <2>1, <2>2, DataUnchanged DEF BenchData
<1>2. CASE BenchNext /\ BenchCompute /\ UNCHANGED <<drv_pc, seen>>
  <2>1. ConfigInv' /\ PhaseInv'
    BY <1>2, ConfigCompute, PhaseDevice DEF BenchData, BenchNext
  <2> QED
    BY <1>0, <1>2, <2>1, DataCompute DEF BenchData, BenchNext
<1>3. CASE BenchNext /\ (Irq \/ Kernel) /\ UNCHANGED <<mem, matrix, drv_pc, seen>>
  <2>1. UNCHANGED datavars /\ UNCHANGED <<dma, test, reg_status, config>>
    BY <1>3, Zenon
    DEF BenchNext, Irq, IrqFirstRun, IrqUpdate, Kernel, UpdatePhase,
        AdvanceTime, datavars
  <2>2. ConfigInv'
    BY <1>3, <2>1 DEF BenchData, ConfigInv, datavars
  <2>3. PhaseInv'
    BY <1>3, PhaseDevice DEF BenchData
  <2> QED
    BY <1>0, <2>1, <2>2, <2>3, DataUnchanged DEF BenchData
<1>4. CASE UNCHANGED benchvars
  <2>1. UNCHANGED datavars /\ UNCHANGED <<dma, test, reg_status>>
    BY <1>4 DEF benchvars, vars, datavars
  <2>2. ConfigInv' /\ PhaseInv'
    BY <1>4, Zenon DEF benchvars, vars, BenchData, ConfigInv, PhaseInv
  <2> QED
    BY <1>0, <2>1, <2>2, DataUnchanged DEF BenchData
<1> QED
  BY <1>1, <1>2, <1>3, <1>4 DEF BenchNext

(* The device computes the product: for every dimension up to MAX_N, every
   layout of the buffers that does not wrap, overlapping ones included, and
   every contents of memory, test_sequence stops only after DONE and INT_DONE,
   with the line low and the product of A and B in C. *)
THEOREM ProductComputed == BenchSpec /\ NoWrap => []TestPasses
<1>1. BenchInit /\ NoWrap => BenchData
  BY DataInit
<1>2. BenchData /\ [BenchNext]_benchvars => BenchData'
  BY DataStep
<1>3. BenchData => TestPasses
  <2> SUFFICES ASSUME BenchData, drv_pc = "stopped"
               PROVE  /\ Feasible
                      /\ seen = [status |-> {"IDLE", "DONE"},
                                 int_status |-> {"INT_DONE"}]
                      /\ ~interrupt
                      /\ \A i, j \in 0..(test.n - 1) :
                           Entry(mem, test.C, test.n, i, j) = Product(mem0, test, i, j)
    BY DEF TestPasses
  <2>1. /\ "DONE" \in reg_status /\ ~interrupt
        /\ seen.status = {"IDLE", "DONE"} /\ seen.int_status = {"INT_DONE"}
    BY DEF BenchData, PhaseInv, Acked
  <2>2. ProductStored
    BY <2>1 DEF BenchData, DataInv, Stored
  <2>3. seen = [status |-> {"IDLE", "DONE"}, int_status |-> {"INT_DONE"}]
    BY <2>1 DEF BenchData, BenchBase, BenchInv
  <2> QED
    BY <2>1, <2>2, <2>3, Zenon DEF ProductStored
<1> QED
  BY <1>1, <1>2, <1>3, PTL DEF BenchSpec

(* For the same scenarios dma_write changes no memory outside the buffer C,
   and a scenario the device cannot carry out changes none at all. *)
THEOREM OnlyCIsWritten == BenchSpec /\ NoWrap => []OnlyCWritten
<1>1. BenchInit /\ NoWrap => BenchData
  BY DataInit
<1>2. BenchData /\ [BenchNext]_benchvars => BenchData'
  BY DataStep
<1>3. BenchData => OnlyCWritten
  <2>1. ASSUME BenchData, ~Stored PROVE OnlyCWritten
    BY <2>1 DEF BenchData, DataInv, OnlyCWritten
  <2>2. ASSUME BenchData, Stored PROVE OnlyCWritten
    BY <2>2 DEF BenchData, DataInv, ProductStored, OnlyCWritten
  <2> QED
    BY <2>1, <2>2
<1> QED
  BY <1>1, <1>2, <1>3, PTL DEF BenchSpec
=============================================================================
