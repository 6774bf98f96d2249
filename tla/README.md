# A TLA+ development for pcie-systemc-linux

The repository is a PCIe co-simulation: a SystemC matrix multiplier with a BAR0
register interface and DMA, a test bench for it, a co-simulation endpoint that
QEMU talks to, a Linux driver with a character device, a user program and a
socket dump tool. These modules model the parts with state and concurrency,
check them with TLC on small instances and prove with TLAPS what can be proved
for every instance.

## Parts of the system

| Part | State | Operations | What is hard |
|---|---|---|---|
| Matrix multiplier (`custom-endpoint/matrix_multiplier_pcie.h`) | registers, `computation_requested`, two threads, interrupt signal | BAR0 writes, reset, `compute_thread`, DMA, `interrupt_controller` | cooperative threads, immediate notifications that are lost, reset of a running job, pointers read late |
| `host_memory` (`custom-endpoint/testbench.cpp`) | a byte vector | read, write | the bounds check at the edges, overlapping buffers |
| `test_driver`, `sc_main` (same file) | program counter, two locals | one job, polled through the interrupt line | ends only if the interrupt comes |
| Linux driver (`kernel-device-driver/custom_qemu_device_driver.c`) | static globals, kernel resources, open files | load, unload, probe, remove, open, ioctl, interrupt | failures part way, processes during probe and remove, unlocked ioctls |
| User program (`user-space-application/app.c`) | file descriptor, matrices | four ioctls | sharing the device with other processes |
| Endpoint (`custom-endpoint/main.cc`) | `DummyTarget` has none; `MatrixMultiplier` (commented out) has operands, opcode and a latched result | register reads and writes | the driver and the program expect a multiplier |
| `sockdump.py` (`dump-tool/`) | a slot and a ring per CPU | path filter, BPF program, poll loop | boundaries of names, CPUs that send at the same time, records that are dropped |
| System top, QEMU bridge | none | wiring, forwarding | - |

The test bench drives the multiplier directly: the device meets memory through
DMA and the driver of the test through registers and the interrupt line. The
Linux driver reaches the endpoint of `main.cc` through QEMU and a socket, and
sockdump watches that socket. No program that is built joins the Linux driver
with the matrix multiplier.

## Modules

`MatrixDevice` is the device and any TLM initiator (the host). Variables carry
the names of the registers; registers made of flags are sets of bits, a pointer
is a pair of 32-bit halves. One action is the code from one `wait()` to the next.
`sched` says what each thread waits for, so a `notify()` on a thread that is not
in `wait()` is lost, as in SystemC. Delays are not numbers: when nothing is
runnable, any set of timed threads may wake at the same instant, in any order.
This admits every timing, more than the literal delays of the code. An 8-byte
write to a 32-bit register writes 0, as the code does. The next-state relations
differ in the host only:

| Specification | Host |
|---|---|
| `Spec` | every access at every moment, with or without `wait` |
| `WaitingSpec` | waits after each access, like the `mmio_` functions |
| `EnableFirstSpec` | writes START only with an interrupt enabled |
| `QuietResetSpec` | resets only when not BUSY and with no interrupt pending |
| `DisciplinedSpec` | waits, and configures only while IDLE is shown |

`Accelerator` is what a host would like to rely on: a configured task is started,
moves its operands, and succeeds or fails. `MatrixDeviceImpl` maps the device's
state to it, with the safety part and the liveness part as separate properties.

`HostMemory` is `host_memory`, in units of one float, with the 64-bit sum of the
bounds check. `TestBench` composes device, memory and `test_sequence`; the
literals of the code (dimension, addresses, matrices) are constants. Floats are
modelled as natural numbers with exact sums and products, so rounding is left
out: "the product" is the exact one, as for the small integers of
`test_sequence`.

`PciDriver` models each kernel call of the driver as one step, with the set of
resources held. Bind, unbind and the PCI core are the kernel's, modelled from how
the driver uses them: the core takes a positive result of `probe` as success, and
a positive result of `myinit` leaves the module loaded. A release of something
not held changes nothing in the model; in the kernel it is an error, and
`CleanReleases` and `ReleasesAreHeld` are the properties about it. What the
`driver` run says of states after such a release assumes that it is harmless.

`CoSim` has the data that `PciDriver` leaves out: processes that run `app.c`, or
another program with other operands and perhaps another opcode, each `iowrite32`
and `ioread32` of `dev_ioctl` as a step, and `irq_handler`. The endpoint is
`DummyTarget`, which is built and keeps nothing, or `MatrixMultiplier`, which
`main.cc` keeps commented out (lines 121-220) and which the driver and `app.c` are
written for: a write marks the result as out of date, and a read of its first
word, and of no other, multiplies if it is. A register holds the name of the
program whose word it is; a word of the result is a program's only if the whole
row and the whole column it was computed from are. Sessions fail, or are killed
between two calls, and leave their operands behind. `harm` is a history variable:
`late` if a word of the session was overwritten after its first read of the
result, `spoilt` if one was before, or if somebody multiplied while the session
was `late`.

`SockFilter` is the path filter of sockdump down to the bytes: `build_filter`,
the two reads into `path[]` and the comparison of words. `SockDump` composes it
with `main`, the BPF program on every CPU, the rings and `parse_event`. A
ring holds `RING` records instead of pages; a read of user memory may fault and
then yields zeros, as `bpf_probe_read` does. The build for kernels from 6.0 on is
modelled.

`MC*` modules give the constants their values; the `*Proofs` modules,
`SockDumpInvariant` and `MatrixArithmetic` hold the theorems and lemmas.
Definitions marked "Mutant" are plausible mistakes; each shows that one property
notices it.

## Runs

| Run | Shows |
|---|---|
| `any_host` | BUSY is always a sound job; every job ends and shows IDLE, one that a reset made the registers forget too; the swallowed first update is the first one there is; an interrupt is lost only after a START with no interrupt enabled (history variable `early` of `MCAnyHost`) |
| `quiet_reset` | no START lost, no DMA after IDLE, no stuck line, each START ends |
| `disciplined` | the device implements `Accelerator`; a started task ends |
| `test_bench` | C is the product of the original A and B, also when buffers overlap; nothing else is written; no interrupt is lost; `sc_stop` is reached; the driver is disciplined |
| `driver` | error labels and `pci_remove` keep order and leave nothing but the enabled device; after a probe that returned 0 only held resources are released, and a descriptor opened after probe reaches mapped registers until an unbind |
| `cosim` | with `MatrixMultiplier` a process prints the product of its own operands, whatever earlier, failed or killed sessions left behind and whatever others do meanwhile, except for the two interleavings that `harm` calls `spoilt` |
| `sockdump` | an argument without `@` selects every pathname it asks for and no other pathname; abstract sockets are caught by `@` and their name; records of several CPUs do not mix; every segment due is output once, waiting or counted as dropped; what a ring took is output |

Five runs are expected to find a violation:

- `lost_start`: START after RESET of a running job is announced ("Computation
  started") and never carried out: `compute_thread` is in a timed wait, so the
  notification is lost.
- `lost_interrupt`: `dont_initialize()` makes the first notification start
  `interrupt_controller` without an update; a completion at that instant is lost.
- `probe_failure`: `pci_probe` returns 1 on failure ("1: failed"), which is success
  to the PCI core. In the trace its first call fails, and `rmmod` then has
  `pci_remove` free an interrupt that was never requested.
- `dummy_endpoint`: with `DummyTarget` a process alone at the device prints the
  constant 0xABCD1234 in every place, while `app.c` lists the product under
  "RESULT MUST BE...".
- `probe_window`: the node exists before `pci_iomap`; an early ioctl uses an
  unmapped `mmio`.

Bounds. `MAX_N = 2` with dimensions 0, 2 and 3 has a rejected small and large
dimension and a job of more than one row. One word value suffices where
addresses do not matter; `disciplined` has two, so that torn and stale pointers
differ from good ones. The test bench has 12 cells, words of 16 values and
memories without symmetry. The driver has two processes and the 16 accesses of
the code. `cosim` has two processes, two programs, one of them with opcode 1, and
matrices of 2 by 2, in which the word that `irq_handler` overwrites exists. `sockdump` has paths of at
most 3 bytes in words of 2, so that names end inside and at the end of a word
and of `sun_path`; CPUs 0, 1 and 3, of which the last has no slot; messages of
three segments where two are captured; a ring of one record; two messages, as
every hazard needs at most two. Deadlock is not checked where the program ends:
`sc_stop` in `test_bench`, a signal in `sockdump`.

Fairness. The SystemC kernel runs every runnable thread and updates signals
(weak fairness). All delays are finite and time diverges, so a timed
`compute_thread` wakes (strong fairness, as other threads may keep time from
reaching it for a while). A host in control calls `wait` eventually. In the
test bench every timed thread wakes, the driver's included. Nothing more is
assumed of the host's accesses. `TestTerminates` is restricted to feasible
scenarios: a failed job raises no interrupt and the driver would poll forever.
In sockdump `main` runs on and `perf_buffer_poll`, which visits every ring,
serves each of them; nothing is assumed of senders or signals.

## What the code does that a reader may not expect

- `reset_device` clears the interrupt registers without `update_interrupt()`: a
  reset with an interrupt pending leaves the line high (hence the condition of
  `quiet_reset`).
- The sum `addr + len` of `host_memory` wraps for a buffer at the top of the
  64-bit address space, so the bounds check passes and the copy is undefined; no
  scenario of `test_bench` goes there.
- IO_IRQ_STATUS 0x24 and IO_IRQ_ACK 0x64 are words of the two operands, so
  handling an interrupt overwrites one word of the second operand.
- Two processes at the device are not kept apart: one that writes its operands
  between another's writes and its first read of the result spoils it. Once the
  first word is read the latched result protects the reader, until somebody
  multiplies again.
- A descriptor that is open during an unbind reaches unmapped registers, and so
  does every access if `pci_iomap` fails, which is not checked.
- sockdump: `build_filter` drops the `@`, so `@name` also matches the pathname
  `name`, and both `@name` and `name` match every abstract name that begins with
  it. With a trailing `*` an abstract socket is never matched as the sender,
  because one byte less is read, and as a peer only if the last byte left by the
  sender's name completes it. `PathsSelected` is about pathnames and arguments
  without `@` for this reason; that nothing but what was asked for is selected is
  not true of this code. An abstract socket is reported with an empty path; a pathname of
  the full 108 bytes can be watched by prefix only. Format `pcap` stops in `main`
  because a file object has no `.buffer`; the default format, `readable`,
  raises a TypeError for non-empty data, because iterating over a `c_char` array
  yields bytes (after `parse_event`, where the model ends). With a
  `seg_size` that does not suit the ring's alignment, padding follows cut data.

## Proofs

All theorems hold for every value of the constants that meets the named
assumptions (`DeviceAssumption`, `MemoryAssumption`, `ScenarioAssumption`,
`DriverAssumption`, `CoSimAssumption`, `FilterAssumption`,
`SockDumpAssumption`).

`MatrixDeviceProofs`: `SafeForEveryHost` (`TypeOK`, `BusyJobSound`, `IrqDormant`
under `Spec`), `QuietResetSafe` (`NoLostStart`, `IdleMeansNoDma`, `NoStuckLine`
under `QuietResetSpec`) and `EnableFirstSafe` (`NoLostInterrupt` under
`EnableFirstSpec`), with a corollary theorem for each property. None of the
properties is inductive. `Inv` adds which wait each thread may be in and that a
thread at `wait(start_event)` has shown IDLE. `QuietInv` adds that a running job
is exactly BUSY: a host that resets a quiet device cannot wake `compute_thread`
in a timed wait. `EnableInv` adds that before the first run of
`interrupt_controller` no completion exists, and that a job then still waits for
time, which cannot advance past a runnable `interrupt_controller`.

The same module has `DeviceImplementsAccelerator`, the safety part of the
refinement, for `DisciplinedSpec`. `DiscInv` adds to `Inv` that the host has no control
from START until `compute_thread` has set BUSY, that a running job shows BUSY and
nothing else, and that the transfer in flight is the one `compute_thread` waits
for. Then a configuring host meets no task, and the pointers, which are read
late, are those of START. Each step maps to a step of `Accelerator` or to a stutter: configuration
writes, the issue of a transfer, the ends of a job, one lemma each.

`TestBenchProofs`: `DriverIsDisciplined`, for every scenario; `BenchInv` says that
the device is idle with nothing requested until START has been written. From
there `BenchImplementsAccelerator` is the composition of the two results.
`BenchLosesNoInterrupt` and `BenchLosesNoStart` carry the
conditional results about the device to the program that uses it: `test_sequence`
enables the interrupt before START and never resets, so the bench is an instance
of `EnableFirstSpec` (`BenchEnablesFirst`) and of `QuietResetSpec`
(`BenchResetsQuiet`), and what the runs `lost_interrupt` and `lost_start` find
for other hosts cannot happen in it.

The data follow in three layers. `BenchTypesOK` needs `VectorInv`: which of the
vectors of `perform_matrix_multiply` exist at each `wait()`, each with n * n
numbers; it holds for wrapping addresses too. `ConfigInv` and `PhaseInv` tie the
registers, the local copies and the phase of `test_sequence` to the scenario.
`DataInv` says what each vector and memory hold: A and B as they were at the
start from the moment they have been read, the rows of C up to `job.row`, memory
as it was until C is stored, and the product afterwards, unchanged. This gives
`ProductComputed` (`TestPasses`) and `OnlyCIsWritten` (`OnlyCWritten`) for every
dimension up to `MAX_N`, every content of memory and every layout, overlapping
buffers included, because both operands are read whole before C is written. Both
theorems have one hypothesis on the initial state, `NoWrap`: no buffer of the
scenario reaches the end of the 64-bit address space. The sum in the bounds check
wraps there, and what the copy then does is undefined; the literals of
`test_sequence` are far from it. That the loop over k computes the sum of the reference definition is
`MatrixArithmetic`: the recursive function and the sum over a set are compared by
induction in the form of a least counterexample, which needs no operator as a
parameter. The same module has the index arithmetic of a matrix stored row by
row.

`PciDriverProofs`: all invariants of the `driver` run, for any number of
processes and any set of failing calls; `HandlerMapped`, `ReleasesClean` and
`AccessMapped` assume that `pci_iomap` does not fail. The invariant says, for each
position in the call sequences of probe, error path, remove and exit, exactly
which resources of the character device are held.

`CoSimProofs`: `OwnProductHolds` and `CoSimTypeOK`, for every `DIM`, any number of
processes and any programs. `Inv` says that the words a session has stored are in
the registers while nobody has harmed it (`Written`), that a valid result is the
product of the operands in the registers (`Latched`), and that a session that is
not spoilt and is reading the result has the whole of it as its own, the part
still to be read too (`Reads`), even after its operands were overwritten.

`SockFilterProofs`: `WordsSelectPaths` and `AbstractNamesCaught` are about the
operators of `SockFilter` alone, for every argument, every pair of addresses,
every `UNIX_PATH_MAX` and every word size. Equality of words is turned into
equality of bytes index by index; the cases are the two reads into one buffer,
of which the second may leave bytes of the first. Two arguments are excluded by
`SockDumpAssumption` and the theorems: the empty one, at which `build_filter`
stops with an IndexError, and `*` alone, where the length of the read of an
abstract name is -1 and what happens is up to the BPF verifier. `PathsAreSelected`
and `AbstractIsCaught` carry the two results to every state of `SockDump`.

`SockDumpInvariant` and `SockDumpProofs`: `DumpTypesOK`, `EventsFaithful` and `RecordsAccounted` (`TypeOK`,
`Faithful`, `Accounted`) rest on one inductive invariant, `DumpInv`, for any
finite set of CPUs, any messages, ring size and alignment. Besides types it says
which message a running program is at and that no two run for the same one
(`ProbeInv`), that a slot holds the header of that message, and before a
submit also its data (`SlotInv`), that a record in a ring or in the output is
true of its segment (`RecordInv`), that no segment has two records (`UniqueInv`)
and that each segment so far is in one of the three places, a ring, the output or
the lost (`MadeInv`). A slot is shared by nobody because it is chosen by the
number of the CPU; a CPU without a slot submits nothing. `SockDumpInvariant`
states `DumpInv`, shows that the start, `main`, a send and the filling of a slot
keep it, and that what `parse_event` makes of a true record is true of its
message; `SockDumpProofs` has the submit and the poll, the theorems, and the
counting behind `Accounted`. Of messages `SockDumpAssumption` says that a single
buffer (`ubuf`) is one segment as long as the length argument of the send; that
length is what a record of an unreadable message carries, without data.

Only model-checked: all liveness (`BusyEnds`, `InterruptDelivered`,
`StartCompletes`, `TasksEnd`, `TestTerminates`, `Delivered`), which is out of the
prover's reach, and `LossNeedsEarlyStart`, whose counterpart without the history
variable is `EnableFirstSafe`. Every other invariant and safety property of the
passing runs has a theorem.

## Not modelled

The bytes returned by register reads of the multiplier, the rounding of floats,
log output, delays as numbers. The text that sockdump prints, its options `--bpf` and `--disassemble`,
the argument `*` alone, the process name in a record and the build for kernels
before 6.0. The count behind `pci_enable_device`, which the PCI core keeps.
`TrafficMonitor` passes a transaction on unchanged and has no state; `sc_main` of
`main.cc` hands over to the remote-port library. `pcie_system_top.h`,
`qemu-bridge.h` and `pci-defs-fix.h` wire modules of submodules that are not in
the repository and belong to no target that is built. QEMU, remote-port,
libsystemctlm-soc and pcie-model are submodules; the build files and the
Wireshark dissector have no state.
