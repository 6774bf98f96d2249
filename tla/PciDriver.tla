------------------------------ MODULE PciDriver ------------------------------
(***************************************************************************)
(* kernel-device-driver/custom_qemu_device_driver.c: the life of the       *)
(* driver and of its one device.  The kernel (external) loads and unloads  *)
(* the module, calls pci_probe and pci_remove, and runs the file           *)
(* operations of user processes; each kernel call of the driver is one     *)
(* step, so user processes run in between.  held is the set of resources   *)
(* the driver really has; a release of what is not held changes nothing.   *)
(***************************************************************************)
EXTENDS Naturals, Sequences

CONSTANTS
  Users,      (* user processes                                            *)
  IoWords,    (* registers one matrix ioctl accesses: 16 in the code       *)
  MayFail     (* the calls that may fail                                   *)

CharDev == {"chrdev", "cdev", "class", "node"}
Resources == CharDev \cup {"driver", "enabled", "region", "map", "irq"}

ASSUME DriverAssumption ==
  /\ IoWords \in Nat \ {0}
  /\ MayFail \subseteq Resources \cup {"flags"}

VARIABLES
  module,     (* "out", "in", or "going" once rmmod has started            *)
  bound,      (* the PCI core considers the driver bound to the device     *)
  core,       (* the function the kernel runs now and its next call        *)
  ret,        (* the result of the last pci_probe, or of a failed myinit   *)
  held,
  file,       (* per user, its file descriptor: "closed", "open", or       *)
              (* "stale" if it was opened while pci_probe or pci_remove    *)
              (* ran or the device has been unbound since (a history)      *)
  left        (* per user, the register accesses left in its ioctl         *)

vars == <<module, bound, core, ret, held, file, left>>

(* Mutants: the region is not requested; the class goes before the node;   *)
(* the registers go before the handler; the region is not released.        *)
ProbeCallsNoRegion == <<"chrdev", "cdev", "class", "node", "enabled", "map",
                        "irq", "flags">>
UnwindCallsSwapped == <<"class", "node", "cdev", "chrdev">>
RemoveCallsMapFirst ==
  <<"map", "irq", "region", "node", "class", "cdev", "chrdev">>
RemoveCallsNoRegion == <<"irq", "map", "node", "class", "cdev", "chrdev">>

(* The calls of pci_probe in order; "flags" is the check of the BAR type.  *)
ProbeCalls == <<"chrdev", "cdev", "class", "node", "enabled", "region",
                "map", "irq", "flags">>
(* The calls from label error_pci on. *)
UnwindCalls == <<"node", "class", "cdev", "chrdev">>
RemoveCalls == <<"irq", "map", "region", "node", "class", "cdev", "chrdev">>

Calls == [idle |-> <<>>, probe |-> ProbeCalls, unwind |-> UnwindCalls,
          remove |-> RemoveCalls, exit |-> <<"driver">>]

Idle == [op |-> "idle", i |-> 1]
Run(op) == [op |-> op, i |-> 1]
Call == Calls[core.op][core.i]       \* the next call, if core is not Idle
NextCall == [core EXCEPT !.i = @ + 1]

TypeOK ==
  /\ module \in {"out", "in", "going"}
  /\ bound \in BOOLEAN
  /\ core.op \in DOMAIN Calls
  /\ core # Idle => core.i \in DOMAIN Calls[core.op]
  /\ ret \in {0, 1}
  /\ held \subseteq Resources
  /\ file \in [Users -> {"closed", "open", "stale"}]
  /\ left \in [Users -> 0..IoWords]

Init ==
  /\ module = "out"
  /\ bound = FALSE
  /\ core = Idle
  /\ ret = 0
  /\ held = {}
  /\ file = [u \in Users |-> "closed"]
  /\ left = [u \in Users |-> 0]

users == <<file, left>>

-----------------------------------------------------------------------------
(* insmod: myinit registers the driver and the PCI core probes the device. *)
(* When that fails myinit returns 1, which leaves the module loaded.       *)
Insmod ==
  /\ module = "out"
  /\ module' = "in"
  /\ \/ held' = held \cup {"driver"} /\ core' = Run("probe") /\ ret' = ret
     \/ "driver" \in MayFail /\ ret' = 1 /\ UNCHANGED <<held, core>>
  /\ UNCHANGED <<bound, users>>

(* Mutant: fops has no owner, so open files hold no reference. *)
RmmodNoOwner ==
  /\ module = "in"
  /\ core = Idle
  /\ module' = "going"
  /\ core' = IF bound THEN Run("remove") ELSE Run("exit")
  /\ UNCHANGED <<bound, ret, held, users>>

(* rmmod, refused while a file descriptor holds a reference: myexit        *)
(* unregisters the driver, which removes a bound device first.             *)
Rmmod ==
  /\ module = "in"
  /\ core = Idle
  /\ \A u \in Users : file[u] = "closed"
  /\ module' = "going"
  /\ core' = IF bound THEN Run("remove") ELSE Run("exit")
  /\ UNCHANGED <<bound, ret, held, users>>

(* The device is bound and unbound through sysfs. *)
Bind ==
  /\ "driver" \in held /\ module = "in"
  /\ core = Idle /\ ~bound
  /\ core' = Run("probe")
  /\ UNCHANGED <<module, bound, ret, held, users>>

(* An unbind takes no file descriptor back. *)
Unbind ==
  /\ core = Idle /\ bound /\ module = "in"
  /\ core' = Run("remove")
  /\ file' = [u \in Users |-> IF file[u] = "closed" THEN "closed" ELSE "stale"]
  /\ UNCHANGED <<module, bound, ret, held, left>>

-----------------------------------------------------------------------------
(* The call of pci_probe at hand succeeds; the last one ends in return 0.  *)
ProbeCall ==
  /\ core.op = "probe"
  /\ held' = held \cup ({Call} \ {"flags"})
  /\ LET last == core.i = Len(ProbeCalls)
     IN /\ core' = IF last THEN Idle ELSE NextCall
        /\ bound' = (bound \/ last)
        /\ ret' = IF last THEN 0 ELSE ret
  /\ UNCHANGED <<module, users>>

(* Mutant: a failing class_create jumps one label too far. *)
LabelSkips(call) ==
  CASE call = "cdev" -> 4
    [] call = "class" -> 4
    [] call = "node" -> 2
    [] OTHER -> 1

(* Where the goto of a failing call enters UnwindCalls. *)
Label(call) ==
  CASE call = "cdev" -> 4
    [] call = "class" -> 3
    [] call = "node" -> 2
    [] OTHER -> 1

(* The call of pci_probe fails.  The result of pci_iomap is not looked at; *)
(* a failing alloc_chrdev_region returns 1 at once.                        *)
ProbeFails ==
  /\ core.op = "probe"
  /\ Call \in MayFail
  /\ core' = CASE Call = "map" -> NextCall
               [] Call = "chrdev" -> Idle
               [] OTHER -> [op |-> "unwind", i |-> Label(Call)]
  /\ bound' = (bound \/ Call = "chrdev")
  /\ ret' = IF Call = "chrdev" THEN 1 ELSE ret
  /\ UNCHANGED <<module, held, users>>

(* One release of the error path; then return 1.  The PCI core treats a    *)
(* positive result of probe as success.                                    *)
UnwindCall ==
  /\ core.op = "unwind"
  /\ held' = held \ {Call}
  /\ LET last == core.i = Len(UnwindCalls)
     IN /\ core' = IF last THEN Idle ELSE NextCall
        /\ bound' = (bound \/ last)
        /\ ret' = IF last THEN 1 ELSE ret
  /\ UNCHANGED <<module, users>>

(* One release of pci_remove. *)
RemoveCall ==
  /\ core.op = "remove"
  /\ held' = held \ {Call}
  /\ LET last == core.i = Len(RemoveCalls)
     IN /\ core' = IF ~last THEN NextCall
                   ELSE IF module = "going" THEN Run("exit") ELSE Idle
        /\ bound' = (bound /\ ~last)
  /\ UNCHANGED <<module, ret, users>>

(* The end of pci_unregister_driver. *)
ExitCall ==
  /\ core.op = "exit"
  /\ held' = held \ {Call}
  /\ core' = Idle
  /\ module' = "out"
  /\ UNCHANGED <<bound, ret, users>>

-----------------------------------------------------------------------------
(* open() of /dev/cpcidev_pci takes a reference to the module. *)
Open(u) ==
  /\ file[u] = "closed"
  /\ {"cdev", "node"} \subseteq held
  /\ module = "in"
  /\ file' = [file EXCEPT ![u] = IF core = Idle THEN "open" ELSE "stale"]
  /\ UNCHANGED <<module, bound, core, ret, held, left>>

(* Mutant: the loop bound is <= instead of <. *)
dev_ioctlOneMore(u) ==
  /\ file[u] # "closed"
  /\ left[u] = 0
  /\ \E words \in {1, IoWords + 1} : left' = [left EXCEPT ![u] = words]
  /\ UNCHANGED <<module, bound, core, ret, held, file>>

(* dev_ioctl up to the loop over the registers: a matrix command or the    *)
(* opcode.  An unknown command, and a copy_from_user that fails, return    *)
(* without an access and without a change.                                 *)
dev_ioctl(u) ==
  /\ file[u] # "closed"
  /\ left[u] = 0
  /\ \E words \in {1, IoWords} : left' = [left EXCEPT ![u] = words]
  /\ UNCHANGED <<module, bound, core, ret, held, file>>

(* One iowrite32 or ioread32 through mmio. *)
Access(u) ==
  /\ left[u] > 0
  /\ left' = [left EXCEPT ![u] = @ - 1]
  /\ UNCHANGED <<module, bound, core, ret, held, file>>

Close(u) ==
  /\ file[u] # "closed"
  /\ left[u] = 0
  /\ file' = [file EXCEPT ![u] = "closed"]
  /\ UNCHANGED <<module, bound, core, ret, held, left>>

UserStep == \E u \in Users : Open(u) \/ dev_ioctl(u) \/ Access(u) \/ Close(u)

Next ==
  \/ Insmod \/ Rmmod \/ Bind \/ Unbind
  \/ ProbeCall \/ ProbeFails \/ UnwindCall \/ RemoveCall \/ ExitCall
  \/ UserStep

Spec == Init /\ [][Next]_vars

-----------------------------------------------------------------------------
(***************************************************************************)
(* Properties that hold whatever calls fail (but see IrqHandlerMapped).    *)
(***************************************************************************)

(* While the node is in /dev, the character device, its number and its     *)
(* class exist: pci_probe, its error path and pci_remove keep the order.   *)
NodeBacked == "node" \in held => CharDev \subseteq held

(* Between two calls of the kernel into the driver, the character device   *)
(* is complete or gone: the error labels of pci_probe undo exactly what    *)
(* was done before the goto.                                               *)
AllOrNothing ==
  core = Idle => CharDev \subseteq held \/ CharDev \cap held = {}

(* irq_handler, which may run whenever it is registered, finds the         *)
(* registers mapped.  It needs pci_iomap not to fail.                      *)
IrqHandlerMapped == "irq" \in held => "map" \in held

(* Once the module is out, it holds nothing but the enabled device, which  *)
(* pci_remove never disables.                                              *)
UnloadReleases == module = "out" => held \subseteq {"enabled"}

(* The error path of pci_probe releases only what is held, and so do       *)
(* pci_remove and myexit if pci_probe and myinit returned 0.               *)
CleanReleases ==
  /\ core.op = "unwind" => Call \in held
  /\ core.op \in {"remove", "exit"} /\ ret = 0 => Call \in held

(* A descriptor opened when pci_probe had returned reaches mapped registers *)
(* with every access of dev_ioctl: rmmod waits for it, and only an unbind  *)
(* makes it stale.                                                         *)
OpenAccessMapped ==
  \A u \in Users : file[u] = "open" /\ left[u] > 0 => "map" \in held

(***************************************************************************)
(* What the driver does not ensure.                                        *)
(***************************************************************************)

(* Every release call of the error path, pci_remove and myexit releases    *)
(* something that is held, whatever pci_probe and myinit returned.         *)
ReleasesAreHeld ==
  core.op \in {"unwind", "remove", "exit"} => Call \in held

(* Every register access of dev_ioctl goes to mapped registers, whenever   *)
(* the node was opened.                                                    *)
MmioAccessMapped == \A u \in Users : left[u] > 0 => "map" \in held
=============================================================================
