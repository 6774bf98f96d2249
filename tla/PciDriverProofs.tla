--------------------------- MODULE PciDriverProofs ---------------------------
(***************************************************************************)
(* The invariants of PciDriver for any number of users and of words per    *)
(* ioctl and for every set of calls that may fail; those that speak of the *)
(* mapped registers need pci_iomap to succeed.                             *)
(***************************************************************************)
EXTENDS PciDriver, TLAPS

Has(r) == r \in held
Mapping == "map" \notin MayFail

CoreOK ==
  /\ core \in [op : {"idle", "probe", "unwind", "remove", "exit"}, i : 1..9]
  /\ core.op = "idle" => core.i = 1
  /\ core.op = "unwind" => core.i <= 4
  /\ core.op = "remove" => core.i <= 7
  /\ core.op = "exit" => core.i = 1

(* The state of the module and of the PCI core while a function runs. *)
PhaseOK ==
  /\ module = "out" => core.op = "idle" /\ ~bound /\ ~Has("driver")
  /\ module = "going" => core.op \in {"remove", "exit"}
  /\ core.op \in {"probe", "unwind"} => ~bound /\ module = "in"
  /\ core.op = "remove" => bound
  /\ core.op = "exit" => ~bound /\ module = "going"
  /\ bound \/ core.op \in {"probe", "unwind"} => Has("driver")
  /\ module # "out" /\ ret = 0 => Has("driver")

(* Between two functions: everything, or nothing that pci_remove would     *)
(* leave behind, or what a failed pci_probe leaves behind.                 *)
IdleHeld ==
  core.op \in {"idle", "exit"} =>
    /\ ~bound => held \subseteq {"driver", "enabled"}
    /\ bound /\ ret = 0 => CharDev \subseteq held /\ Has("region") /\ Has("irq")
    /\ bound /\ ret = 0 /\ Mapping => Has("map")
    /\ bound /\ ret = 1 => CharDev \cap held = {}

(* pci_probe holds exactly what its calls so far acquired. *)
ProbeHeld ==
  core.op = "probe" =>
    /\ Has("chrdev") <=> core.i > 1
    /\ Has("cdev") <=> core.i > 2
    /\ Has("class") <=> core.i > 3
    /\ Has("node") <=> core.i > 4
    /\ Has("region") <=> core.i > 6
    /\ Has("irq") <=> core.i > 8
    /\ Has("map") => core.i > 7
    /\ Mapping /\ core.i > 7 => Has("map")

(* The error path holds exactly what it has still to release. *)
UnwindHeld ==
  core.op = "unwind" =>
    /\ Has("node") <=> core.i <= 1
    /\ Has("class") <=> core.i <= 2
    /\ Has("cdev") <=> core.i <= 3
    /\ Has("chrdev")

(* pci_remove holds nothing it has released, and after a pci_probe that    *)
(* returned 0 all it has still to release.                                 *)
RemoveHeld ==
  core.op = "remove" =>
    /\ Has("irq") => core.i <= 1
    /\ Has("map") => core.i <= 2
    /\ Has("region") => core.i <= 3
    /\ ret = 1 => CharDev \cap held = {}
    /\ ret = 0 =>
         /\ core.i <= 1 => Has("irq")
         /\ Mapping /\ core.i <= 2 => Has("map")
         /\ core.i <= 3 => Has("region")
         /\ Has("node") <=> core.i <= 4
         /\ Has("class") <=> core.i <= 5
         /\ Has("cdev") <=> core.i <= 6
         /\ Has("chrdev")

MapFirst == Mapping /\ Has("irq") => Has("map")

FilesOK == \A u \in Users : file[u] = "open" => core = Idle /\ bound /\ ret = 0

Inv ==
  /\ TypeOK /\ CoreOK /\ PhaseOK
  /\ IdleHeld /\ ProbeHeld /\ UnwindHeld /\ RemoveHeld
  /\ MapFirst /\ FilesOK

-----------------------------------------------------------------------------
(* The tables of calls, entry by entry. *)
LEMMA Tables ==
  /\ Calls.probe = ProbeCalls /\ Calls.unwind = UnwindCalls
  /\ Calls.remove = RemoveCalls /\ Calls.exit = <<"driver">>
  /\ DOMAIN Calls = {"idle", "probe", "unwind", "remove", "exit"}
  /\ Len(ProbeCalls) = 9 /\ Len(UnwindCalls) = 4 /\ Len(RemoveCalls) = 7
  /\ DOMAIN ProbeCalls = 1..9 /\ DOMAIN UnwindCalls = 1..4
  /\ DOMAIN RemoveCalls = 1..7 /\ DOMAIN <<"driver">> = {1}
<1>1. /\ Calls.probe = ProbeCalls /\ Calls.unwind = UnwindCalls
      /\ Calls.remove = RemoveCalls /\ Calls.exit = <<"driver">>
      /\ DOMAIN Calls = {"idle", "probe", "unwind", "remove", "exit"}
  BY DEF Calls
<1>2. Len(ProbeCalls) = 9 /\ DOMAIN ProbeCalls = 1..9
  BY DEF ProbeCalls
<1>3. Len(UnwindCalls) = 4 /\ DOMAIN UnwindCalls = 1..4
  BY DEF UnwindCalls
<1>4. Len(RemoveCalls) = 7 /\ DOMAIN RemoveCalls = 1..7
  BY DEF RemoveCalls
<1>5. DOMAIN <<"driver">> = {1}
  OBVIOUS
<1> QED
  BY <1>1, <1>2, <1>3, <1>4, <1>5

(* The next call of pci_probe. *)
LEMMA ProbeAt ==
  ASSUME CoreOK, core.op = "probe"
  PROVE  /\ core.i \in 1..9
         /\ core.i = 1 <=> Call = "chrdev"
         /\ core.i = 2 <=> Call = "cdev"
         /\ core.i = 3 <=> Call = "class"
         /\ core.i = 4 <=> Call = "node"
         /\ core.i = 5 <=> Call = "enabled"
         /\ core.i = 6 <=> Call = "region"
         /\ core.i = 7 <=> Call = "map"
         /\ core.i = 8 <=> Call = "irq"
         /\ core.i = 9 <=> Call = "flags"
         /\ Call \in Resources \cup {"flags"}
<1>1. core.i \in 1..9 /\ Call = ProbeCalls[core.i]
  BY Tables DEF CoreOK, Call
<1> QED
  BY <1>1 DEF ProbeCalls, Resources, CharDev

(* The next call of the error path. *)
LEMMA UnwindAt ==
  ASSUME CoreOK, core.op = "unwind"
  PROVE  /\ core.i \in 1..4
         /\ core.i = 1 <=> Call = "node"
         /\ core.i = 2 <=> Call = "class"
         /\ core.i = 3 <=> Call = "cdev"
         /\ core.i = 4 <=> Call = "chrdev"
         /\ Call \in CharDev
<1>1. core.i \in 1..4 /\ Call = UnwindCalls[core.i]
  BY Tables DEF CoreOK, Call
<1> QED
  BY <1>1 DEF UnwindCalls, CharDev

(* The next call of pci_remove. *)
LEMMA RemoveAt ==
  ASSUME CoreOK, core.op = "remove"
  PROVE  /\ core.i \in 1..7
         /\ core.i = 1 <=> Call = "irq"
         /\ core.i = 2 <=> Call = "map"
         /\ core.i = 3 <=> Call = "region"
         /\ core.i = 4 <=> Call = "node"
         /\ core.i = 5 <=> Call = "class"
         /\ core.i = 6 <=> Call = "cdev"
         /\ core.i = 7 <=> Call = "chrdev"
<1>1. core.i \in 1..7 /\ Call = RemoveCalls[core.i]
  BY Tables DEF CoreOK, Call
<1> QED
  BY <1>1 DEF RemoveCalls

(* myexit has one call. *)
LEMMA ExitAt ==
  ASSUME CoreOK, core.op = "exit"
  PROVE  Call = "driver"
BY Tables DEF CoreOK, Call

(* CoreOK implies what TypeOK says of core. *)
LEMMA CoreType ==
  CoreOK => /\ core.op \in DOMAIN Calls
            /\ core # Idle => core.i \in DOMAIN Calls[core.op]
<1> SUFFICES ASSUME CoreOK
             PROVE  /\ core.op \in DOMAIN Calls
                    /\ core # Idle => core.i \in DOMAIN Calls[core.op]
  OBVIOUS
<1>1. core.op = "idle" => core = Idle
  BY DEF CoreOK, Idle
<1>2. core.op # "idle" => core.i \in DOMAIN Calls[core.op]
  <2>1. CASE core.op = "probe"
    BY <2>1, Tables DEF CoreOK
  <2>2. CASE core.op = "unwind"
    BY <2>2, Tables DEF CoreOK
  <2>3. CASE core.op = "remove"
    BY <2>3, Tables DEF CoreOK
  <2>4. CASE core.op = "exit"
    BY <2>4, Tables DEF CoreOK
  <2> QED
    BY <2>1, <2>2, <2>3, <2>4 DEF CoreOK
<1> QED
  BY <1>1, <1>2, Tables DEF CoreOK

(* The initial states satisfy the invariant. *)
LEMMA InitInv == Init => Inv
<1> SUFFICES ASSUME Init PROVE Inv
  OBVIOUS
<1>1. CoreOK
  BY DEF Init, CoreOK, Idle
<1>2. TypeOK
  <2>1. left \in [Users -> 0..IoWords]
    BY DriverAssumption DEF Init
  <2>2. /\ core.op \in DOMAIN Calls
        /\ core # Idle => core.i \in DOMAIN Calls[core.op]
    BY <1>1, CoreType
  <2> QED
    BY <2>1, <2>2, Zenon DEF Init, TypeOK
<1>3. core.op = "idle"
  BY DEF Init, Idle
<1> QED
  BY <1>1, <1>2, <1>3 DEF Init, Inv, PhaseOK, IdleHeld, ProbeHeld, UnwindHeld,
     RemoveHeld, MapFirst, FilesOK, Has

(* The same after a step. *)
LEMMA CoreTypeNext ==
  (CoreOK => /\ core.op \in DOMAIN Calls
             /\ core # Idle => core.i \in DOMAIN Calls[core.op])'
BY CoreType, PTL

-----------------------------------------------------------------------------
(* insmod, rmmod and the binding through sysfs start a function. *)
LEMMA LoadInv ==
  ASSUME Inv, Insmod \/ Rmmod \/ Bind \/ Unbind
  PROVE  Inv'
<1> USE DEF Inv, Has
<1>1. CoreOK'
  BY DEF CoreOK, Insmod, Rmmod, Bind, Unbind, Run
<1>2. TypeOK'
  <2>1. /\ module' \in {"out", "in", "going"} /\ bound' \in BOOLEAN
        /\ ret' \in {0, 1} /\ held' \subseteq Resources
        /\ file' \in [Users -> {"closed", "open", "stale"}]
        /\ left' \in [Users -> 0..IoWords]
    BY DEF TypeOK, Insmod, Rmmod, Bind, Unbind, users, Resources
  <2> QED
    BY <1>1, <2>1, CoreTypeNext DEF TypeOK
<1>3. core.op = "idle" /\ core.i = 1
  BY DEF CoreOK, PhaseOK, Insmod, Rmmod, Bind, Unbind, Idle
<1>4. CASE Insmod
  BY <1>1, <1>2, <1>3, <1>4 DEF Insmod, Run, users, TypeOK, PhaseOK, IdleHeld,
     ProbeHeld, UnwindHeld, RemoveHeld, MapFirst, FilesOK, CharDev, Mapping
<1>5. CASE Rmmod
  BY <1>1, <1>2, <1>3, <1>5 DEF Rmmod, Run, users, TypeOK, PhaseOK, IdleHeld,
     ProbeHeld, UnwindHeld, RemoveHeld, MapFirst, FilesOK, CharDev, Mapping
<1>6. CASE Bind
  BY <1>1, <1>2, <1>3, <1>6 DEF Bind, Run, users, TypeOK, PhaseOK, IdleHeld,
     ProbeHeld, UnwindHeld, RemoveHeld, MapFirst, FilesOK, CharDev, Mapping
<1>7. CASE Unbind
  BY <1>1, <1>2, <1>3, <1>7 DEF Unbind, Run, TypeOK, PhaseOK, IdleHeld,
     ProbeHeld, UnwindHeld, RemoveHeld, MapFirst, FilesOK, CharDev, Mapping
<1> QED
  BY <1>4, <1>5, <1>6, <1>7

(* A call of pci_probe that succeeds. *)
LEMMA ProbeCallInv ==
  ASSUME Inv, ProbeCall
  PROVE  Inv'
<1> USE DEF Inv, Has
<1>1. core.op = "probe" /\ core.i \in 1..9
  BY ProbeAt DEF ProbeCall
<1>2. /\ core' = IF core.i = 9 THEN Idle ELSE [core EXCEPT !.i = core.i + 1]
      /\ bound' = (bound \/ core.i = 9)
      /\ ret' = IF core.i = 9 THEN 0 ELSE ret
      /\ held' = held \cup ({Call} \ {"flags"})
      /\ UNCHANGED <<module, file, left>>
  BY Tables DEF ProbeCall, NextCall, users
<1>3. \/ core.i = 9 /\ core' = Idle /\ core'.op = "idle" /\ core'.i = 1
      \/ core.i < 9 /\ core'.op = "probe" /\ core'.i = core.i + 1
  BY <1>1, <1>2 DEF CoreOK, Idle
<1>4. CoreOK'
  BY <1>1, <1>2, <1>3 DEF CoreOK, Idle
<1>5. TypeOK'
  BY <1>1, <1>2, <1>4, CoreTypeNext, ProbeAt DEF TypeOK
<1>6. PhaseOK' /\ FilesOK'
  BY <1>1, <1>2, <1>3, ProbeAt, Zenon DEF PhaseOK, FilesOK, Idle
<1>7. ProbeHeld'
  BY <1>1, <1>2, <1>3, ProbeAt DEF ProbeHeld, Mapping
<1>8. IdleHeld'
  <2>1. CASE core.i = 9
    <3>1. bound' = TRUE /\ ret' = 0 /\ held \subseteq held'
      BY <1>2, <2>1, Zenon
    <3>2. CharDev \subseteq held /\ Has("region") /\ Has("irq")
      BY <1>1, <2>1 DEF ProbeHeld, CharDev
    <3>3. Mapping => Has("map")
      BY <1>1, <2>1 DEF ProbeHeld
    <3> QED
      BY <3>1, <3>2, <3>3 DEF IdleHeld, Mapping
  <2>2. CASE core.i # 9
    BY <1>3, <2>2 DEF IdleHeld
  <2> QED
    BY <2>1, <2>2
<1>9. MapFirst'
  BY <1>1, <1>2, ProbeAt DEF ProbeHeld, MapFirst, Mapping
<1> QED
  BY <1>3, <1>4, <1>5, <1>6, <1>7, <1>8, <1>9 DEF UnwindHeld, RemoveHeld

(* A call of pci_probe that fails: Label enters the error path where       *)
(* exactly what is held remains to be released.                            *)
LEMMA ProbeFailsInv ==
  ASSUME Inv, ProbeFails
  PROVE  Inv'
<1> USE DEF Inv, Has
<1>1. /\ core.op = "probe" /\ core.i \in 1..9 /\ Call \in MayFail
      /\ bound' = (bound \/ Call = "chrdev")
      /\ ret' = IF Call = "chrdev" THEN 1 ELSE ret
      /\ UNCHANGED <<module, held, file, left>>
  BY ProbeAt DEF ProbeFails, users
<1>2. CASE core.i = 7
  <2>1. core' = [core EXCEPT !.i = 8] /\ Call = "map"
    BY <1>1, <1>2, ProbeAt DEF ProbeFails, NextCall, CoreOK
  <2>2. core'.op = "probe" /\ core'.i = 8 /\ CoreOK'
    BY <1>1, <2>1 DEF CoreOK
  <2>3. TypeOK'
    BY <1>1, <2>2, CoreTypeNext DEF TypeOK
  <2>4. ~Mapping
    BY <1>1, <2>1 DEF Mapping
  <2>5. ProbeHeld'
    BY <1>1, <1>2, <2>2, <2>4 DEF ProbeHeld, Mapping
  <2>6. PhaseOK' /\ FilesOK'
    BY <1>1, <2>1, <2>2, Zenon DEF PhaseOK, FilesOK, Idle
  <2> QED
    BY <2>2, <2>3, <2>4, <2>5, <2>6 DEF IdleHeld, UnwindHeld, RemoveHeld,
       MapFirst, Mapping
<1>3. CASE core.i = 1
  <2>1. core' = Idle /\ Call = "chrdev"
    BY <1>1, <1>3, ProbeAt DEF ProbeFails
  <2>2. core'.op = "idle" /\ CoreOK'
    BY <2>1 DEF CoreOK, Idle
  <2>3. TypeOK'
    BY <1>1, <2>2, CoreTypeNext DEF TypeOK
  <2>4. IdleHeld'
    <3>1. bound' = TRUE /\ ret' = 1 /\ held' = held
      BY <1>1, <2>1, Zenon
    <3>2. CharDev \cap held = {}
      BY <1>1, <1>3 DEF ProbeHeld, CharDev
    <3> QED
      BY <3>1, <3>2 DEF IdleHeld
  <2> QED
    BY <1>1, <2>1, <2>2, <2>3, <2>4 DEF PhaseOK, ProbeHeld,
       UnwindHeld, RemoveHeld, MapFirst, FilesOK, Idle, Mapping
<1>4. CASE core.i \notin {1, 7}
  <2>1. /\ core' = [op |-> "unwind", i |-> Label(Call)]
        /\ Call \notin {"map", "chrdev"}
    BY <1>1, <1>4, ProbeAt DEF ProbeFails
  <2>2. /\ Label(Call) \in 1..4
        /\ Label(Call) <= 1 <=> core.i > 4
        /\ Label(Call) <= 2 <=> core.i > 3
        /\ Label(Call) <= 3 <=> core.i > 2
    BY <1>1, <1>4, ProbeAt DEF Label
  <2>3. core'.op = "unwind" /\ core'.i = Label(Call) /\ CoreOK'
    BY <2>1, <2>2 DEF CoreOK
  <2>4. TypeOK'
    BY <1>1, <2>3, CoreTypeNext DEF TypeOK
  <2>5. UnwindHeld'
    BY <1>1, <1>4, <2>2, <2>3 DEF ProbeHeld, UnwindHeld
  <2> QED
    BY <1>1, <2>1, <2>3, <2>4, <2>5, Zenon DEF PhaseOK, IdleHeld, ProbeHeld,
       RemoveHeld, MapFirst, FilesOK, Idle
<1> QED
  BY <1>2, <1>3, <1>4

(* A release of the error path. *)
LEMMA UnwindCallInv ==
  ASSUME Inv, UnwindCall
  PROVE  Inv'
<1> USE DEF Inv, Has
<1>1. core.op = "unwind" /\ core.i \in 1..4
  BY UnwindAt DEF UnwindCall
<1>2. /\ core' = IF core.i = 4 THEN Idle ELSE [core EXCEPT !.i = core.i + 1]
      /\ bound' = (bound \/ core.i = 4)
      /\ ret' = IF core.i = 4 THEN 1 ELSE ret
      /\ held' = held \ {Call}
      /\ UNCHANGED <<module, file, left>>
  BY Tables DEF UnwindCall, NextCall, users
<1>3. \/ core.i = 4 /\ core' = Idle /\ core'.op = "idle" /\ core'.i = 1
      \/ core.i < 4 /\ core'.op = "unwind" /\ core'.i = core.i + 1
  BY <1>1, <1>2 DEF CoreOK, Idle
<1>4. CoreOK'
  BY <1>1, <1>2, <1>3 DEF CoreOK, Idle
<1>5. TypeOK'
  BY <1>1, <1>2, <1>4, CoreTypeNext DEF TypeOK
<1>6. PhaseOK' /\ FilesOK'
  BY <1>1, <1>2, <1>3, UnwindAt, Zenon DEF PhaseOK, FilesOK, Idle, CharDev
<1>7. UnwindHeld'
  BY <1>1, <1>2, <1>3, UnwindAt DEF UnwindHeld
<1>8. IdleHeld'
  <2>1. CASE core.i = 4
    <3>1. bound' = TRUE /\ ret' = 1
      BY <1>2, <2>1, Zenon
    <3>2. CharDev \cap held' = {}
      BY <1>1, <1>2, <2>1, UnwindAt DEF UnwindHeld, CharDev
    <3> QED
      BY <3>1, <3>2 DEF IdleHeld
  <2>2. CASE core.i # 4
    BY <1>3, <2>2 DEF IdleHeld
  <2> QED
    BY <2>1, <2>2
<1>9. MapFirst'
  BY <1>1, <1>2, UnwindAt DEF MapFirst, Mapping, CharDev
<1> QED
  BY <1>3, <1>4, <1>5, <1>6, <1>7, <1>8, <1>9 DEF ProbeHeld, RemoveHeld

(* A release of pci_remove. *)
LEMMA RemoveCallInv ==
  ASSUME Inv, RemoveCall
  PROVE  Inv'
<1> USE DEF Inv, Has
<1>1. core.op = "remove" /\ core.i \in 1..7
  BY RemoveAt DEF RemoveCall
<1>2. /\ core' = IF core.i # 7 THEN [core EXCEPT !.i = core.i + 1]
                 ELSE IF module = "going" THEN Run("exit") ELSE Idle
      /\ bound' = (bound /\ core.i # 7)
      /\ held' = held \ {Call}
      /\ UNCHANGED <<module, ret, file, left>>
  BY Tables DEF RemoveCall, NextCall, users
<1>3. \/ core.i = 7 /\ core'.i = 1
         /\ core'.op = IF module = "going" THEN "exit" ELSE "idle"
      \/ core.i < 7 /\ core'.op = "remove" /\ core'.i = core.i + 1
  BY <1>1, <1>2 DEF CoreOK, Idle, Run
<1>4. CoreOK'
  BY <1>1, <1>2, <1>3 DEF CoreOK, Idle, Run
<1>5. TypeOK'
  BY <1>1, <1>2, <1>4, CoreTypeNext DEF TypeOK
<1>6. PhaseOK' /\ FilesOK'
  <2>1. bound' = IF core.i = 7 THEN FALSE ELSE TRUE
    BY <1>1, <1>2, Zenon DEF PhaseOK, TypeOK
  <2>2. Has("driver") /\ Has("driver")' /\ module \in {"in", "going"}
    BY <1>1, <1>2, RemoveAt DEF PhaseOK, TypeOK
  <2>3. \A u \in Users : file'[u] # "open"
    BY <1>1, <1>2 DEF FilesOK, Idle
  <2> QED
    <3>1. CASE core.i = 7
      <4>1. ~bound' /\ module' = module
        BY <1>2, <2>1, <3>1, Zenon
      <4>2. core'.op = IF module = "going" THEN "exit" ELSE "idle"
        BY <1>3, <3>1
      <4> QED
        BY <2>2, <2>3, <4>1, <4>2 DEF PhaseOK, FilesOK
    <3>2. CASE core.i # 7
      BY <1>2, <1>3, <2>1, <2>2, <2>3, <3>2, Zenon DEF PhaseOK, FilesOK
    <3> QED
      BY <3>1, <3>2
<1>7. RemoveHeld'
  BY <1>1, <1>2, <1>3, RemoveAt DEF RemoveHeld, CharDev, Mapping, TypeOK
<1>8. IdleHeld'
  <2>1. CASE core.i = 7
    <3>1. bound' = FALSE
      BY <1>2, <2>1, Zenon
    <3>2. CharDev \cap held' = {}
      BY <1>1, <1>2, <2>1, RemoveAt DEF RemoveHeld, CharDev, TypeOK
    <3>3. held' \subseteq {"driver", "enabled"}
      BY <1>1, <1>2, <2>1, <3>2 DEF RemoveHeld, TypeOK, Resources, CharDev
    <3> QED
      BY <3>1, <3>3 DEF IdleHeld
  <2>2. CASE core.i # 7
    BY <1>3, <2>2 DEF IdleHeld
  <2> QED
    BY <2>1, <2>2
<1>9. MapFirst'
  BY <1>1, <1>2, RemoveAt DEF MapFirst, RemoveHeld, Mapping
<1> QED
  BY <1>3, <1>4, <1>5, <1>6, <1>7, <1>8, <1>9 DEF ProbeHeld, UnwindHeld

(* myexit. *)
LEMMA ExitCallInv ==
  ASSUME Inv, ExitCall
  PROVE  Inv'
<1> USE DEF Inv, Has
<1>1. /\ core.op = "exit" /\ Call = "driver" /\ core' = Idle
      /\ held' = held \ {"driver"} /\ module' = "out"
      /\ UNCHANGED <<bound, ret, file, left>>
  BY ExitAt DEF ExitCall, users
<1>2. core'.op = "idle" /\ CoreOK'
  BY <1>1 DEF CoreOK, Idle
<1>3. TypeOK'
  BY <1>1, <1>2, CoreTypeNext DEF TypeOK
<1>4. ~bound /\ held \subseteq {"driver", "enabled"}
  BY <1>1 DEF PhaseOK, IdleHeld
<1> QED
  BY <1>1, <1>2, <1>3, <1>4 DEF PhaseOK, IdleHeld, ProbeHeld, UnwindHeld,
     RemoveHeld, MapFirst, FilesOK, Idle

(* A step of a process changes its file descriptor and its ioctl; a node   *)
(* that can be opened between two functions is that of a bound device.     *)
LEMMA UserInv ==
  ASSUME Inv, UserStep
  PROVE  Inv'
<1> USE DEF Inv, Has
<1>1. PICK u \in Users : Open(u) \/ dev_ioctl(u) \/ Access(u) \/ Close(u)
  BY DEF UserStep
<1>2. UNCHANGED <<module, bound, core, ret, held>>
  BY <1>1 DEF Open, dev_ioctl, Access, Close
<1>3. left' \in [Users -> 0..IoWords]
  BY <1>1, DriverAssumption DEF TypeOK, Open, dev_ioctl, Access, Close
<1>4. file' \in [Users -> {"closed", "open", "stale"}]
  BY <1>1 DEF TypeOK, Open, dev_ioctl, Access, Close
<1>5. FilesOK'
  <2>1. CASE Open(u)
    <3>1. core = Idle => bound /\ ret = 0
      BY <2>1 DEF Open, IdleHeld, CharDev, TypeOK, Idle
    <3> QED
      BY <1>2, <2>1, <3>1 DEF Open, FilesOK, TypeOK
  <2>2. CASE ~Open(u)
    BY <1>1, <1>2, <2>2 DEF dev_ioctl, Access, Close, FilesOK, TypeOK
  <2> QED
    BY <2>1, <2>2
<1> QED
  BY <1>2, <1>3, <1>4, <1>5 DEF TypeOK, CoreOK, PhaseOK, IdleHeld, ProbeHeld,
     UnwindHeld, RemoveHeld, MapFirst

(* Inv is an invariant of the driver. *)
LEMMA InvAlways == Spec => []Inv
<1>1. Inv /\ [Next]_vars => Inv'
  <2> SUFFICES ASSUME Inv, [Next]_vars PROVE Inv'
    OBVIOUS
  <2>1. CASE UNCHANGED vars
    BY <2>1 DEF vars, Inv, TypeOK, CoreOK, PhaseOK, IdleHeld, ProbeHeld,
       UnwindHeld, RemoveHeld, MapFirst, FilesOK, Has
  <2> QED
    BY <2>1, LoadInv, ProbeCallInv, ProbeFailsInv, UnwindCallInv,
       RemoveCallInv, ExitCallInv, UserInv DEF Next
<1> QED
  BY <1>1, InitInv, PTL DEF Spec

-----------------------------------------------------------------------------
(* The types of the driver's state, and that an ioctl never has more words *)
(* left than the loops of dev_ioctl transfer, whatever fails.              *)
THEOREM DriverTypeOK == Spec => []TypeOK
<1>1. Inv => TypeOK
  BY DEF Inv
<1> QED
  BY <1>1, InvAlways, PTL

(* pci_probe, its error path and pci_remove keep the node backed, whatever *)
(* calls fail.                                                             *)
THEOREM NodeAlwaysBacked == Spec => []NodeBacked
<1>1. Inv => NodeBacked
  BY DEF Inv, NodeBacked, TypeOK, CoreOK, PhaseOK, IdleHeld, ProbeHeld,
     UnwindHeld, RemoveHeld, Has, CharDev
<1> QED
  BY <1>1, InvAlways, PTL

(* The error labels of pci_probe leave the whole character device or       *)
(* nothing of it, whatever calls fail.                                     *)
THEOREM ErrorPathComplete == Spec => []AllOrNothing
<1>1. Inv => AllOrNothing
  BY DEF Inv, AllOrNothing, TypeOK, IdleHeld, Idle, CharDev
<1> QED
  BY <1>1, InvAlways, PTL

(* Once myexit has returned only the enabled device is left, whatever      *)
(* calls failed before.                                                    *)
THEOREM UnloadComplete == Spec => []UnloadReleases
<1>1. Inv => UnloadReleases
  BY DEF Inv, UnloadReleases, PhaseOK, IdleHeld, Has
<1> QED
  BY <1>1, InvAlways, PTL

(* If pci_iomap does not fail, irq_handler always finds the registers.     *)
THEOREM HandlerMapped ==
  ASSUME "map" \notin MayFail
  PROVE  Spec => []IrqHandlerMapped
<1>1. Inv => IrqHandlerMapped
  BY DEF Inv, IrqHandlerMapped, MapFirst, Mapping, Has
<1> QED
  BY <1>1, InvAlways, PTL

(* If pci_iomap does not fail, the error path releases what is held, and   *)
(* pci_remove and myexit do after a result of 0.                           *)
THEOREM ReleasesClean ==
  ASSUME "map" \notin MayFail
  PROVE  Spec => []CleanReleases
<1>1. ASSUME Inv PROVE CleanReleases
  <2>1. core.op = "unwind" => Call \in held
    BY <1>1, UnwindAt DEF Inv, UnwindHeld, Has
  <2>2. core.op = "remove" /\ ret = 0 => Call \in held
    BY <1>1, RemoveAt DEF Inv, RemoveHeld, Mapping, Has
  <2>3. core.op = "exit" /\ ret = 0 => Call \in held
    BY <1>1, ExitAt DEF Inv, PhaseOK, Has
  <2> QED
    BY <2>1, <2>2, <2>3 DEF CleanReleases
<1> QED
  BY <1>1, InvAlways, PTL

(* If pci_iomap does not fail, a descriptor opened after pci_probe reaches *)
(* mapped registers until the device is unbound.                           *)
THEOREM AccessMapped ==
  ASSUME "map" \notin MayFail
  PROVE  Spec => []OpenAccessMapped
<1>1. Inv => OpenAccessMapped
  BY DEF Inv, OpenAccessMapped, FilesOK, IdleHeld, Mapping, Idle, Has
<1> QED
  BY <1>1, InvAlways, PTL
=============================================================================
