-------------------------------- MODULE CoSim --------------------------------
(***************************************************************************)
(* The path of the co-simulation: processes that run app.c, dev_ioctl and  *)
(* irq_handler of the driver, and the endpoint behind BAR 0: DummyTarget,  *)
(* which is built, or MatrixMultiplier, the device the driver is written   *)
(* for, which main.cc keeps commented out.  dev_ioctl takes no lock, so    *)
(* every register access is a step of its own.                             *)
(*                                                                         *)
(* A register holds the program whose word of that place it is, and a word *)
(* of the result the program both of whose operands it was computed from.  *)
(* Nobody stands for every other word: 0, 0xFFFFFFFF, DummyTarget's        *)
(* 0xABCD1234 and what comes out of the operands of different programs.    *)
(***************************************************************************)
EXTENDS Naturals

CONSTANTS
  DIM,          (* 4 in the code                                           *)
  Procs,        (* user processes                                          *)
  Programs,     (* programs that use the node: app.c, or others with other *)
                (* operands                                                *)
  Multiplying,  (* the programs whose opcode is 1, as that of app.c        *)
  Nobody

ASSUME CoSimAssumption ==
  /\ DIM \in Nat \ {0}
  /\ Programs # {} /\ Multiplying \subseteq Programs
  /\ Nobody \notin Programs

VARIABLES
  endpoint,     (* "dummy" or "multiplier"                                 *)
  op1, op2, opcode,     (* registers at 0x10, 0x50 and 0x90                *)
  result, result_valid, (* the words at 0xA0, and that they are up to date *)
  prog,         (* per process, the program it runs, if any                *)
  pc,           (* per process, the call of main next or in progress       *)
  i,            (* per process, the words its ioctl has transferred        *)
  right,        (* per process, every word IOCTL_GET_RESULT has read is    *)
                (* the one of the product of the process's own operands    *)
  harm          (* history, per process: what others did to its session    *)

operands == <<op1, op2, opcode>>
device == <<op1, op2, opcode, result, result_valid>>
vars == <<endpoint, op1, op2, opcode, result, result_valid, prog, pc, i,
          right, harm>>

Words == DIM * DIM
Cells == 0..Words - 1
(* IO_IRQ_STATUS 0x24 and IO_IRQ_ACK 0x64 are word [1][1] of the matrices  *)
(* at 0x10 and 0x50.                                                       *)
IrqCell == DIM + 1

Word == Programs \cup {Nobody}

Row(c) == {k \in Cells : k \div DIM = c \div DIM}
Column(c) == {k \in Cells : k % DIM = c % DIM}

(* Word c of the product of the operands in the registers: that of the     *)
(* program that wrote the whole row and the whole column, if one did.      *)
Entry(c) ==
  IF /\ opcode = 1
     /\ \A k \in Row(c) : op1[k] = op1[c]
     /\ \A k \in Column(c) : op2[k] = op1[c]
  THEN op1[c] ELSE Nobody

perform_multiplication == [c \in Cells |-> Entry(c)]

(* Mutant: the read of every word multiplies. *)
TriggersAlways(c) == endpoint = "multiplier" /\ ~result_valid

(* Only a read of the first word multiplies, unless nothing was written    *)
(* since the last multiplication.                                          *)
Triggers(c) == endpoint = "multiplier" /\ c = 0 /\ ~result_valid

(* A write of an operand word; DummyTarget logs it and keeps nothing. *)
Store(reg, c, g) ==
  IF endpoint = "dummy" THEN reg ELSE [reg EXCEPT ![c] = g]

Init ==
  /\ endpoint \in {"dummy", "multiplier"}
  /\ op1 = [c \in Cells |-> Nobody]
  /\ op2 = [c \in Cells |-> Nobody]
  /\ opcode = 0
  /\ result = [c \in Cells |-> Nobody] /\ result_valid = FALSE
  /\ prog = [p \in Procs |-> Nobody]
  /\ pc = [p \in Procs |-> "exit"]
  /\ i = [p \in Procs |-> 0]
  /\ right = [p \in Procs |-> TRUE]
  /\ harm = [p \in Procs |-> "none"]

-----------------------------------------------------------------------------
(* The processes that have stored word c of the first or of the second     *)
(* operand, or the opcode, and have not read the whole result yet.         *)
StoredOp1(c) ==
  {p \in Procs : \/ pc[p] \in {"op2", "opcode", "result"}
                 \/ pc[p] = "op1" /\ c < i[p]}
StoredOp2(c) ==
  {p \in Procs : \/ pc[p] \in {"opcode", "result"}
                 \/ pc[p] = "op2" /\ c < i[p]}
StoredOpcode == {p \in Procs : pc[p] = "result"}

Reading(p) == pc[p] = "result" /\ i[p] > 0

(* History: the owners, processes that do not run g, find a word of theirs *)
(* overwritten.  That spoils the session of one that has yet to read the   *)
(* result; one that is reading it has the words of the earlier             *)
(* multiplication, until somebody else multiplies again.                   *)
Overwrites(g, owners) ==
  harm' = [p \in Procs |->
    IF p \in owners /\ prog[p] # g /\ harm[p] = "none"
    THEN IF Reading(p) THEN "late" ELSE "spoilt"
    ELSE harm[p]]

(* A process starts main and opens the node. *)
Open(p, g) ==
  /\ pc[p] = "exit"
  /\ prog' = [prog EXCEPT ![p] = g]
  /\ pc' = [pc EXCEPT ![p] = "op1"]
  /\ UNCHANGED <<endpoint, device, i, right, harm>>

(* Mutant: the loop bound is <= instead of <. *)
TransferredOneMore(p, n, next) ==
  LET last == i[p] = n
  IN /\ pc' = [pc EXCEPT ![p] = IF last THEN next ELSE @]
     /\ i' = [i EXCEPT ![p] = IF last THEN 0 ELSE @ + 1]

(* An ioctl that transferred another of n words goes to the next call. *)
Transferred(p, n, next) ==
  LET last == i[p] + 1 = n
  IN /\ pc' = [pc EXCEPT ![p] = IF last THEN next ELSE @]
     /\ i' = [i EXCEPT ![p] = IF last THEN 0 ELSE @ + 1]

(* One iowrite32 of IOCTL_SET_OP1_MATRIX. *)
SetOp1(p) ==
  /\ pc[p] = "op1"
  /\ op1' = Store(op1, i[p], prog[p])
  /\ result_valid' = FALSE
  /\ Transferred(p, Words, "op2")
  /\ Overwrites(prog[p], StoredOp1(i[p]))
  /\ UNCHANGED <<endpoint, op2, opcode, result, prog, right>>

(* One iowrite32 of IOCTL_SET_OP2_MATRIX. *)
SetOp2(p) ==
  /\ pc[p] = "op2"
  /\ op2' = Store(op2, i[p], prog[p])
  /\ result_valid' = FALSE
  /\ Transferred(p, Words, "opcode")
  /\ Overwrites(prog[p], StoredOp2(i[p]))
  /\ UNCHANGED <<endpoint, op1, opcode, result, prog, right>>

(* IOCTL_SET_OPCODE.  One multiplying program sets the opcode of another. *)
SetOpcode(p) ==
  LET value == IF prog[p] \in Multiplying THEN 1 ELSE 0
  IN /\ pc[p] = "opcode"
     /\ opcode' = IF endpoint = "dummy" THEN opcode ELSE value
     /\ result_valid' = FALSE
     /\ Transferred(p, 1, "result")
     /\ Overwrites(prog[p], IF value = 1 THEN {} ELSE StoredOpcode)
     /\ UNCHANGED <<endpoint, op1, op2, result, prog, right>>

(* One ioread32 of IOCTL_GET_RESULT.  Multiplying again spoils the session *)
(* of a process in the middle of the result whose operands are overwritten. *)
GetResult(p) ==
  /\ pc[p] = "result"
  /\ result' = IF Triggers(i[p]) THEN perform_multiplication ELSE result
  /\ result_valid' = (result_valid \/ Triggers(i[p]))
  /\ right' = [right EXCEPT ![p] =
       @ /\ endpoint = "multiplier" /\ result'[i[p]] = prog[p]]
  /\ Transferred(p, Words, "copy")
  /\ harm' = [q \in Procs |->
       IF i[p] = 0 /\ ~result_valid /\ q # p /\ Reading(q) /\ harm[q] = "late"
       THEN "spoilt" ELSE harm[q]]
  /\ UNCHANGED <<endpoint, operands, prog>>

(* copy_to_user succeeds and main prints C. *)
CopyToUser(p) ==
  /\ pc[p] = "copy"
  /\ pc' = [pc EXCEPT ![p] = "print"]
  /\ UNCHANGED <<endpoint, device, prog, i, right, harm>>

(* A copy_from_user or copy_to_user fails: main reports it and closes. *)
IoctlFails(p) ==
  /\ pc[p] \in {"op1", "op2", "opcode", "copy"} /\ i[p] = 0
  /\ pc' = [pc EXCEPT ![p] = "fail"]
  /\ UNCHANGED <<endpoint, device, prog, i, right, harm>>

(* close(fd) and return; the kernel does it for a process that is killed,  *)
(* which happens between two calls only.                                   *)
Close(p) ==
  /\ pc[p] # "exit" /\ i[p] = 0
  /\ pc' = [pc EXCEPT ![p] = "exit"]
  /\ prog' = [prog EXCEPT ![p] = Nobody]
  /\ right' = [right EXCEPT ![p] = TRUE]
  /\ harm' = [harm EXCEPT ![p] = "none"]
  /\ UNCHANGED <<endpoint, device, i>>

(* The interrupt line is shared: irq_handler runs for every device on it,  *)
(* and its comparison of *dev with major always succeeds.  It writes what  *)
(* it has read at 0x24 to 0x64; the read changes nothing and is answered   *)
(* with a constant by either endpoint, so the step is that of the write.   *)
irq_handler ==
  /\ IrqCell \in Cells
  /\ op2' = Store(op2, IrqCell, Nobody)
  /\ result_valid' = FALSE
  /\ Overwrites(Nobody, StoredOp2(IrqCell))
  /\ UNCHANGED <<endpoint, op1, opcode, result, prog, pc, i, right>>

Main(p) ==
  \/ (\E g \in Programs : Open(p, g)) \/ SetOp1(p) \/ SetOp2(p) \/ SetOpcode(p) \/ GetResult(p)
  \/ CopyToUser(p) \/ IoctlFails(p) \/ Close(p)

Next == (\E p \in Procs : Main(p)) \/ irq_handler

Spec == Init /\ [][Next]_vars

-----------------------------------------------------------------------------
Calls == {"exit", "op1", "op2", "opcode", "result", "copy", "print", "fail"}

(* Every ioctl stays within its DIM * DIM words, and is at its first word  *)
(* between two calls.                                                      *)
TypeOK ==
  /\ endpoint \in {"dummy", "multiplier"}
  /\ op1 \in [Cells -> Word] /\ op2 \in [Cells -> Word] /\ opcode \in {0, 1}
  /\ result \in [Cells -> Word] /\ result_valid \in BOOLEAN
  /\ pc \in [Procs -> Calls]
  /\ prog \in [Procs -> Word]
  /\ i \in [Procs -> Cells]
  /\ \A p \in Procs : pc[p] \notin {"op1", "op2", "result"} => i[p] = 0
  /\ right \in [Procs -> BOOLEAN]
  /\ harm \in [Procs -> {"none", "late", "spoilt"}]

(* With MatrixMultiplier, main prints the product of its own operands,     *)
(* whatever earlier, failed or killed sessions left in the registers and   *)
(* whatever other processes and irq_handler do meanwhile, with two         *)
(* exceptions: a word it has stored is overwritten before it reads the     *)
(* first word of the result, or another process multiplies overwritten     *)
(* operands before it has read the last.  Nothing in dev_ioctl excludes    *)
(* these two; that there are no others is due to the latched result.       *)
OwnProduct ==
  \A p \in Procs :
    /\ pc[p] = "print" /\ prog[p] \in Multiplying
    /\ endpoint = "multiplier" /\ harm[p] # "spoilt"
    => right[p]

(* With the endpoint that is built, too, main prints the product of its    *)
(* operands, which app.c lists under RESULT MUST BE.                       *)
ResultMustBe ==
  \A p \in Procs :
    pc[p] = "print" /\ prog[p] \in Multiplying /\ endpoint = "dummy"
    => right[p]
=============================================================================
