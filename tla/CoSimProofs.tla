----------------------------- MODULE CoSimProofs -----------------------------
(***************************************************************************)
(* OwnProduct for every dimension, every set of processes and programs.    *)
(***************************************************************************)
EXTENDS CoSim, TLAPS

(* The words a process has stored are its own until one is overwritten. *)
Written(p) ==
  harm[p] = "none" /\ endpoint = "multiplier" =>
    /\ \A c \in Cells : p \in StoredOp1(c) => op1[c] = prog[p]
    /\ \A c \in Cells : p \in StoredOp2(c) => op2[c] = prog[p]
    /\ p \in StoredOpcode /\ prog[p] \in Multiplying => opcode = 1

(* Words overwritten during the reads, or after them, came too late. *)
Late(p) ==
  harm[p] = "late" => Reading(p) \/ pc[p] \in {"copy", "print", "fail"}

(* The words a process has read, and has still to read, are its own. *)
Reads(p) ==
  /\ pc[p] = "exit" => right[p]
  /\ /\ harm[p] # "spoilt" /\ endpoint = "multiplier"
     /\ prog[p] \in Multiplying
     => /\ right[p]
        /\ Reading(p) => \A c \in Cells : result[c] = prog[p]

(* A valid result is the product of the operands in the registers. *)
Latched ==
  result_valid /\ endpoint = "multiplier" => result = perform_multiplication

Session(p) == Written(p) /\ Late(p) /\ Reads(p)

Inv == TypeOK /\ Latched /\ \A p \in Procs : Session(p)

-----------------------------------------------------------------------------
(* There is at least one word. *)
LEMMA WordsPositive == Words \in Nat /\ Words >= 1
BY CoSimAssumption, SMT DEF Words

(* The index of an ioctl in progress moves on within the words; once the   *)
(* last one is transferred, all have been.                                 *)
LEMMA NextCell ==
  ASSUME NEW n \in Cells
  PROVE  /\ 0 \in Cells
         /\ n + 1 # Words => n + 1 \in Cells
         /\ \A c \in Cells : c < n + 1 => c < n \/ c = n
         /\ n + 1 = Words => \A c \in Cells : c < n \/ c = n
         /\ n + 1 > 0 /\ (n > 0 \/ n = 0)
BY WordsPositive, SMT DEF Cells

(* No word comes before the first. *)
LEMMA FirstCell == 0 \in Cells /\ ~(0 > 0) /\ \A c \in Cells : ~(c < 0)
BY WordsPositive, SMT DEF Cells

(* What Transferred does to the process and leaves to the others. *)
LEMMA TransferType ==
  ASSUME TypeOK, NEW p \in Procs, NEW next \in Calls,
         next \notin {"exit", "op1"},
         NEW n \in {1, Words}, n = 1 => i[p] = 0,
         Transferred(p, n, next)
  PROVE  /\ pc' \in [Procs -> Calls] /\ i' \in [Procs -> Cells]
         /\ \A q \in Procs \ {p} : pc'[q] = pc[q] /\ i'[q] = i[q]
         /\ \/ i[p] + 1 = n /\ pc'[p] = next /\ i'[p] = 0
            \/ i[p] + 1 # n /\ pc'[p] = pc[p] /\ i'[p] = i[p] + 1
               /\ n = Words
<1>1. i[p] \in Cells /\ i[p] \in Nat
  BY DEF TypeOK, Cells
<1>2. /\ 0 \in Cells
      /\ n = Words /\ i[p] + 1 # n => i[p] + 1 \in Cells
  BY <1>1, NextCell
<1>3. n = 1 => i[p] + 1 = n
  BY <1>1
<1> QED
  BY <1>1, <1>2, <1>3, SMT DEF TypeOK, Transferred

(* What Overwrites does to the history: a session that stays untouched     *)
(* owned none of the words, or they are written by its own program.        *)
LEMMA OverwriteHarm ==
  ASSUME TypeOK, NEW g, NEW S, Overwrites(g, S)
  PROVE  /\ harm' \in [Procs -> {"none", "late", "spoilt"}]
         /\ \A q \in Procs :
              /\ harm'[q] = "none" =>
                   harm[q] = "none" /\ (q \in S => prog[q] = g)
              /\ harm'[q] = "late" => harm[q] = "late" \/ Reading(q)
              /\ harm'[q] # "spoilt" => harm[q] # "spoilt"
BY Zenon DEF TypeOK, Overwrites

(* The product of operands that one program has written is its own. *)
LEMMA OwnEntries ==
  ASSUME NEW g, opcode = 1,
         \A c \in Cells : op1[c] = g /\ op2[c] = g
  PROVE  \A c \in Cells : perform_multiplication[c] = g
BY DEF perform_multiplication, Entry, Row, Column

(* A process about to read the first word, its words untouched, has the    *)
(* registers to itself.                                                    *)
LEMMA OwnOperands ==
  ASSUME NEW p \in Procs, Written(p), harm[p] = "none",
         endpoint = "multiplier", prog[p] \in Multiplying, pc[p] = "result"
  PROVE  \A c \in Cells : perform_multiplication[c] = prog[p]
<1>1. opcode = 1 /\ \A c \in Cells : op1[c] = prog[p] /\ op2[c] = prog[p]
  BY DEF Written, StoredOp1, StoredOp2, StoredOpcode
<1> QED
  BY <1>1, OwnEntries, Zenon

(* The initial states satisfy the invariant. *)
LEMMA InitInv == Init => Inv
<1> SUFFICES ASSUME Init PROVE Inv
  OBVIOUS
<1>1. TypeOK
  BY FirstCell DEF Init, TypeOK, Calls, Word
<1>2. Latched
  BY DEF Init, Latched
<1>3. ASSUME NEW p \in Procs
      PROVE  Session(p)
  <2>1. pc[p] = "exit" /\ right[p] /\ harm[p] = "none"
    BY DEF Init
  <2> QED
    BY <2>1 DEF Session, Written, Late, Reads, Reading, StoredOp1,
       StoredOp2, StoredOpcode
<1> QED
  BY <1>1, <1>2, <1>3 DEF Inv

-----------------------------------------------------------------------------
(* One lemma per kind of step.  First the steps that write a register.     *)
LEMMA SetOp1Inv ==
  ASSUME Inv, NEW p \in Procs, SetOp1(p)
  PROVE  Inv'
<1>0. TypeOK /\ \A q \in Procs : Session(q)
  BY DEF Inv
<1>1. i[p] \in Cells /\ prog[p] \in Word /\ pc[p] = "op1"
  BY <1>0 DEF TypeOK, SetOp1
<1>2. /\ pc' \in [Procs -> Calls] /\ i' \in [Procs -> Cells]
      /\ \A q \in Procs \ {p} : pc'[q] = pc[q] /\ i'[q] = i[q]
      /\ \/ i[p] + 1 = Words /\ pc'[p] = "op2" /\ i'[p] = 0
         \/ i[p] + 1 # Words /\ pc'[p] = "op1" /\ i'[p] = i[p] + 1
  <2>1. Transferred(p, Words, "op2")
    BY DEF SetOp1
  <2>2. Words = 1 => i[p] = 0
    BY <1>1, SMT DEF Cells
  <2> QED
    BY <1>0, <1>1, <2>1, <2>2, TransferType DEF Calls
<1>3. /\ op1' \in [Cells -> Word]
      /\ endpoint = "multiplier" =>
           /\ op1'[i[p]] = prog[p]
           /\ \A c \in Cells \ {i[p]} : op1'[c] = op1[c]
  BY <1>0, <1>1, Zenon DEF TypeOK, SetOp1, Store
<1>4. /\ UNCHANGED <<endpoint, op2, opcode, result, prog, right>>
      /\ ~result_valid' /\ result_valid' \in BOOLEAN
  BY DEF SetOp1
<1>5. /\ harm' \in [Procs -> {"none", "late", "spoilt"}]
      /\ \A q \in Procs :
           /\ harm'[q] = "none" =>
                harm[q] = "none" /\ (q \in StoredOp1(i[p]) => prog[q] = prog[p])
           /\ harm'[q] = "late" => harm[q] = "late" \/ Reading(q)
           /\ harm'[q] # "spoilt" => harm[q] # "spoilt"
  BY <1>0, OverwriteHarm, Zenon DEF SetOp1
<1>6. TypeOK'
  BY <1>0, <1>1, <1>2, <1>3, <1>4, <1>5 DEF TypeOK
<1>7. ASSUME NEW q \in Procs
      PROVE  Session(q)'
  <2>1. Written(q) /\ Late(q) /\ Reads(q)
    BY <1>0 DEF Session
  <2>2. ASSUME harm'[q] = "none", endpoint = "multiplier",
               NEW c \in Cells, q \in StoredOp1(c)'
        PROVE  op1'[c] = prog[q]
    <3>1. CASE c = i[p]
      BY <1>2, <1>3, <1>5, <2>2, <3>1 DEF StoredOp1
    <3>2. CASE c # i[p]
      <4>1. q \in StoredOp1(c)
        BY <1>1, <1>2, <2>2, <3>2, NextCell DEF StoredOp1
      <4> QED
        BY <1>3, <1>5, <2>1, <2>2, <3>2, <4>1 DEF Written
    <3> QED
      BY <3>1, <3>2
  <2>3. /\ \A c \in Cells : q \in StoredOp2(c)' => q \in StoredOp2(c)
        /\ q \in StoredOpcode' => q \in StoredOpcode
        /\ Reading(q)' <=> Reading(q)
        /\ pc'[q] = "exit" => pc[q] = "exit"
    BY <1>1, <1>2, FirstCell DEF StoredOp2, StoredOpcode, Reading
  <2>4. Written(q)'
    BY <1>4, <1>5, <2>1, <2>2, <2>3 DEF Written
  <2>5. Late(q)'
    BY <1>1, <1>2, <1>5, <2>1, <2>3 DEF Late, Reading
  <2>6. Reads(q)'
    BY <1>4, <1>5, <2>1, <2>3 DEF Reads
  <2> QED
    BY <2>4, <2>5, <2>6 DEF Session
<1> QED
  BY <1>4, <1>6, <1>7 DEF Inv, Latched

(* A word of the second operand likewise. *)
LEMMA SetOp2Inv ==
  ASSUME Inv, NEW p \in Procs, SetOp2(p)
  PROVE  Inv'
<1>0. TypeOK /\ \A q \in Procs : Session(q)
  BY DEF Inv
<1>1. i[p] \in Cells /\ prog[p] \in Word /\ pc[p] = "op2"
  BY <1>0 DEF TypeOK, SetOp2
<1>2. /\ pc' \in [Procs -> Calls] /\ i' \in [Procs -> Cells]
      /\ \A q \in Procs \ {p} : pc'[q] = pc[q] /\ i'[q] = i[q]
      /\ \/ i[p] + 1 = Words /\ pc'[p] = "opcode" /\ i'[p] = 0
         \/ i[p] + 1 # Words /\ pc'[p] = "op2" /\ i'[p] = i[p] + 1
  <2>1. Transferred(p, Words, "opcode")
    BY DEF SetOp2
  <2>2. Words = 1 => i[p] = 0
    BY <1>1, SMT DEF Cells
  <2> QED
    BY <1>0, <1>1, <2>1, <2>2, TransferType DEF Calls
<1>3. /\ op2' \in [Cells -> Word]
      /\ endpoint = "multiplier" =>
           /\ op2'[i[p]] = prog[p]
           /\ \A c \in Cells \ {i[p]} : op2'[c] = op2[c]
  BY <1>0, <1>1, Zenon DEF TypeOK, SetOp2, Store
<1>4. /\ UNCHANGED <<endpoint, op1, opcode, result, prog, right>>
      /\ ~result_valid' /\ result_valid' \in BOOLEAN
  BY DEF SetOp2
<1>5. /\ harm' \in [Procs -> {"none", "late", "spoilt"}]
      /\ \A q \in Procs :
           /\ harm'[q] = "none" =>
                harm[q] = "none" /\ (q \in StoredOp2(i[p]) => prog[q] = prog[p])
           /\ harm'[q] = "late" => harm[q] = "late" \/ Reading(q)
           /\ harm'[q] # "spoilt" => harm[q] # "spoilt"
  BY <1>0, OverwriteHarm, Zenon DEF SetOp2
<1>6. TypeOK'
  <2>1. \A q \in Procs : pc'[q] \notin {"op1", "op2", "result"} => i'[q] = 0
    BY <1>0, <1>1, <1>2 DEF TypeOK
  <2> QED
    BY <1>0, <1>2, <1>3, <1>4, <1>5, <2>1 DEF TypeOK
<1>7. ASSUME NEW q \in Procs
      PROVE  Session(q)'
  <2>1. Written(q) /\ Late(q) /\ Reads(q)
    BY <1>0 DEF Session
  <2>2. ASSUME harm'[q] = "none", endpoint = "multiplier",
               NEW c \in Cells, q \in StoredOp2(c)'
        PROVE  op2'[c] = prog[q]
    <3>1. CASE c = i[p]
      <4>1. q # p => q \in StoredOp2(i[p])
        BY <1>2, <2>2, <3>1 DEF StoredOp2
      <4> QED
        BY <1>3, <1>5, <2>2, <3>1, <4>1
    <3>2. CASE c # i[p]
      <4>1. q \in StoredOp2(c)
        <5>1. CASE q = p
          BY <1>1, <1>2, <2>2, <3>2, <5>1, NextCell DEF StoredOp2
        <5>2. CASE q # p
          BY <1>2, <2>2, <5>2 DEF StoredOp2
        <5> QED
          BY <5>1, <5>2
      <4> QED
        BY <1>3, <1>5, <2>1, <2>2, <3>2, <4>1 DEF Written
    <3> QED
      BY <3>1, <3>2
  <2>3. /\ \A c \in Cells : q \in StoredOp1(c)' => q \in StoredOp1(c)
        /\ q \in StoredOpcode' => q \in StoredOpcode
        /\ Reading(q)' <=> Reading(q)
        /\ pc'[q] = "exit" => pc[q] = "exit"
    <3>1. CASE q = p
      BY <1>1, <1>2, <3>1, FirstCell DEF StoredOp1, StoredOpcode, Reading
    <3>2. CASE q # p
      BY <1>2, <3>2 DEF StoredOp1, StoredOpcode, Reading
    <3> QED
      BY <3>1, <3>2
  <2>4. Written(q)'
    BY <1>4, <1>5, <2>1, <2>2, <2>3 DEF Written
  <2>5. Late(q)'
    BY <1>1, <1>2, <1>5, <2>1, <2>3 DEF Late, Reading
  <2>6. Reads(q)'
    BY <1>4, <1>5, <2>1, <2>3 DEF Reads
  <2> QED
    BY <2>4, <2>5, <2>6 DEF Session
<1> QED
  BY <1>4, <1>6, <1>7 DEF Inv, Latched

(* The opcode likewise; one multiplying program does not harm another. *)
LEMMA SetOpcodeInv ==
  ASSUME Inv, NEW p \in Procs, SetOpcode(p)
  PROVE  Inv'
<1>0. TypeOK /\ \A q \in Procs : Session(q)
  BY DEF Inv
<1>1. i[p] = 0 /\ pc[p] = "opcode"
  BY <1>0 DEF TypeOK, SetOpcode
<1>2. /\ pc' \in [Procs -> Calls] /\ i' \in [Procs -> Cells]
      /\ \A q \in Procs \ {p} : pc'[q] = pc[q] /\ i'[q] = i[q]
      /\ pc'[p] = "result" /\ i'[p] = 0
  <2>1. Transferred(p, 1, "result")
    BY DEF SetOpcode
  <2> QED
    BY <1>0, <1>1, <2>1, TransferType DEF Calls
<1>3. /\ opcode' \in {0, 1}
      /\ endpoint = "multiplier" =>
           opcode' = IF prog[p] \in Multiplying THEN 1 ELSE 0
  BY <1>0 DEF TypeOK, SetOpcode
<1>4. /\ UNCHANGED <<endpoint, op1, op2, result, prog, right>>
      /\ ~result_valid' /\ result_valid' \in BOOLEAN
  BY DEF SetOpcode
<1>5. /\ harm' \in [Procs -> {"none", "late", "spoilt"}]
      /\ \A q \in Procs :
           /\ harm'[q] = "none" =>
                /\ harm[q] = "none"
                /\ \/ prog[p] \in Multiplying
                   \/ q \notin StoredOpcode
                   \/ prog[q] = prog[p]
           /\ harm'[q] = "late" => harm[q] = "late" \/ Reading(q)
           /\ harm'[q] # "spoilt" => harm[q] # "spoilt"
  <2>1. CASE prog[p] \in Multiplying
    <3>1. Overwrites(prog[p], {})
      BY <2>1 DEF SetOpcode
    <3> QED
      BY <1>0, <2>1, <3>1, OverwriteHarm, Zenon
  <2>2. CASE prog[p] \notin Multiplying
    <3>1. Overwrites(prog[p], StoredOpcode)
      BY <2>2 DEF SetOpcode
    <3>2. /\ harm' \in [Procs -> {"none", "late", "spoilt"}]
          /\ \A q \in Procs :
               /\ harm'[q] = "none" =>
                    harm[q] = "none" /\ (q \in StoredOpcode => prog[q] = prog[p])
               /\ harm'[q] = "late" => harm[q] = "late" \/ Reading(q)
               /\ harm'[q] # "spoilt" => harm[q] # "spoilt"
      BY <1>0, <3>1, OverwriteHarm, Zenon
    <3> QED
      BY <3>2
  <2> QED
    BY <2>1, <2>2
<1>6. TypeOK'
  BY <1>0, <1>2, <1>3, <1>4, <1>5 DEF TypeOK
<1>7. ASSUME NEW q \in Procs
      PROVE  Session(q)'
  <2>1. Written(q) /\ Late(q) /\ Reads(q)
    BY <1>0 DEF Session
  <2>2. /\ \A c \in Cells :
             /\ q \in StoredOp1(c)' => q \in StoredOp1(c)
             /\ q \in StoredOp2(c)' => q \in StoredOp2(c)
        /\ q \in StoredOpcode' => q = p \/ q \in StoredOpcode
        /\ Reading(q)' <=> Reading(q)
        /\ pc'[q] = "exit" => pc[q] = "exit"
    <3>1. CASE q = p
      BY <1>1, <1>2, <3>1, FirstCell
      DEF StoredOp1, StoredOp2, StoredOpcode, Reading
    <3>2. CASE q # p
      BY <1>2, <3>2 DEF StoredOp1, StoredOp2, StoredOpcode, Reading
    <3> QED
      BY <3>1, <3>2
  <2>3. ASSUME harm'[q] = "none", endpoint = "multiplier",
               q \in StoredOpcode', prog[q] \in Multiplying
        PROVE  opcode' = 1
    BY <1>3, <1>5, <2>2, <2>3
  <2>4. Written(q)'
    BY <1>4, <1>5, <2>1, <2>2, <2>3 DEF Written
  <2>5. Late(q)'
    BY <1>1, <1>2, <1>5, <2>1, <2>2 DEF Late, Reading
  <2>6. Reads(q)'
    BY <1>4, <1>5, <2>1, <2>2 DEF Reads
  <2> QED
    BY <2>4, <2>5, <2>6 DEF Session
<1> QED
  BY <1>4, <1>6, <1>7 DEF Inv, Latched

(* The acknowledge of irq_handler overwrites a word of every session that  *)
(* has stored it.                                                          *)
LEMMA IrqInv ==
  ASSUME Inv, irq_handler
  PROVE  Inv'
<1>0. TypeOK /\ \A q \in Procs : Session(q)
  BY DEF Inv
<1>1. /\ op2' \in [Cells -> Word]
      /\ \A c \in Cells \ {IrqCell} : op2'[c] = op2[c]
  BY <1>0, Zenon DEF TypeOK, irq_handler, Store, Word
<1>2. /\ UNCHANGED <<endpoint, op1, opcode, result, prog, pc, i, right>>
      /\ ~result_valid' /\ result_valid' \in BOOLEAN
  BY DEF irq_handler
<1>3. /\ harm' \in [Procs -> {"none", "late", "spoilt"}]
      /\ \A q \in Procs :
           /\ harm'[q] = "none" =>
                harm[q] = "none" /\ (q \in StoredOp2(IrqCell) => prog[q] = Nobody)
           /\ harm'[q] = "late" => harm[q] = "late" \/ Reading(q)
           /\ harm'[q] # "spoilt" => harm[q] # "spoilt"
  BY <1>0, OverwriteHarm, Zenon DEF irq_handler
<1>4. TypeOK'
  BY <1>0, <1>1, <1>2, <1>3 DEF TypeOK
<1>5. ASSUME NEW q \in Procs
      PROVE  Session(q)'
  <2>1. Written(q) /\ Late(q) /\ Reads(q)
    BY <1>0 DEF Session
  <2>2. /\ \A c \in Cells :
             /\ q \in StoredOp1(c)' => q \in StoredOp1(c)
             /\ q \in StoredOp2(c)' => q \in StoredOp2(c)
        /\ q \in StoredOpcode' => q \in StoredOpcode
        /\ Reading(q)' <=> Reading(q)
    BY <1>2 DEF StoredOp1, StoredOp2, StoredOpcode, Reading
  <2>3. ASSUME harm'[q] = "none", endpoint = "multiplier",
               NEW c \in Cells, q \in StoredOp2(c)'
        PROVE  op2'[c] = prog[q]
    <3>1. CASE c = IrqCell
      <4>1. prog[q] = Nobody
        BY <1>3, <2>2, <2>3, <3>1
      <4>2. op2'[IrqCell] = Nobody
        BY <1>0, <2>3, <3>1 DEF TypeOK, irq_handler, Store
      <4> QED
        BY <3>1, <4>1, <4>2
    <3>2. CASE c # IrqCell
      BY <1>1, <1>3, <2>1, <2>2, <2>3, <3>2 DEF Written
    <3> QED
      BY <3>1, <3>2
  <2>4. Written(q)'
    BY <1>2, <1>3, <2>1, <2>2, <2>3 DEF Written
  <2>5. Late(q)'
    BY <1>2, <1>3, <2>1, <2>2 DEF Late
  <2>6. Reads(q)'
    BY <1>2, <1>3, <2>1, <2>2 DEF Reads
  <2> QED
    BY <2>4, <2>5, <2>6 DEF Session
<1> QED
  BY <1>2, <1>4, <1>5 DEF Inv, Latched

(* A read of the result.  The first one finds, or computes, the product of *)
(* the operands; the others find the result as the first one left it,      *)
(* unless another process has multiplied again.                            *)
LEMMA GetResultInv ==
  ASSUME Inv, NEW p \in Procs, GetResult(p)
  PROVE  Inv'
<1>0. TypeOK /\ Latched /\ \A q \in Procs : Session(q)
  BY DEF Inv
<1>1. i[p] \in Cells /\ pc[p] = "result"
  BY <1>0 DEF TypeOK, GetResult
<1>2. /\ pc' \in [Procs -> Calls] /\ i' \in [Procs -> Cells]
      /\ \A q \in Procs \ {p} : pc'[q] = pc[q] /\ i'[q] = i[q]
      /\ \/ pc'[p] = "copy" /\ i'[p] = 0
         \/ pc'[p] = "result" /\ i'[p] = i[p] + 1
  <2>1. Transferred(p, Words, "copy")
    BY DEF GetResult
  <2>2. Words = 1 => i[p] = 0
    BY <1>1, SMT DEF Cells
  <2> QED
    BY <1>0, <1>1, <2>1, <2>2, TransferType DEF Calls
<1>3. /\ result' = IF Triggers(i[p]) THEN perform_multiplication ELSE result
      /\ result_valid' = (result_valid \/ Triggers(i[p]))
      /\ UNCHANGED <<endpoint, op1, op2, opcode, prog>>
  BY DEF GetResult, operands
<1>4. perform_multiplication \in [Cells -> Word]
  BY <1>0 DEF TypeOK, perform_multiplication, Entry, Word
<1>5. perform_multiplication' = perform_multiplication
  BY <1>3 DEF perform_multiplication, Entry
<1>6. Latched'
  BY <1>0, <1>3, <1>5 DEF Latched
<1>7. /\ harm' \in [Procs -> {"none", "late", "spoilt"}]
      /\ harm'[p] = harm[p]
      /\ \A q \in Procs :
           /\ harm'[q] = "none" => harm[q] = "none"
           /\ harm'[q] = "late" => harm[q] = "late"
           /\ harm'[q] # "spoilt" => harm[q] # "spoilt"
      /\ \A q \in Procs \ {p} :
           Triggers(i[p]) /\ Reading(q) /\ harm'[q] # "spoilt" => harm[q] # "late"
  BY <1>0, Zenon DEF TypeOK, GetResult, Triggers
<1>8. ASSUME harm[p] # "spoilt", endpoint = "multiplier", prog[p] \in Multiplying
      PROVE  \A c \in Cells : result'[c] = prog[p]
  <2>1. Written(p) /\ Late(p) /\ Reads(p)
    BY <1>0 DEF Session
  <2>2. CASE i[p] = 0
    <3>1. harm[p] = "none"
      <4>1. harm[p] # "late"
        BY <1>1, <2>1, <2>2, FirstCell DEF Late, Reading
      <4> QED
        BY <1>0, <1>8, <4>1 DEF TypeOK
    <3>2. \A c \in Cells : perform_multiplication[c] = prog[p]
      BY <1>1, <1>8, <2>1, <3>1, OwnOperands
    <3>3. result' = perform_multiplication
      BY <1>0, <1>3, <1>8, <2>2 DEF Triggers, Latched
    <3> QED
      BY <3>2, <3>3
  <2>3. CASE i[p] # 0
    <3>1. Reading(p) /\ ~Triggers(i[p])
      BY <1>1, <2>3, NextCell DEF Reading, Triggers
    <3> QED
      BY <1>3, <1>8, <2>1, <3>1 DEF Reads
  <2> QED
    BY <2>2, <2>3
<1>9. /\ right' \in [Procs -> BOOLEAN]
      /\ \A q \in Procs \ {p} : right'[q] = right[q]
      /\ /\ right[p] /\ endpoint = "multiplier" /\ result'[i[p]] = prog[p]
         => right'[p]
  <2>1. right' = [right EXCEPT ![p] =
          right[p] /\ endpoint = "multiplier" /\ result'[i[p]] = prog[p]]
    BY DEF GetResult
  <2> QED
    BY <1>0, <2>1, Zenon DEF TypeOK
<1>10. TypeOK'
  <2>1. result' \in [Cells -> Word] /\ result_valid' \in BOOLEAN
    BY <1>0, <1>3, <1>4 DEF TypeOK, Triggers
  <2>2. \A q \in Procs : pc'[q] \notin {"op1", "op2", "result"} => i'[q] = 0
    BY <1>0, <1>1, <1>2 DEF TypeOK
  <2> QED
    BY <1>0, <1>2, <1>3, <1>7, <1>9, <2>1, <2>2 DEF TypeOK
<1>11. ASSUME NEW q \in Procs
       PROVE  Session(q)'
  <2>1. Written(q) /\ Late(q) /\ Reads(q)
    BY <1>0 DEF Session
  <2>2. /\ \A c \in Cells :
             /\ q \in StoredOp1(c)' => q \in StoredOp1(c)
             /\ q \in StoredOp2(c)' => q \in StoredOp2(c)
        /\ q \in StoredOpcode' => q \in StoredOpcode
        /\ Reading(q) => Reading(q)' \/ pc'[q] = "copy"
        /\ Reading(q)' => q = p \/ Reading(q)
        /\ pc'[q] = "exit" => pc[q] = "exit" /\ q # p
    <3>1. CASE q = p
      BY <1>1, <1>2, <3>1, NextCell
      DEF StoredOp1, StoredOp2, StoredOpcode, Reading
    <3>2. CASE q # p
      BY <1>2, <3>2 DEF StoredOp1, StoredOp2, StoredOpcode, Reading
    <3> QED
      BY <3>1, <3>2
  <2>3. Written(q)'
    BY <1>3, <1>7, <2>1, <2>2 DEF Written
  <2>4. Late(q)'
    BY <1>1, <1>2, <1>7, <2>1, <2>2 DEF Late
  <2>5. Reads(q)'
    <3>1. SUFFICES ASSUME harm'[q] # "spoilt", endpoint = "multiplier",
                          prog[q] \in Multiplying
                   PROVE  /\ right'[q]
                          /\ Reading(q)' => \A c \in Cells : result'[c] = prog[q]
      BY <1>3, <1>9, <2>1, <2>2 DEF Reads
    <3>2. harm[q] # "spoilt" /\ right[q]
      BY <1>7, <2>1, <3>1 DEF Reads
    <3>3. CASE q = p
      BY <1>1, <1>8, <1>9, <3>1, <3>2, <3>3
    <3>4. CASE q # p
      <4>1. right'[q]
        BY <1>9, <3>2, <3>4
      <4>2. ASSUME Reading(q)
            PROVE  \A c \in Cells : result'[c] = prog[q]
        <5>1. CASE Triggers(i[p])
          <6>1. harm[q] = "none"
            BY <1>0, <1>7, <3>1, <3>2, <3>4, <4>2, <5>1 DEF TypeOK
          <6>2. \A c \in Cells : perform_multiplication[c] = prog[q]
            BY <2>1, <3>1, <4>2, <6>1, OwnOperands DEF Reading
          <6> QED
            BY <1>3, <5>1, <6>2
        <5>2. CASE ~Triggers(i[p])
          BY <1>3, <2>1, <3>1, <3>2, <4>2, <5>2 DEF Reads
        <5> QED
          BY <5>1, <5>2
      <4> QED
        BY <2>2, <3>4, <4>1, <4>2
    <3> QED
      BY <3>3, <3>4
  <2> QED
    BY <2>3, <2>4, <2>5 DEF Session
<1> QED
  BY <1>6, <1>10, <1>11 DEF Inv

(* A session that starts has stored nothing. *)
LEMMA OpenInv ==
  ASSUME Inv, NEW p \in Procs, NEW g \in Programs, Open(p, g)
  PROVE  Inv'
<1>0. TypeOK /\ Latched /\ \A q \in Procs : Session(q)
  BY DEF Inv
<1>1. pc[p] = "exit" /\ i[p] = 0
  BY <1>0 DEF TypeOK, Open
<1>2. /\ prog' \in [Procs -> Word] /\ pc' \in [Procs -> Calls]
      /\ pc'[p] = "op1"
      /\ \A q \in Procs \ {p} : prog'[q] = prog[q] /\ pc'[q] = pc[q]
  BY <1>0 DEF TypeOK, Open, Calls, Word
<1>3. UNCHANGED <<endpoint, op1, op2, opcode, result, result_valid, i, right, harm>>
  BY DEF Open, device
<1>4. TypeOK'
  BY <1>0, <1>1, <1>2, <1>3 DEF TypeOK
<1>5. Latched'
  BY <1>0, <1>3 DEF Latched, perform_multiplication, Entry
<1>6. ASSUME NEW q \in Procs
      PROVE  Session(q)'
  <2>1. Written(q) /\ Late(q) /\ Reads(q)
    BY <1>0 DEF Session
  <2>2. CASE q = p
    <3>1. /\ \A c \in Cells : q \notin StoredOp1(c)' /\ q \notin StoredOp2(c)'
          /\ q \notin StoredOpcode' /\ ~Reading(q)'
      BY <1>1, <1>2, <1>3, <2>2, FirstCell
      DEF StoredOp1, StoredOp2, StoredOpcode, Reading
    <3>2. right[q] /\ harm[q] # "late"
      BY <1>1, <2>1, <2>2 DEF Reads, Late, Reading
    <3> QED
      BY <1>2, <1>3, <2>2, <3>1, <3>2 DEF Session, Written, Late, Reads
  <2>3. CASE q # p
    <3>1. /\ \A c \in Cells :
               /\ q \in StoredOp1(c)' => q \in StoredOp1(c)
               /\ q \in StoredOp2(c)' => q \in StoredOp2(c)
          /\ q \in StoredOpcode' => q \in StoredOpcode
          /\ Reading(q)' <=> Reading(q)
      BY <1>2, <1>3, <2>3 DEF StoredOp1, StoredOp2, StoredOpcode, Reading
    <3> QED
      BY <1>2, <1>3, <2>1, <2>3, <3>1 DEF Session, Written, Late, Reads
  <2> QED
    BY <2>2, <2>3
<1> QED
  BY <1>4, <1>5, <1>6 DEF Inv

(* The steps that do not reach the endpoint. *)
LEMMA ReturnInv ==
  ASSUME Inv, NEW p \in Procs, CopyToUser(p) \/ IoctlFails(p) \/ Close(p)
  PROVE  Inv'
<1>0. TypeOK /\ Latched /\ \A q \in Procs : Session(q)
  BY DEF Inv
<1>1. /\ pc' \in [Procs -> Calls]
      /\ pc'[p] \in {"print", "fail", "exit"} /\ i[p] = 0
      /\ pc[p] # "exit"
      /\ \A q \in Procs \ {p} : pc'[q] = pc[q]
  BY <1>0 DEF TypeOK, CopyToUser, IoctlFails, Close, Calls
<1>2. UNCHANGED <<endpoint, op1, op2, opcode, result, result_valid, i>>
  BY DEF CopyToUser, IoctlFails, Close, device
<1>3. /\ right' \in [Procs -> BOOLEAN]
      /\ \A q \in Procs : right[q] => right'[q]
      /\ pc'[p] = "exit" => right'[p]
  BY <1>0, Zenon DEF TypeOK, CopyToUser, IoctlFails, Close
<1>4. /\ harm' \in [Procs -> {"none", "late", "spoilt"}]
      /\ prog' \in [Procs -> Word]
      /\ \A q \in Procs \ {p} : harm'[q] = harm[q] /\ prog'[q] = prog[q]
      /\ \/ harm'[p] = harm[p] /\ prog'[p] = prog[p] /\ pc'[p] # "exit"
         \/ harm'[p] = "none" /\ pc'[p] = "exit" /\ prog'[p] = Nobody
  <2>1. CASE CopyToUser(p) \/ IoctlFails(p)
    BY <1>0, <2>1 DEF TypeOK, CopyToUser, IoctlFails
  <2>2. CASE Close(p)
    BY <1>0, <2>2 DEF TypeOK, Close, Word
  <2> QED
    BY <2>1, <2>2
<1>5. TypeOK'
  BY <1>0, <1>1, <1>2, <1>3, <1>4 DEF TypeOK
<1>6. Latched'
  BY <1>0, <1>2 DEF Latched, perform_multiplication, Entry
<1>7. ASSUME NEW q \in Procs
      PROVE  Session(q)'
  <2>1. Written(q) /\ Late(q) /\ Reads(q)
    BY <1>0 DEF Session
  <2>2. CASE q = p
    <3>1. /\ \A c \in Cells : q \notin StoredOp1(c)' /\ q \notin StoredOp2(c)'
          /\ q \notin StoredOpcode' /\ ~Reading(q)'
      BY <1>1, <2>2 DEF StoredOp1, StoredOp2, StoredOpcode, Reading
    <3>2. Written(q)' /\ Late(q)'
      BY <1>1, <1>4, <2>2, <3>1 DEF Written, Late
    <3>3. Reads(q)'
      BY <1>2, <1>3, <1>4, <2>1, <2>2, <3>1 DEF Reads
    <3> QED
      BY <3>2, <3>3 DEF Session
  <2>3. CASE q # p
    <3>1. /\ \A c \in Cells :
               /\ q \in StoredOp1(c)' => q \in StoredOp1(c)
               /\ q \in StoredOp2(c)' => q \in StoredOp2(c)
          /\ q \in StoredOpcode' => q \in StoredOpcode
          /\ Reading(q)' <=> Reading(q)
      BY <1>1, <1>2, <2>3 DEF StoredOp1, StoredOp2, StoredOpcode, Reading
    <3> QED
      BY <1>1, <1>2, <1>3, <1>4, <2>1, <2>3, <3>1
      DEF Session, Written, Late, Reads
  <2> QED
    BY <2>2, <2>3
<1> QED
  BY <1>5, <1>6, <1>7 DEF Inv

-----------------------------------------------------------------------------
(* Inv is an invariant of the co-simulation. *)
LEMMA InvAlways == Spec => []Inv
<1>1. Inv /\ [Next]_vars => Inv'
  <2> SUFFICES ASSUME Inv, [Next]_vars PROVE Inv'
    OBVIOUS
  <2>1. CASE UNCHANGED vars
    BY <2>1 DEF vars, Inv, TypeOK, Latched, perform_multiplication, Entry,
       Session, Written, Late, Reads, Reading, StoredOp1, StoredOp2,
       StoredOpcode
  <2>2. ASSUME NEW p \in Procs, Main(p)
        PROVE  Inv'
    BY <2>2, SetOp1Inv, SetOp2Inv, SetOpcodeInv, GetResultInv, OpenInv,
       ReturnInv DEF Main
  <2>3. CASE irq_handler
    BY <2>3, IrqInv
  <2> QED
    BY <2>1, <2>2, <2>3 DEF Next
<1> QED
  BY <1>1, InitInv, PTL DEF Spec

(* OwnProduct for every dimension and all processes and programs: with     *)
(* MatrixMultiplier, dev_ioctl and main deliver a process its own product  *)
(* unless a word it has stored is overwritten before its first read of the *)
(* result, or overwritten operands are multiplied before its last.         *)
THEOREM OwnProductHolds == Spec => []OwnProduct
<1>1. Inv => OwnProduct
  BY DEF Inv, Session, Reads, OwnProduct
<1> QED
  BY <1>1, InvAlways, PTL

(* No ioctl transfers a word outside of the DIM * DIM words of a matrix,   *)
(* whatever the interleaving of processes.                                 *)
THEOREM CoSimTypeOK == Spec => []TypeOK
<1>1. Inv => TypeOK
  BY DEF Inv
<1> QED
  BY <1>1, InvAlways, PTL
=============================================================================
