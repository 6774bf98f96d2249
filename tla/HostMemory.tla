----------------------------- MODULE HostMemory -----------------------------
(***************************************************************************)
(* host_memory of custom-endpoint/testbench.cpp, the target of the         *)
(* device's DMA.  The unit of addresses and lengths is one float.          *)
(* Addresses are 64-bit numbers, here numbers below WORD * WORD: a pointer *)
(* is two words of WORD values each.                                       *)
(***************************************************************************)
EXTENDS Naturals

CONSTANTS
  WORD,      (* the number of values of a 32-bit word: 2^32 in the code    *)
  MemSize,   (* memory.size(): 16 MiB in the code                          *)
  Values     (* the floats a cell may hold at the start                    *)

ASSUME MemoryAssumption ==
  /\ WORD \in Nat \ {0, 1}
  /\ MemSize \in 1..(WORD * WORD - 1)
  /\ Values \subseteq Nat /\ Values # {}

Cells == 0..(MemSize - 1)
AddrOf(ptr) == ptr.hi * WORD + ptr.lo

(* addr + len of two uint64, and the cell that is i floats into a buffer.  *)
Add(addr, i) == (addr + i) % (WORD * WORD)

(* Mutant: only the start of the buffer is checked. *)
AcceptsByStart(addr, len) == addr < MemSize

(* The negation of the test for the ADDRESS ERROR response.                *)
Accepts(addr, len) == Add(addr, len) <= MemSize

(* Mutant: one cell too many. *)
ReadFromOneMore(mem, addr, len, junk) ==
  [i \in 0..len |-> IF Add(addr, i) \in Cells THEN mem[Add(addr, i)]
                                              ELSE junk]

(* memcpy from memory; a cell outside the vector holds anything (junk).    *)
ReadFrom(mem, addr, len, junk) ==
  [i \in 0..(len - 1) |-> IF Add(addr, i) \in Cells THEN mem[Add(addr, i)]
                                                    ELSE junk]

(* memcpy to memory.  *)
WriteTo(mem, addr, len, data) ==
  [c \in Cells |-> IF \E i \in 0..(len - 1) : Add(addr, i) = c
                   THEN data[CHOOSE i \in 0..(len - 1) : Add(addr, i) = c]
                   ELSE mem[c]]
=============================================================================
