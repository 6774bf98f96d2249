----------------------------- MODULE MCTestBench -----------------------------
(***************************************************************************)
(* TestBench for TLC: memory of 12 floats, 16 addresses per word, so that  *)
(* addresses 12 to 255 lie outside of memory.                              *)
(***************************************************************************)
EXTENDS TestBench

MCWords == 0..15
MCDims == {0, 1, 2, 3}
MCValues == 0..12

(* Twelve different entries in order and in reverse, the test's identity   *)
(* at 0 with 2.0 at 4, and that layout the other way round.                *)
MCContents == {[c \in Cells |-> c + 1], [c \in Cells |-> 12 - c],
               [c \in Cells |-> IF c \in {0, 3} THEN 1
                               ELSE IF c \in 4..7 THEN 2 ELSE 0],
               [c \in Cells |-> IF c \in {4, 7} THEN 1
                               ELSE IF c \in 0..3 THEN 2 ELSE 0]}

At2(n, a, b, c) ==
  LET p(x) == [hi |-> x \div WORD, lo |-> x % WORD]
  IN [n |-> n, A |-> p(a), B |-> p(b), C |-> p(c)]

(* The layout of the test, three overlapping ones (C on A, C across A and  *)
(* B, all three in one place), one matrix of one entry, buffers that end   *)
(* outside, a high pointer half, and two rejected dimensions.              *)
MCScenarios == {At2(2, 0, 4, 8), At2(2, 4, 0, 4), At2(2, 0, 4, 2),
                At2(2, 8, 8, 8), At2(1, 3, 5, 11), At2(2, 9, 0, 4),
                At2(2, 0, 9, 4), At2(2, 0, 4, 9), At2(2, 0, 16, 4),
                At2(0, 0, 4, 8), At2(3, 0, 0, 0)}
=============================================================================
