------------------------------- MODULE MCCoSim -------------------------------
(* CoSim for TLC: processes that run app.c each time, or another program   *)
(* with other operands and another opcode.                                 *)
EXTENDS CoSim, TLC

CONSTANTS p1, p2, app, other

MCProcs == {p1, p2}
MCPrograms == {app, other}
MCMultiplying == {app}
Symmetric == Permutations(MCProcs)
=============================================================================
