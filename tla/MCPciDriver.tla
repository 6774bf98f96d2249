----------------------------- MODULE MCPciDriver -----------------------------
(* PciDriver for TLC.                                                      *)
EXTENDS PciDriver, TLC

CONSTANTS u1, u2

MCUsers == {u1, u2}
UserSymmetry == Permutations(MCUsers)

NoFailures == {}
(* the calls of pci_probe that can fail *)
ProbeFailures == (Resources \ {"driver"}) \cup {"flags"}
(* all failures but that of pci_iomap, a failing registration included *)
MostFailures == (Resources \cup {"flags"}) \ {"map"}
=============================================================================
