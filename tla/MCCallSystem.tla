---------------------------- MODULE MCCallSystem -----------------------------
(* CallSystem for TLC.                                                       *)
EXTENDS CallSystem, TLC

Symmetry == Permutations(Calls) \cup Permutations(Modems \ {Dongle})
=============================================================================
