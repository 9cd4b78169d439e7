------------------------------ MODULE MCSmcTrap ------------------------------
(* Threads are interchangeable, and so are addresses; of two pages one is   *)
(* closed and one may be read.                                              *)
EXTENDS SmcTrap, TLC

ASSUME TrapAssumption

Symmetry == Permutations(Threads) \cup Permutations(Returns)
=============================================================================
