---------------------------- MODULE MCDurableFs ----------------------------
(* Instances of DurableFs for TLC: names, temporary names and contents are  *)
(* only compared for equality.                                              *)
EXTENDS DurableFs, TLC

Symmetry == Permutations(Names) \cup Permutations(Temps) \cup Permutations(Data)
=============================================================================
