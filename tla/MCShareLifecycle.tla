-------------------------- MODULE MCShareLifecycle --------------------------
(* Instances of ShareLifecycle for TLC.  Users, units, share ids and mount  *)
(* ids are only ever compared for equality, so all four are symmetry sets   *)
(* in the runs that check safety.                                           *)
EXTENDS ShareLifecycle, TLC

Symmetry ==
    Permutations(Users) \cup Permutations(Units)
    \cup Permutations(Ids) \cup Permutations(MountIds)
=============================================================================
