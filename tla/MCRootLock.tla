------------------------------ MODULE MCRootLock ------------------------------
(* RootLock for TLC: the helper, which may purge, and nasmount-boot.        *)
EXTENDS RootLock
=============================================================================
