------------------------------- MODULE MCSession -------------------------------
(* Small instances of Session.                                             *)
EXTENDS Session, TLC

NoRuntime == {NoSnapshot}

\* The runtime gate open, closed because something could not be
\* read, and closed because the active trigger is not the recorded one.
GateRuntimes ==
    {NoSnapshot,
     [mount |-> "Indeterminate", verification |-> "Indeterminate",
      automount |-> "Active", trust |-> "Trusted"],
     [mount |-> "Absent", verification |-> "NotApplicable",
      automount |-> "Active", trust |-> "Untrusted"]}

Symmetry == Permutations(Ids)
=============================================================================
