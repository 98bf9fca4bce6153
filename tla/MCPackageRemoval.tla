--------------------------- MODULE MCPackageRemoval ---------------------------
(* One user who uninstalls and one who does not.                             *)
EXTENDS PackageRemoval
=============================================================================
