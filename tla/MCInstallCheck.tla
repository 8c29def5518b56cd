--------------------------- MODULE MCInstallCheck ---------------------------
(* InstallCheck with the constants of MCProvision (see MCInstallCheck.cfg). *)
EXTENDS InstallCheck, MCProvision
=============================================================================
