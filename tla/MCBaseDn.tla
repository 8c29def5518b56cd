------------------------------ MODULE MCBaseDn ------------------------------
(* BaseDn over realms of up to four characters from a, A and the dot.     *)
EXTENDS BaseDn

MCCaseMap == "a" :> "A"
=============================================================================
