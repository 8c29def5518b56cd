---------------------------- MODULE InstallCheck ----------------------------
(***************************************************************************)
(* install_ok (provision.js 12-30), called by another script between runs  *)
(* of provision() on whatever the runs left on disk.  It returns false     *)
(* without a realm in smb.conf or when sam.ldb cannot be connected, and    *)
(* otherwise true exactly when a search for cn=Administrator finds one     *)
(* record.  The Administrator record is one of the records of              *)
(* provision_users.ldif, in the domain naming context; a search with no    *)
(* base sees the naming-context files only while the partitions record is *)
(* in the main file.                                                        *)
(*                                                                         *)
(* provision_dns (579-606) is called by the same script right after        *)
(* provision() returned true: it reads the domain GUID from the base DN    *)
(* record and the host GUID from the computer record of this host, and     *)
(* writes the zone file with setup_file.                                   *)
(***************************************************************************)
EXTENDS Provision

VARIABLES iok,          \* "none", or how the last install_ok call ended
          dns           \* "none", or how provision_dns ended

allVars == <<vars, iok, dns>>

(* The computer record of the host is one of the records of provision.ldif *)
(* (CN=NETBIOSNAME under the Domain Controllers OU of BASEDN).              *)
HostLdif == "provision.ldif"

(* The records a base-less search of sam.ldb sees.                        *)
Searchable ==
    durable[Sam] \cup
      (IF Holds(durable[Sam], "provision_partitions.ldif")
       THEN UNION {durable[n] : n \in NCs} ELSE {})

(***************************************************************************)
(* install_ok: a realm is set once smb.conf was written (provision_guess   *)
(* asserts a non-empty one).  connect fails on a corrupt file, or on any   *)
(* file if ConnectMayFail, and creates a missing one.  A failed search     *)
(* returns undefined and res.length throws: the calling script ends with   *)
(* "error".  The count is of the Administrator records found.              *)
(***************************************************************************)
InstallOk ==
    /\ status # "running" /\ iok = "none"
    /\ \/ /\ ~smbconf
          /\ iok' = "noRealm" /\ UNCHANGED exists
       \/ /\ smbconf /\ (corrupt[Sam] \/ ConnectMayFail)
          /\ iok' = "noConnect" /\ UNCHANGED exists
       \/ /\ smbconf /\ ~corrupt[Sam]
          /\ exists' = [exists EXCEPT ![Sam] = TRUE]
          /\ \/ iok' = "error"
             \/ iok' = IF Holds(Searchable, "provision_users.ldif")
                       THEN "true" ELSE "false"
    /\ UNCHANGED <<durable, corrupt, view, sess, lastOk, status, faulted, runVars, pc, dns>>

(***************************************************************************)
(* provision_dns: the connect is asserted; the SCOPE_BASE search at BASEDN *)
(* must return one record (assert), and searchone for the computer record *)
(* must find one (assert on undefined); a failed search is read with       *)
(* res.length, a script error; then setup_file unlinks and saves the zone, *)
(* a failed save being an assert.  "fault" is an end by a call failing by  *)
(* itself (a connect of a sound file, a search, the save), "aborted" one  *)
(* by an assert on what the store held (a corrupt file, a missing record). *)
(***************************************************************************)
ProvisionDns ==
    /\ status = "done" /\ dns = "none"
    /\ \/ dns' = "fault"
       \/ dns' = IF /\ ~corrupt[Sam]
                    /\ Holds(Searchable, "provision_basedn.ldif")
                    /\ Holds(Searchable, HostLdif)
                 THEN "written" ELSE "aborted"
    /\ UNCHANGED <<vars, iok>>

InstallInit == Init /\ iok = "none" /\ dns = "none"

(* provision() runs, killed or not, with install_ok called after any end;  *)
(* a new run makes the last answer stale.                                  *)
InstallStep == Step /\ UNCHANGED <<iok, dns>>

InstallNext ==
    \/ InstallStep
    \/ Crash /\ UNCHANGED <<iok, dns>>
    \/ Restart /\ iok' = "none" /\ dns' = "none"
    \/ InstallOk
    \/ ProvisionDns

(* As in Spec, only the script's own steps are fair.                       *)
InstallSpec == InstallInit /\ [][InstallNext]_allVars /\ WF_allVars(InstallStep)

-----------------------------------------------------------------------------
(***************************************************************************)
(* install_ok "returns true if the current install seems to be OK" (its   *)
(* comment, line 10): when it returns true, sam.ldb holds the full set of  *)
(* records of one non-blank run.                                          *)
(***************************************************************************)
InstallOkMeansProvisioned ==
    iok = "true" =>
        \E g \in 1..MaxRuns :
            \A t \in Provisioned(FALSE) \ {"share.ldif", "secrets.ldif", "hklm.ldif"} :
                [t |-> t, g |-> g] \in durable[Home(t)]

=============================================================================
