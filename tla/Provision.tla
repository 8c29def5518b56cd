------------------------------ MODULE Provision ------------------------------
(***************************************************************************)
(* provision() (provision.js 433-576): the phase sequence that builds      *)
(* smb.conf, share.ldb, secrets.ldb, the keytabs, hklm.ldb and sam.ldb,    *)
(* run after run.  A run ends by returning, by a failed assert, or by the  *)
(* process being killed; the operator may then run it again over whatever *)
(* the earlier run left on disk.                                           *)
(*                                                                         *)
(* The body of provision() with its calls inlined is the sequence Prog;    *)
(* pc indexes it and each kind of entry is one action.  The session        *)
(* helpers are those of LdbSession, ldb_erase_partitions is the            *)
(* ErasePartitions instance.                                               *)
(***************************************************************************)
EXTENDS LdbSession, Sequences

CONSTANTS Share, Secrets, Hklm,          \* share.ldb, secrets.ldb, hklm.ldb
          DomainNC, ConfigNC, SchemaNC,  \* the naming contexts of sam.ldb
          NoNC,
          Mappings,                      \* the setup_name_mapping calls
          Foreign,                       \* those of a SID add_foreign creates
          Damaged,                       \* files an earlier version may have left records in
          MaxRuns                        \* how many times provision is run

ASSUME /\ DBs = {Share, Secrets, Hklm, Sam}
       /\ NCs = {DomainNC, ConfigNC, SchemaNC}
       /\ MaxGen = MaxRuns
       /\ Damaged \subseteq NCs \cup {Sam}
       /\ Foreign \subseteq Mappings

VARIABLES run,        \* the number of the current run of provision()
          blank,      \* its blank argument, as tested by "blank != false"
          pc,         \* the index in Prog(blank) of the next entry
          result,     \* the value provision() returned
          smbconf,    \* the smb.conf file exists
          addOk,      \* add_ok of the base DN add (line 501)
          mapFailed,  \* some setup_name_mapping call failed in this run
          ep,         \* the locals of ldb_erase_partitions
          reported    \* naming contexts an erase message was issued for

vars == <<sessionVars, run, blank, pc, result, smbconf, addOk, mapFailed,
          ep, reported>>

EP == INSTANCE ErasePartitions WITH Recs <- Rec, MaxRounds <- 10

(* Where the records of each ldif land: the main file of its database, or  *)
(* the naming context holding its DN.                                     *)
Home(t) ==
    CASE t = "share.ldif"   -> Share
      [] t = "secrets.ldif" -> Secrets
      [] t = "hklm.ldif"    -> Hklm
      [] t \in {"provision_partitions.ldif", "provision_init.ldif",
                "provision_index.ldif"} -> Sam
      [] t \in {"schema_samba4.ldif", "schema.ldif"} -> SchemaNC
      [] t = "display_specifiers.ldif" -> ConfigNC
      [] OTHER -> DomainNC

(* The file an add or a search in sam.ldb reaches: without the partitions  *)
(* module loaded at connect, the main file holds every DN.                 *)
Dest(t) == IF Home(t) \in NCs /\ ~sess.parts THEN Sam ELSE Home(t)

ASSUME Ldifs = {"share.ldif", "secrets.ldif", "hklm.ldif",
                "provision_partitions.ldif", "provision_init.ldif",
                "provision_basedn.ldif", "schema_samba4.ldif", "schema.ldif",
                "display_specifiers.ldif", "provision_templates.ldif",
                "provision.ldif", "provision_users.ldif",
                "provision_index.ldif"} \cup Foreign

(***************************************************************************)
(* The program.                                                            *)
(***************************************************************************)
Op(o)     == [op |-> o]
Open(db)  == [op |-> "open", db |-> db]
Erase(db) == [op |-> "erase", db |-> db]
Add(t)    == [op |-> "add", t |-> t]

(* setup_ldb(ldif, info, dbname) with its defaults erase = true,           *)
(* failok = false (304-323).                                               *)
SetupLdb(t, db) == << Open(db), Erase(db), Add(t), Op("commit") >>

(* Lines 466-532: from smb.conf up to the seed data, common to both kinds *)
(* of run.                                                                 *)
ProgPrefix ==
    << Op("smbconf"), [op |-> "skipIfExists", db |-> Share, n |-> 4] >>
    \o SetupLdb("share.ldif", Share)
    \o SetupLdb("secrets.ldif", Secrets)
    \o << Op("keytab") >>
    \o SetupLdb("hklm.ldif", Hklm)
    \o SetupLdb("provision_partitions.ldif", Sam)
    \o << Open(Sam), Add("provision_init.ldif"), Op("erasePartitions"),
          Op("addBaseDn"), Op("modifyBaseDn"), Op("checkBaseDn"),
          Add("schema_samba4.ldif"), Add("schema.ldif"),
          Op("commit"), Op("close"), Open(Sam),
          Add("display_specifiers.ldif"), Add("provision_templates.ldif"),
          Add("provision.ldif") >>

(* Lines 534-575: the blank early exit, or users, mappings and the index.  *)
Prog(b) ==
    ProgPrefix
    \o IF b THEN << Add("provision_index.ldif"), Op("commit"), Op("return") >>
       ELSE << Add("provision_users.ldif"), Op("nameMappings"),
               Add("provision_index.ldif"), Op("commit"), Op("return") >>

Cur == Prog(blank)[pc]

LegacyRec == [t |-> Legacy, g |-> 0]

-----------------------------------------------------------------------------
TypeOK ==
    /\ SessionTypeOK
    /\ run \in 1..MaxRuns
    /\ blank \in BOOLEAN
    /\ pc \in 1..Len(Prog(blank))
    /\ result \in BOOLEAN
    /\ smbconf \in BOOLEAN
    /\ addOk \in BOOLEAN
    /\ mapFailed \in BOOLEAN
    /\ EP!EPTypeOK

(***************************************************************************)
(* Before the first run: no databases, except that sam.ldb may be left     *)
(* unreadable, or its files may hold records of an incompatible earlier    *)
(* version (in the files Damaged); smb.conf is not there yet.              *)
(***************************************************************************)
Init ==
    /\ durable \in {[f \in Files |-> IF f \in DOMAIN old THEN old[f] ELSE {}] :
                      old \in [Damaged -> SUBSET {LegacyRec}]}
    /\ corrupt \in {[db \in DBs |-> db = Sam /\ c] : c \in BOOLEAN}
    /\ exists = corrupt
    /\ view = durable
    /\ sess = [db |-> NoDb, txn |-> FALSE, parts |-> FALSE]
    /\ lastOk = FALSE
    /\ status = "running"
    /\ run = 1
    /\ blank \in BOOLEAN
    /\ pc = 1
    /\ result = FALSE
    /\ smbconf = FALSE
    /\ addOk = FALSE
    /\ mapFailed = FALSE
    /\ ep = EP!EPIdle
    /\ reported = {}
    /\ faulted = FALSE

(* The next entry, unless the step ended the script.                      *)
Advance == pc' = IF status' = "running" THEN pc + 1 ELSE pc

Running(o) == status = "running" /\ Cur.op = o

runVars == <<run, blank, result, smbconf, addOk, mapFailed, ep, reported>>

(***************************************************************************)
(* Lines 469-474 with setup_file (348-364): only when smb.conf is absent,  *)
(* unlink, render and save it; a failed save is an assert.                 *)
(***************************************************************************)
SmbConf ==
    /\ Running("smbconf")
    /\ \/ /\ smbconf
          /\ UNCHANGED <<smbconf, status, faulted>>
       \/ /\ ~smbconf
          /\ \/ smbconf' = TRUE /\ UNCHANGED <<status, faulted>>
             \/ smbconf' = FALSE /\ status' = "failed" /\ faulted' = TRUE
    /\ Advance
    /\ UNCHANGED <<durable, exists, corrupt, view, sess, lastOk>>
    /\ UNCHANGED <<run, blank, result, addOk, mapFailed, ep, reported>>

(* Lines 476-480: share.ldb is set up only when sys.stat finds no file.   *)
SkipIfExists ==
    /\ Running("skipIfExists")
    /\ pc' = IF exists[Cur.db] THEN pc + 1 + Cur.n ELSE pc + 1
    /\ UNCHANGED <<sessionVars, runVars>>

OpenStep ==
    /\ Running("open")
    /\ OpenLdb(Cur.db)
    /\ Advance
    /\ UNCHANGED runVars

EraseStep ==
    /\ Running("erase")
    /\ LdbErase(Cur.db)
    /\ Advance
    /\ UNCHANGED runVars

AddStep ==
    /\ Running("add")
    /\ AddLdif(Cur.t, Dest(Cur.t), run, FALSE)
    /\ Advance
    /\ UNCHANGED runVars

CommitStep ==
    /\ Running("commit")
    /\ Commit
    /\ Advance
    /\ UNCHANGED runVars

CloseStep ==
    /\ Running("close")
    /\ Close
    /\ Advance
    /\ UNCHANGED runVars

(* Lines 484-485: credentials_update_all_keytabs, asserted.                *)
Keytab ==
    /\ Running("keytab")
    /\ \/ UNCHANGED <<status, faulted>>
       \/ status' = "failed" /\ faulted' = TRUE
    /\ Advance
    /\ UNCHANGED <<durable, exists, corrupt, view, sess, lastOk, runVars>>

(***************************************************************************)
(* Line 498: the call of ldb_erase_partitions, its loop, and its return.   *)
(* The rootDSE lists naming contexts once the partitions record is loaded. *)
(* A round issues a message exactly when a search or a delete of it       *)
(* failed, and the function aborts only on a failed rootDSE search.       *)
(***************************************************************************)
(* Mutant: the erase never sees the partitions record, as if the search   *)
(* for it were made before the connect.                                    *)
ErasePartitionsCallNoNCs ==
    /\ Running("erasePartitions")
    /\ EP!EPBegin(FALSE)
    /\ UNCHANGED <<sessionVars, pc, run, blank, result, smbconf, addOk, mapFailed>>

ErasePartitionsCall ==
    /\ Running("erasePartitions")
    /\ EP!EPBegin(Holds(view[Sam], "provision_partitions.ldif"))
    /\ UNCHANGED <<sessionVars, pc, run, blank, result, smbconf, addOk, mapFailed>>

ErasePartitionsLoop ==
    /\ Running("erasePartitions")
    /\ EP!EPStep
    /\ faulted' = (faulted \/ reported' # reported)
    /\ UNCHANGED <<durable, exists, corrupt, sess, lastOk, status>>
    /\ UNCHANGED <<pc, run, blank, result, smbconf, addOk, mapFailed>>

ErasePartitionsReturn ==
    /\ Running("erasePartitions")
    /\ ep.state \in {"done", "aborted"}
    /\ status' = IF ep.state = "aborted" THEN "failed" ELSE "running"
    /\ faulted' = (faulted \/ ep.state = "aborted")
    /\ ep' = EP!EPIdle
    /\ Advance
    /\ UNCHANGED <<durable, exists, corrupt, view, sess, lastOk>>
    /\ UNCHANGED <<run, blank, result, smbconf, addOk, mapFailed, reported>>

(* Lines 500-501: the base DN add, permitted to fail.                      *)
AddBaseDn ==
    /\ Running("addBaseDn")
    /\ AddLdif("provision_basedn.ldif", Dest("provision_basedn.ldif"), run, TRUE)
    /\ addOk' = lastOk'
    /\ Advance
    /\ UNCHANGED <<run, blank, result, smbconf, mapFailed, ep, reported>>

(* Lines 502-503: the corrective modify of the base DN.                    *)
ModifyBaseDn ==
    /\ Running("modifyBaseDn")
    /\ ModifyLdif("provision_basedn.ldif", Dest("provision_basedn.ldif"), run)
    /\ Advance
    /\ UNCHANGED runVars

(* Lines 504-510: a failed modify is an assert, whatever add_ok was; the   *)
(* operator hint is printed only when the add failed too.                  *)
CheckBaseDn ==
    /\ Running("checkBaseDn")
    /\ \/ lastOk /\ UNCHANGED status
       \/ ~lastOk /\ status' = "failed"
    /\ Advance
    /\ UNCHANGED <<durable, exists, corrupt, view, sess, lastOk, faulted, runVars>>

(* add_foreign (52-64) for each foreign SID (401-405): the add fails on   *)
(* an existing DN and may fail for any other reason; every error is        *)
(* ignored.  The domain naming context after the adds.                     *)
ForeignAdded(recs) ==
    {recs \cup {[t |-> m, g |-> run] : m \in ok} :
        ok \in SUBSET {m \in Foreign : ~Holds(recs, m)}}

(* setup_name_mapping (66-93): the SUBTREE search for the SID under BASEDN *)
(* must find exactly one record, the foreign principal of a foreign SID or *)
(* the provision_users.ldif record of a builtin group or domain RID.       *)
MappingFound(recs, m) ==
    Holds(recs, IF m \in Foreign THEN m ELSE "provision_users.ldif")

(***************************************************************************)
(* setup_name_mappings (390-427) and its use at line 562.  The base DN     *)
(* search is asserted (a failed search is read with res.length).  Then    *)
(* the foreign principal adds, and each setup_name_mapping, which returns  *)
(* false when its search finds no record or its modify fails (bad), and   *)
(* ends the script when its search fails (res.length of undefined, 75).   *)
(* Its false is dropped and the function returns true, so line 562 never  *)
(* returns false.  The unixName the modify replaces is not modelled.       *)
(***************************************************************************)
NameMappings ==
    /\ Running("nameMappings")
    /\ LET f == Dest("provision_basedn.ldif") IN
       \/ /\ status' = "failed"
          /\ faulted' = (faulted \/ Holds(view[f], "provision_basedn.ldif"))
          /\ UNCHANGED <<view, mapFailed>>
       \/ /\ Holds(view[f], "provision_basedn.ldif")
          /\ \E recs \in ForeignAdded(view[f]) :
                /\ view' = [view EXCEPT ![f] = recs]
                /\ \/ /\ \E bad \in SUBSET Mappings :
                            mapFailed' = \E m \in Mappings : ~MappingFound(recs, m) \/ m \in bad
                      /\ UNCHANGED <<status, faulted>>
                   \/ /\ status' = "failed" /\ faulted' = TRUE
                      /\ UNCHANGED mapFailed
    /\ Advance
    /\ UNCHANGED <<durable, exists, corrupt, sess, lastOk>>
    /\ UNCHANGED <<run, blank, result, smbconf, addOk, ep, reported>>

(* Lines 543 and 575: return true.                                         *)
Return ==
    /\ Running("return")
    /\ status' = "done"
    /\ result' = TRUE
    /\ UNCHANGED <<durable, exists, corrupt, view, sess, lastOk, faulted, pc>>
    /\ UNCHANGED <<run, blank, smbconf, addOk, mapFailed, ep, reported>>

(***************************************************************************)
(* The environment: the process may be killed at any point, losing the     *)
(* open transaction; after any end the operator may run provision again.   *)
(* What the process held in memory is gone either way, and the next run    *)
(* gets its own blank argument.                                            *)
(***************************************************************************)
Forget ==
    /\ blank' \in BOOLEAN
    /\ pc' = 1
    /\ result' = FALSE
    /\ view' = durable
    /\ sess' = [db |-> NoDb, txn |-> FALSE, parts |-> FALSE]
    /\ lastOk' = FALSE
    /\ addOk' = FALSE
    /\ mapFailed' = FALSE
    /\ ep' = EP!EPIdle
    /\ reported' = {}
    /\ faulted' = FALSE

Crash ==
    /\ status = "running"
    /\ status' = "crashed"
    /\ Forget
    /\ UNCHANGED <<durable, exists, corrupt, run, smbconf>>

Restart ==
    /\ status # "running"
    /\ run < MaxRuns
    /\ run' = run + 1
    /\ status' = "running"
    /\ Forget
    /\ UNCHANGED <<durable, exists, corrupt, smbconf>>

Step ==
    \/ SmbConf \/ SkipIfExists \/ OpenStep \/ EraseStep \/ AddStep
    \/ CommitStep \/ CloseStep \/ Keytab
    \/ ErasePartitionsCall \/ ErasePartitionsLoop \/ ErasePartitionsReturn
    \/ AddBaseDn \/ ModifyBaseDn \/ CheckBaseDn \/ NameMappings \/ Return

Next == Step \/ Crash \/ Restart

(* The script runs on while it can; being killed and being re-run are not  *)
(* something it can count on.                                              *)
Spec == Init /\ [][Next]_vars /\ WF_vars(Step)


-----------------------------------------------------------------------------
(* The ldifs a run of this kind adds or modifies (the foreign principals   *)
(* excepted: their adds may fail).                                         *)
Provisioned(b) ==
    {Prog(b)[i].t : i \in {j \in 1..Len(Prog(b)) : Prog(b)[j].op = "add"}}
    \cup {"provision_basedn.ldif"}

(***************************************************************************)
(* When provision() returns true, secrets.ldb, hklm.ldb and sam.ldb hold   *)
(* on disk every record this run set up, and their main files hold nothing *)
(* older: ldb_erase and its unlink fallback, the tolerated base DN add     *)
(* with its corrective modify, and the two commits must together leave the *)
(* store as scenario 1 of the spec describes, whatever earlier runs, kills *)
(* and corruption left behind.                                             *)
(***************************************************************************)
ProvisionedOnSuccess ==
    status = "done" =>
        /\ \A t \in Provisioned(blank) \ {"share.ldif"} :
              [t |-> t, g |-> run] \in durable[Home(t)]
        /\ \A db \in {Secrets, Hklm, Sam} : \A r \in durable[db] : r.g = run

(***************************************************************************)
(* When provision() returns true, a record older than this run survives in *)
(* a naming context only if ldb_erase_partitions issued a message for that *)
(* naming context in this run: stale data is tolerated, never silent.      *)
(***************************************************************************)
StaleOnlyIfReported ==
    status = "done" =>
        \A n \in NCs : \A r \in durable[n] : r.g < run => n \in reported

(***************************************************************************)
(* Spec 4.6/7 and scenarios 3-4: the base DN step is fatal only when both  *)
(* the add and the corrective modify fail.                                 *)
(***************************************************************************)
BaseDnFatalOnlyIfBothFail ==
    (status = "failed" /\ Cur.op = "checkBaseDn") => ~addOk

(***************************************************************************)
(* Spec 4.4: a failed name mapping makes setup_name_mappings report        *)
(* failure, so provision() does not return true after one.                 *)
(***************************************************************************)
MappingsSetOnSuccess ==
    status = "done" => ~mapFailed

(***************************************************************************)
(* Spec 4.6 and scenario 1: when provision() returns true the share        *)
(* configuration store holds its records.                                  *)
(***************************************************************************)
ShareStoreOnSuccess ==
    status = "done" => Holds(durable[Share], "share.ldif")

(***************************************************************************)
(* Spec 4.6: every phase is idempotent given a clean or erased target.  A  *)
(* run fails only through a failure of its own (a failed ldb call, save or *)
(* keytab update): nothing that an earlier failed or killed run, a        *)
(* corrupt file or an older installation left on disk makes a run whose   *)
(* own calls succeed fail an assert.                                       *)
(***************************************************************************)
FailsOnlyOnFault == status = "failed" => faulted

=============================================================================
