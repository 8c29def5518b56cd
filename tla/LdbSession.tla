----------------------------- MODULE LdbSession -----------------------------
(***************************************************************************)
(* The directory session helpers of provision.js: open_ldb (240-261),      *)
(* ldb_erase (158-190) with its fallback ldb_delete (143-153),             *)
(* setup_add_ldif (267-283), setup_ldb_modify (328-343) and the commit     *)
(* that setup_ldb and provision issue.                                     *)
(*                                                                         *)
(* A store is a set of files: one main file per database, and for sam.ldb  *)
(* one more file per naming context (the partitions backend keeps each     *)
(* naming context in its own file, which unlinking the main file leaves    *)
(* behind).  durable is what the files hold; view is what the open        *)
(* transaction sees.  A record is the ldif that created it and the run     *)
(* that added it: two records with the same ldif have the same DN.         *)
(*                                                                         *)
(* The ldb library is external: every add, modify, search, commit or       *)
(* reconnect may fail.  An assert that fails, or a property read of an     *)
(* undefined search result, ends the script: status becomes "failed".      *)
(***************************************************************************)
EXTENDS Naturals, FiniteSets

CONSTANTS DBs,           \* the databases provision opens
          Sam,           \* sam.ldb, the only one with naming contexts
          NCs,           \* the naming context files of sam.ldb
          NoDb,          \* "no open connection"
          Ldifs,         \* the setup ldif files, i.e. the DNs they create
          Legacy,        \* a record left by an incompatible earlier version
          MaxGen,        \* the highest run number
          ConnectMayFail \* ldb.connect may also fail on a readable file

ASSUME Sam \in DBs /\ NoDb \notin DBs /\ DBs \cap NCs = {}

VARIABLES durable,       \* [file -> records] on disk
          exists,        \* [db -> BOOLEAN] the main file is present (sys.stat)
          corrupt,       \* [db -> BOOLEAN] ldb.connect fails on the main file
          view,          \* [file -> records] seen by the open transaction
          sess,          \* the open connection, whether a transaction is open,
                         \* and whether it routes to the naming-context files
          lastOk,        \* the value the last add or modify returned
          status,        \* "running", or how the script ended
          faulted        \* a call of this run whose result is checked failed
                         \* by itself, not because of what the store held

sessionVars == <<durable, exists, corrupt, view, sess, lastOk, status, faulted>>

Files == DBs \cup NCs

Rec == [t : Ldifs \cup {Legacy}, g : 0..MaxGen]

FilesOf(db) == IF db = Sam THEN {Sam} \cup NCs ELSE {db}

Statuses == {"running", "done", "failed", "crashed"}

SessionTypeOK ==
    /\ durable \in [Files -> SUBSET Rec]
    /\ view \in [Files -> SUBSET Rec]
    /\ exists \in [DBs -> BOOLEAN]
    /\ corrupt \in [DBs -> BOOLEAN]
    /\ sess \in [db : DBs \cup {NoDb}, txn : BOOLEAN, parts : BOOLEAN]
    /\ lastOk \in BOOLEAN
    /\ status \in Statuses
    /\ faulted \in BOOLEAN

(* True iff the file holds a record with the DN that ldif creates.        *)
Holds(recs, t) == \E r \in recs : r.t = t

(* The connection after a reconnect to the files as they are on disk.  The *)
(* partitions module reads its @PARTITION record (provision_partitions.ldif)*)
(* at connect: only then do records of a naming context go to its file.    *)
Reconnected(db, disk) ==
    /\ view' = disk
    /\ sess' = [db |-> db, txn |-> TRUE,
                parts |-> db = Sam /\ Holds(disk[Sam], "provision_partitions.ldif")]

(***************************************************************************)
(* open_ldb without erase (247-255).  A failed connect unlinks the main    *)
(* file, which also clears the corruption, and connects again; that        *)
(* second connect must succeed (assert).  connect creates a missing file.  *)
(* connect fails on a corrupt file, and on any file if ConnectMayFail.     *)
(***************************************************************************)
OpenLdb(db) ==
    /\ status = "running"
    /\ \/ /\ ~corrupt[db]
          /\ exists' = [exists EXCEPT ![db] = TRUE]
          /\ Reconnected(db, durable)
          /\ UNCHANGED <<durable, corrupt, status, faulted>>
       \/ /\ corrupt[db] \/ ConnectMayFail
          /\ durable' = [durable EXCEPT ![db] = {}]
          /\ corrupt' = [corrupt EXCEPT ![db] = FALSE]
          /\ \/ /\ exists' = [exists EXCEPT ![db] = TRUE]
                /\ Reconnected(db, durable')
                /\ faulted' = (faulted \/ ~corrupt[db])
                /\ UNCHANGED status
             \/ /\ exists' = [exists EXCEPT ![db] = FALSE]
                /\ status' = "failed" /\ faulted' = TRUE
                /\ UNCHANGED <<view, sess>>
    /\ UNCHANGED lastOk

(***************************************************************************)
(* ldb_delete (143-153): unlink the main file while the transaction is     *)
(* open, cancel, close, connect afresh and start a new transaction; the    *)
(* assert on the connect comes after transaction_start.  It is called     *)
(* only after a failed search or delete.                                   *)
(***************************************************************************)
LdbDelete(db) ==
    /\ durable' = [durable EXCEPT ![db] = {}]
    /\ faulted' = TRUE
    /\ \/ /\ exists' = [exists EXCEPT ![db] = TRUE]
          /\ Reconnected(db, durable')
          /\ UNCHANGED status
       \/ /\ exists' = [exists EXCEPT ![db] = FALSE]
          /\ status' = "failed"
          /\ UNCHANGED <<view, sess>>

(* Mutant: ldb_erase trusts its deletes and skips the re-search.          *)
LdbEraseNoRecheck(db) ==
    /\ status = "running"
    /\ sess.db = db /\ sess.txn
    /\ \/ LdbDelete(db)
       \/ \E kept \in SUBSET view[db] :
             /\ view' = [view EXCEPT ![db] = kept]
             /\ UNCHANGED <<durable, exists, sess, status, faulted>>
    /\ UNCHANGED <<corrupt, lastOk>>

(***************************************************************************)
(* ldb_erase (158-190) in the open transaction.  The specials and then     *)
(* every record found are deleted, each ldb.del possibly failing (kept).   *)
(* A failed first search, or records left after the deletes, falls back to *)
(* ldb_delete.  A failed second search is read with res.length: a script   *)
(* error.                                                                  *)
(***************************************************************************)
LdbErase(db) ==
    /\ status = "running"
    /\ sess.db = db /\ sess.txn
    /\ \/ LdbDelete(db)
       \/ \E kept \in SUBSET view[db] :
             \/ /\ status' = "failed" /\ faulted' = TRUE
                /\ UNCHANGED <<durable, exists, view, sess>>
             \/ /\ kept # {}
                /\ LdbDelete(db)
             \/ /\ kept = {}
                /\ view' = [view EXCEPT ![db] = {}]
                /\ UNCHANGED <<durable, exists, sess, status, faulted>>
    /\ UNCHANGED <<corrupt, lastOk>>

(***************************************************************************)
(* setup_add_ldif (267-283): ldb.add of the rendered ldif into file f,     *)
(* recorded as added by run g.  It fails when the DN is already there, or  *)
(* for any other ldb error; unless failok, the failure is an assert.  Only *)
(* a failure on a missing DN is a fault.                                   *)
(***************************************************************************)
AddLdif(t, f, g, failok) ==
    /\ status = "running"
    /\ sess.txn /\ f \in FilesOf(sess.db)
    /\ \/ /\ ~Holds(view[f], t)
          /\ view' = [view EXCEPT ![f] = @ \cup {[t |-> t, g |-> g]}]
          /\ lastOk' = TRUE
          /\ UNCHANGED <<status, faulted>>
       \/ /\ lastOk' = FALSE
          /\ status' = IF failok THEN status ELSE "failed"
          /\ faulted' = (faulted \/ ~Holds(view[f], t))
          /\ UNCHANGED view
    /\ UNCHANGED <<durable, exists, corrupt, sess>>

(***************************************************************************)
(* setup_ldb_modify (328-343): a changetype: modify of the record ldif t   *)
(* created; it replaces its attributes, so the record now belongs to run g.*)
(* It fails when the record is missing or for any other ldb error; the     *)
(* caller decides what a failure means.  Only the latter is a fault.       *)
(***************************************************************************)
ModifyLdif(t, f, g) ==
    /\ status = "running"
    /\ sess.txn /\ f \in FilesOf(sess.db)
    /\ \/ /\ Holds(view[f], t)
          /\ view' = [view EXCEPT ![f] = {r \in @ : r.t # t} \cup {[t |-> t, g |-> g]}]
          /\ lastOk' = TRUE
          /\ UNCHANGED faulted
       \/ /\ lastOk' = FALSE
          /\ faulted' = (faulted \/ Holds(view[f], t))
          /\ UNCHANGED view
    /\ UNCHANGED <<durable, exists, corrupt, sess, status>>

(***************************************************************************)
(* transaction_commit followed by assert(commit_ok) (317-321, 518-522,    *)
(* 538-542, 569-573): every file of the connection gets the view at once.  *)
(***************************************************************************)
Commit ==
    /\ status = "running"
    /\ sess.txn
    /\ \/ /\ durable' = [f \in Files |->
                            IF f \in FilesOf(sess.db) THEN view[f] ELSE durable[f]]
          /\ sess' = [sess EXCEPT !.txn = FALSE]
          /\ UNCHANGED <<status, faulted>>
       \/ /\ status' = "failed" /\ faulted' = TRUE
          /\ UNCHANGED <<durable, sess>>
    /\ UNCHANGED <<exists, corrupt, view, lastOk>>

(* samdb.close() (523).                                                    *)
Close ==
    /\ status = "running"
    /\ sess' = [db |-> NoDb, txn |-> FALSE, parts |-> FALSE]
    /\ UNCHANGED <<durable, exists, corrupt, view, lastOk, status, faulted>>

=============================================================================
