# TLA+ models of provision.js

These modules model `src/Samba/source/scripting/libjs/provision.js`. It is the
Samba4 script that provisions a server: it writes `smb.conf` and builds the
ldb stores `share.ldb`, `secrets.ldb`, `hklm.ldb` and `sam.ldb`.

## The system and its parts

The script is single-threaded. It does not run concurrently with anything. Its
hard behaviours come from four sources:

- the external ldb library, whose calls (connect, search, add, modify, del,
  commit) can each fail;
- asserts and reads of undefined results (`res.length` on `undefined`), which
  end the script in the middle of a transaction;
- the process being killed at any point;
- the operator running `provision` again over whatever files the earlier run
  left behind.

| Part | Code | State it changes |
|---|---|---|
| Directory session | `open_ldb` 240-261, `ldb_delete` 143-153, `ldb_erase` 158-190, `setup_add_ldif` 267-283, `setup_ldb_modify` 328-343, `setup_ldb` 304-323 | the files on disk, the open transaction |
| Partition eraser | `ldb_erase_partitions` 195-238 | the naming contexts of sam.ldb, the operator messages |
| Name mappings | `setup_name_mappings` 390-427, `setup_name_mapping` 70-93, `add_foreign` 52-64 | records in the domain naming context |
| Orchestrator | `provision` 433-576 | smb.conf and all four stores, in a fixed order of phases |
| Template engine | `setup_file` 348-364 | one output file (unlink, then save) |
| Defaults | `provision_guess`, `findnss`, `provision_default_paths` | none (they build the subobj) |
| Post-provision | `install_ok`, `provision_dns`, `provision_ldapbase`, `newuser`/`enable_account` | a zone or ldif file; one user record |
| Validation, join | `provision_validate`, `join_domain`, `vampire` | none, or native calls only |

`provision` calls the session helpers once for each store, in this order:

1. `share.ldb`, only if `sys.stat` finds no file;
2. `secrets.ldb`;
3. the keytabs;
4. `hklm.ldb`;
5. `sam.ldb` partitions.

It then reopens `sam.ldb` without erasing and makes these calls, in order:

1. it adds `provision_init`;
2. it calls `ldb_erase_partitions`;
3. it adds the base DN, which is permitted to fail;
4. it modifies the base DN, asserted;
5. it adds the two schema ldifs;
6. it commits, closes and reopens;
7. it adds the display specifiers, templates and data;
8. in full mode only, it adds users and calls `setup_name_mappings`;
9. it adds the index and commits.

## Modules

### `LdbSession`: the directory session helpers

- **Store.** `durable[f]` is the set of records in file `f`. sam.ldb has a main
  file plus one file per naming context. This reflects the partitions backend,
  and `sys.unlink` removes only the main file.
- **Records.** A record is `[t, g]`: the ldif that created it (which fixes its
  DN) and the run that wrote it.
- **Transaction view.** `view` is what the open transaction sees. `sess` is the
  open connection, whether a transaction is open, and `sess.parts`: whether
  the partitions module was loaded at connect. The module reads its
  `@PARTITION` record (`provision_partitions.ldif`) when `ldb.connect` opens
  sam.ldb; only then do records of a naming context reach that context's file.
- **Other state.** `exists` records whether `sys.stat` would find the main file.
  `corrupt` records whether `ldb.connect` on it fails. With the constant
  `ConnectMayFail`, connect may also fail on a sound file, for example when a
  module or the freshly committed schema fails to load.
- **Fault record.** `faulted` is a history variable: it becomes true when a
  call of the current run failed by itself, and not because of what the store
  held. Examples are a failed connect of a sound file, a failed search or
  commit, or an add that fails on a DN that is not there. It never constrains
  a step; `Provision` clears it when a new run starts.
- **Actions.** Each helper is one operator:
  - `OpenLdb` covers both the unlink-and-reconnect path and its assert;
  - `LdbErase` covers both fallbacks to `LdbDelete` and the script error at
    line 185;
  - `AddLdif` fails when the DN is already there, or for any other reason;
  - `Commit` copies the view of every file of the connection to disk.

### `ErasePartitions`: `ldb_erase_partitions`

- **Variables.** `ep` holds the function's locals: the listed naming contexts,
  `j`, `k`, `previous_remaining` and `current_remaining`. `reported` is the
  set of naming contexts that a message was issued for.
- **Steps.**
  - `EPBegin` is the rootDSE read with its two asserts and its silent return.
  - `EPNextNC` is the outer `for j`.
  - `EPRound` is one iteration of the inner `for k`: the search, the deletes
    (any subset may fail), the re-search and the message.
  - `EPEnd` is the return.
- **Atomicity.** One iteration is one step. Nothing inside it is visible to
  another actor before the caller commits.
- **Order.** Naming contexts are processed in a fixed order (`CHOOSE`), as the
  attribute's order is fixed.
- **Use.** The module is checked on its own (`EPSpec`). It is also instantiated
  by `Provision`.

### `Provision`: `provision()` and the runs of it

- **The program.** The body of `provision()`, with `setup_ldb` inlined, is the
  sequence `Prog(blank)`. `pc` indexes it.
- **Actions.** Each kind of entry is one action. It calls the session
  operators and then advances `pc`, unless the step ended the script. The
  actions are `SmbConf`, `SkipIfExists`, `OpenStep`, `EraseStep`, `AddStep`,
  `CommitStep`, `CloseStep`, `Keytab`, the three `ErasePartitions*` actions,
  `AddBaseDn`, `ModifyBaseDn`, `CheckBaseDn`, `NameMappings` and `Return`.
- **The environment.**
  - `Crash` kills a running script.
  - `Restart` starts the next run, up to `MaxRuns`.
  - Both of them discard everything held in memory (`Forget`) and keep the
    disk.
- **Init.** Before the first run:
  - no store exists, except that sam.ldb may be corrupt, or the files in
    `Damaged` may hold `Legacy` records from an incompatible earlier version;
  - `smb.conf` does not exist yet.
- **Name mappings.** `NameMappings` is the asserted base DN search, the
  foreign principal adds of `add_foreign` (`ForeignAdded`: each may fail and
  the error is ignored), and one `setup_name_mapping` per mapping
  (`MappingFound`: its search finds the foreign principal of a foreign SID, or
  the `provision_users.ldif` record of any other SID). The constant `Foreign`
  names the mappings of foreign SIDs; the record of a foreign principal is
  named by its mapping.
- **Home.** `Home(t)` says which file the records of an ldif land in. That
  depends on the DNs in the setup ldif files, which are not in `src/`, so it is
  taken from the spec. `Dest(t)` is the file an add or search actually
  reaches: `Home(t)`, except that without `sess.parts` every DN goes to the
  main file.

### `DefaultsGuesser`: `provision_guess`, `findnss` and the preamble of `provision()`

- **Strings.** A string is a value of `Str`. The code inspects strings only for
  emptiness, length (`valid_netbios_name`) and equality. A value therefore
  stands for a string up to letter case, so `strupper` and `strlower` leave it
  unchanged. `StrLen` gives the lengths.
- **findnss.** `FindNss` is the `for (i = 1; ...)` loop as a RECURSIVE
  operator. `Unresolved` stands for the fall-through, where the assert at
  line 46 always fails.
- **provision_guess.** It is split into three steps:
  - `GuessLp`: lines 637-643, the three asserts;
  - `GuessNss`: the six `findnss` calls of lines 657-662, in the order of
    `Calls`;
  - `GuessReturn`: BASEDN from the realm.
- **Preamble.** `Preamble` is lines 442-449 of `provision()`: the two
  `valid_netbios_name` asserts. Line 468 is the first store access.
- **Two specifications.**
  - `GuessSpec` is `provision_guess` followed by `provision()`.
  - `SuppliedSpec` is `provision()` on a subobj the caller supplies. The spec
    (section 2) allows caller overrides.

### `NewUser`: `newuser`, `searchone` and `enable_account`

- **DNs.** A DN is the sequence of its RDNs below the domain DN. A
  SCOPE_ONELEVEL search returns the children (`Children`).
- **Steps.** There is one step per call of `newuser`, from `NUStart` to
  `NUExit`. Every search, add, modify and connect may fail, and `fault`
  records that one did.
- **Initial store.** It is sam.ldb as a full provision leaves it (some users
  may already exist), or as a blank one leaves it.
- **Exit.** `NUExit` ends the script, discarding any uncommitted transaction.

`MCProvision` gives the ldif names as strings. `MCInstallCheck` extends it;
the `provision` run checks `Provision` inside `InstallCheck`. The cfgs give the databases,
the naming contexts and the name mappings as model values.

### `BaseDn`: the strings derived from the realm

`DefaultsGuesser` treats a string as a model value. `BaseDn` treats the realm
as a sequence of characters, to follow the realm through the conversions
applied to it:
- `Guess` covers lines 637-668: `strupper`, the non-empty assert, `strlower`,
  and `"DC=" + join(",DC=", split(".", DNSDOMAIN))`;
- `ProvisionRdn` covers lines 442 and 448-449;
- `LdapBaseRdn` covers `provision_ldapbase`, lines 613-619, including the
  failed save of its ldif.

`split` is the ejs builtin, which lives in the Samba library and not in this
file. It is taken to be a `strstr` loop that adds the piece before each
separator, then the rest of the string when that is not empty. `Split` is that
loop as a RECURSIVE operator. `SplitRef`, defined by the positions of the
separators, is its reference. `MCBaseDn` enumerates every realm of up to four
characters over `a`, `A` and `.`, so case conversion is exercised too.

### `InstallCheck`: `install_ok` and `provision_dns` after the runs

`install_ok` (lines 12-30) is called by another script, never during a run.
`InstallCheck` extends `Provision` with one variable, `iok`, which holds the
last answer. `InstallOk` may fire whenever no run is in progress:
- no realm (smb.conf not written) gives `noRealm`;
- a failed connect gives `noConnect`;
- a failed search gives `error`, because `res.length` is read from
  `undefined`;
- otherwise the answer is `true` exactly when the Administrator record
  (from `provision_users.ldif`, in the domain naming context) is visible.

A search with no base sees the naming-context files only while the partitions
record is in the main file (`Searchable`). A new run resets `iok`.

`provision_dns` (lines 579-606) is called by the provisioning script right
after `provision()` returned true. `ProvisionDns` fires once per such run and
records its end in `dns`:
- `fault`: a call failed by itself (the connect of a sound file, a search
  read with `res.length`, the save of the zone file);
- `aborted`: an assert failed on what the store held: a corrupt file, no base
  DN record at BASEDN (line 597), or no computer record of the host (the
  `searchone` at 600);
- `written` otherwise.

The host's computer record is taken to be one of the records of
`provision.ldif` (`HostLdif`). The setup ldif files are not in `src/`. The GUID
values and the zone text are not modelled. `MCInstallCheck` reuses the
constants of `MCProvision`. No property is checked of `ProvisionDns`; it is part of the
modelled behaviour that the `provision` run explores.

## Runs

| Run | Cfg | Expect | What it shows |
|---|---|---|---|
| erase_partitions | MCErasePartitions.cfg | pass | `UnconvergedIsReported`: when the function returns, each listed naming context that still holds records has a message. `EraseReturns`: the loop always returns. |
| provision | MCInstallCheck.cfg | pass | Two runs of `provision()` with kills, with `install_ok` called after any end and `provision_dns` after a success. `ProvisionedOnSuccess`: when provision returns true, secrets, hklm and sam hold on disk every record this run set up, and their main files hold nothing older. `StaleOnlyIfReported`: old records survive in a naming context only with a message. `FailsOnlyOnFault`: a run fails only when `faulted` holds. Nothing an earlier failed or killed run, a corrupt file or the legacy installation left on disk makes a run whose own calls succeed fail (spec 4.6, idempotence given an erased target). |
| basedn_fatal | MCBaseDnFatal.cfg | violation | See the base DN finding below. |
| name_mappings | MCMappings.cfg | violation | See the name mappings finding below. |
| share_store | MCShareStore.cfg | violation | See the share.ldb finding below. |
| defaults_guesser | MCDefaultsGuesser.cfg | pass | `BindingsAreFirstAccepted`: each findnss binding is the first candidate the lookup recognises (the `SelectInSeq` reference), and guessing fails at a call exactly when none is recognised. |
| context_supplied | MCContextSupplied.cfg | violation | See the context finding below. |
| newuser_enable | MCNewUser.cfg | violation | See the newuser finding below. |
| reopen_loss | MCReopenLoss.cfg | violation | See the reopen finding below. |
| install_half | MCInstallHalf.cfg | violation | See the install_ok finding below. |
| base_dn | MCBaseDn.cfg | pass | `RdnDcIsFirstLabel`: the RDN_DC that provision() and `provision_ldapbase` recover from BASEDN is the first label. |
| base_dn_empty | MCBaseDnEmpty.cfg | violation | See the BASEDN finding below. |

### Findings

The eight violation runs each found a trace.

- **Base DN (line 509).** The code aborts when the base DN modify fails, even
  though the add succeeded. The spec says only a failure of both is fatal.
- **Name mappings (line 426).** `setup_name_mappings` always returns true, so
  `provision` reports success with failed name mappings. The spec says a
  failure is reported. A mapping fails when its modify fails, and also when
  the ignored `add_foreign` of its SID failed (line 63), so its search finds
  nothing.
- **share.ldb (lines 247 and 477).** `ldb.connect` creates share.ldb before its
  records are committed. After a run that failed or was killed during share
  setup, every later run skips share setup because the file exists. Such a run
  can return true with an empty share.ldb.
- **Context (lines 445 and 799).** `provision()` checks a supplied context only
  with `valid_netbios_name`, which accepts `""`. It never checks REALM,
  HOSTNAME or BASEDN. An empty field therefore reaches the stores. The spec
  says the orchestrator fails fast first. Only `provision_guess`'s asserts
  protect the guessed path.
- **newuser (line 695).** `enable_account` searches SCOPE_ONELEVEL under the
  user's DN. That search returns the user's children, not the user. A freshly
  added user has no children, so the assert at 696 aborts every call that gets
  that far, even when every ldb call succeeded. The user is never committed.
  The `userAccountControl - 2` at line 698 and the unchecked commit at 789 sit
  behind that assert and are never reached.
- **Reopen (lines 250, 493 and 525).** `open_ldb` unlinks the main file after
  any failed connect, not only after a corrupt one. A failed reconnect of
  sam.ldb at 493 or 525 deletes the `@PARTITION` record committed at 491, so
  the partitions module is not loaded on the new connection. Every later
  record goes to the main file. The records already committed to the
  naming-context files (at 518) stay there, unreachable. `provision()` still
  returns true. The spec says a successful provision leaves the partition
  layout and all its records in sam.ldb.
- **install_ok (line 25).** `install_ok` judges an install by a single
  cn=Administrator search. Run 1 succeeds. Run 2 is then killed after the
  partition-layout `setup_ldb` (line 491) committed. That erased the sam.ldb
  main file, which lost `provision_init` and `provision_index`. The naming
  contexts still hold run 1's records, Administrator among them, so
  `install_ok` returns true on the half-rewritten store. It also answers
  false after every blank provision, which creates no users.
- **BASEDN (line 666).** `provision_guess` asserts only that the realm is not
  empty. The realm `.` gives the BASEDN `DC=`, and `a..b` gives
  `DC=a,DC=,DC=b`. Either one becomes the base DN of every record. The spec
  requires a non-empty BASEDN with one component per DNS label. The realms
  found do not depend on how `split` treats a final empty piece.

### Bounds and why they are enough

**ErasePartitions, checked alone:**
- two naming contexts;
- two records;
- the code's own bound of 10 rounds.

This covers every mix of failed searches, partial deletes and equal counts
that stop the loop early.

**Provision:**
- the four databases;
- three naming contexts;
- two name mappings: `m1` of a foreign SID, whose principal `add_foreign`
  creates, and `m2` of a record of `provision_users.ldif`. Each kind of
  mapping has its own way to fail;
- `MaxRuns = 2`. The first run can leave any prefix of its work on disk, and
  the second run must clean it up.

Each run checks only whether a record comes from this run or an earlier one,
so two runs already produce every stale-versus-fresh case. Legacy records can
start in `Damaged`, which is the sam.ldb main file and the domain naming
context. That is enough to exercise both kinds of file, the one the unlink
removes and the one it leaves behind. Records of run 1 reach every file anyway.
`smb.conf` starts absent, and the second run sees the file that the first run
wrote. `ConnectMayFail` is FALSE in the `provision` run, which therefore shows what
holds when connect fails only on corrupt files. It is TRUE in `reopen_loss`,
where one run is enough to reach the loss.

**DefaultsGuesser:**
- three strings: empty, 5 characters and 17 characters (beyond NetBIOS's 13);
- four names, `nobody`, `root`, `staff` and `usr`, each of which getpwnam or
  getgrnam may or may not recognise.

Every call then can resolve at its first candidate, at a later one, or not at
all:
- `nobody` is the second candidate for NOGROUP;
- `root` and `staff` are fallbacks for WHEEL and BACKUP;
- `usr` is the last candidate for USERS.

**BaseDn:** every realm of up to four characters over `a`, `A` and `.`,
121 realms in all. These include every position of an empty label (leading,
doubled, trailing) and labels of both cases.

**InstallCheck:** the bounds of the `provision` run. The
half-rewritten store needs a second run killed over a first that succeeded.

**NewUser:** two names and two calls. That covers a second call for a user the
first call added.

### Fairness

The one liveness property is `EraseReturns`, checked in the
`erase_partitions` run under weak fairness on the next-state relation of
`ErasePartitions`: a running script keeps executing its own steps. The
specifications of `Provision` (`WF_vars(Step)`, `InstallStep` in
InstallCheck), `DefaultsGuesser` and `NewUser` carry the same fairness on the
program's own steps only. `Crash` and `Restart` have no fairness, because a kill or a
re-run is never guaranteed. All runs set `CHECK_DEADLOCK FALSE`: after the
last run returns, fails or is killed, nothing is left to do, and that is the
intended final state.

## Not modelled

- **Text.** `substitute_var`, the ldif contents and all message text are left
  out. The records are abstracted to which ldif wrote them and in which run.
- **subobj.** Outside `BaseDn`, only the emptiness and length of its strings
  are modelled. `BaseDn` leaves out realms that contain a comma. The random
  identifiers and passwords are not modelled.
- **Helpers not modelled.** `provision_default_paths` only joins path strings.
  `provision_validate` compares strings against smb.conf and reads a
  NETBIOSNAME that only a caller outside this file sets.
- **The "specials".** The `@INDEXLIST` and related records that `ldb_erase`
  deletes are not modelled.
- **Native calls.** `join_domain` and `vampire` only wrap native calls.
- **Formatters.** `nttime`, `ldaptime`, `datestring`, `hostip` and `hostname`
  only format system values.
- **Not called.** `setup_modify_ldif` is never called.

## Plan

Open directions:

1. **Abstract provisioning spec.** The spec promises only the successful
   outcome: the operator-facing contract leaves a failed run's stores "in a
   deliberately unfinished state". An abstract `ProvisionAbstract` that lets a
   failed or killed run leave any state would restate `ProvisionedOnSuccess`
   as a refinement, so it has not been written.
2. **provision_validate.** It could be modelled once the caller that sets
   NETBIOSNAME before calling it is part of the repository.
