-------------------------- MODULE ErasePartitions --------------------------
(***************************************************************************)
(* ldb_erase_partitions (provision.js 195-238): the bounded retry loop     *)
(* that empties every naming context listed in the rootDSE of the open     *)
(* sam.ldb transaction.                                                     *)
(*                                                                         *)
(* The store is external: every search may return undefined, and every     *)
(* ldb.del may fail, so deleting the records found leaves any subset of    *)
(* them behind.  One loop iteration (search, deletes, re-search, message)  *)
(* is one step: nothing here is durable until the caller commits, so no    *)
(* other actor can observe the inside of an iteration.                     *)
(***************************************************************************)
EXTENDS Naturals, FiniteSets

CONSTANTS NCs,        \* the naming contexts a partitions record lists
          NoNC,       \* "no naming context being erased"
          Recs,       \* records a naming context may hold (for EPInit)
          MaxRounds   \* the loop bound, "k < 10" in the code

ASSUME NoNC \notin NCs /\ MaxRounds \in Nat \ {0}

VARIABLES view,       \* [file -> set of records] seen by the open transaction
          ep,         \* the locals of ldb_erase_partitions
          reported    \* naming contexts some info.message was issued for

EPStates == {"idle", "running", "done", "aborted"}

EPTypeOK ==
    /\ ep \in [state : EPStates, listed : SUBSET NCs, todo : SUBSET NCs,
               nc : NCs \cup {NoNC}, k : 0..MaxRounds,
               prev : Nat, cur : Nat]
    /\ ep.todo \subseteq ep.listed
    /\ reported \subseteq NCs

EPIdle == [state |-> "idle", listed |-> {}, todo |-> {}, nc |-> NoNC,
           k |-> 0, prev |-> 1, cur |-> 0]

(* Mutant: the loop bound off by one ("k <= 10").                          *)
RoundEnabledOffByOne ==
    /\ ep.nc # NoNC
    /\ ep.k <= MaxRounds
    /\ ep.prev # ep.cur

(* The for (k=0; k < 10 && previous_remaining != current_remaining; k++)  *)
(* condition, for the naming context being erased.                       *)
RoundEnabled ==
    /\ ep.nc # NoNC
    /\ ep.k < MaxRounds
    /\ ep.prev # ep.cur

(***************************************************************************)
(* Lines 197-207: read namingContexts from the rootDSE.  The two asserts   *)
(* abort the script when the search fails; an absent attribute returns at  *)
(* once, erasing nothing.  hasNCs says whether the partitions record that  *)
(* makes the rootDSE list naming contexts is present.                     *)
(***************************************************************************)
EPBegin(hasNCs) ==
    /\ ep.state = "idle"
    /\ \/ ep' = [ep EXCEPT !.state = "aborted"]
       \/ /\ ~hasNCs
          /\ ep' = [ep EXCEPT !.state = "done"]
       \/ /\ hasNCs
          /\ ep' = [ep EXCEPT !.state = "running", !.listed = NCs, !.todo = NCs]
    /\ UNCHANGED <<view, reported>>

(* Mutant: the outer loop never advances j past a naming context.         *)
EPNextNCNoAdvance ==
    /\ ep.state = "running"
    /\ ~RoundEnabled
    /\ \E n \in ep.listed :
          ep' = [ep EXCEPT !.nc = n, !.k = 0, !.prev = 1, !.cur = 0]
    /\ UNCHANGED <<view, reported>>

(* Lines 207-213: the next j, in the fixed order of the attribute, with    *)
(* previous_remaining = 1 and current_remaining = 0 so that the inner     *)
(* loop runs at least once.                                                *)
EPNextNC ==
    /\ ep.state = "running"
    /\ ~RoundEnabled
    /\ ep.todo # {}
    /\ LET n == CHOOSE c \in ep.todo : TRUE IN
          ep' = [ep EXCEPT !.todo = @ \ {n}, !.nc = n, !.k = 0,
                           !.prev = 1, !.cur = 0]
    /\ UNCHANGED <<view, reported>>

(* Mutant: a re-search that still finds records goes unreported.          *)
EPRoundSilent ==
    /\ ep.state = "running"
    /\ RoundEnabled
    /\ LET found == view[ep.nc] IN
       \/ /\ ep' = [ep EXCEPT !.k = @ + 1]
          /\ reported' = reported \cup {ep.nc}
          /\ UNCHANGED view
       \/ \E kept \in SUBSET found :
             /\ view' = [view EXCEPT ![ep.nc] = kept]
             /\ ep' = [ep EXCEPT !.k = @ + 1, !.prev = ep.cur,
                                 !.cur = Cardinality(found)]
             /\ \/ reported' = reported \cup {ep.nc}
                \/ UNCHANGED reported

(***************************************************************************)
(* Lines 214-236, one iteration for basedn = ep.nc.  A failed first search *)
(* reports and continues (k++ only).  Otherwise the counts shift, the      *)
(* records found are deleted (those in kept survive), and the re-search    *)
(* reports when it fails or still finds records.                           *)
(***************************************************************************)
EPRound ==
    /\ ep.state = "running"
    /\ RoundEnabled
    /\ LET found == view[ep.nc] IN
       \/ /\ ep' = [ep EXCEPT !.k = @ + 1]
          /\ reported' = reported \cup {ep.nc}
          /\ UNCHANGED view
       \/ \E kept \in SUBSET found :
             /\ view' = [view EXCEPT ![ep.nc] = kept]
             /\ ep' = [ep EXCEPT !.k = @ + 1, !.prev = ep.cur,
                                 !.cur = Cardinality(found)]
             /\ \/ reported' = reported \cup {ep.nc}    \* res3 undefined
                \/ /\ kept # {}                          \* res3.length != 0
                   /\ reported' = reported \cup {ep.nc}
                \/ /\ kept = {}                          \* all gone
                   /\ UNCHANGED reported

(* Line 237: every listed naming context has been through its loop.       *)
EPEnd ==
    /\ ep.state = "running"
    /\ ~RoundEnabled
    /\ ep.todo = {}
    /\ ep' = [ep EXCEPT !.state = "done", !.nc = NoNC]
    /\ UNCHANGED <<view, reported>>

EPStep == EPNextNC \/ EPRound \/ EPEnd

-----------------------------------------------------------------------------
(* The function on its own: any contents, any rootDSE.                    *)

epVars == <<view, ep, reported>>

EPInit ==
    /\ view \in [NCs -> SUBSET Recs]
    /\ ep = EPIdle
    /\ reported = {}

EPNext == (\E h \in BOOLEAN : EPBegin(h)) \/ EPStep

EPSpec == EPInit /\ [][EPNext]_epVars /\ WF_epVars(EPNext)

-----------------------------------------------------------------------------
(* When the function returns, every listed naming context that still      *)
(* holds records has had a message issued for it: the loop may stop on    *)
(* equal counts or on k = 10 with records left, but never silently (spec  *)
(* 4.3, "non-convergence is reported").                                    *)
UnconvergedIsReported ==
    ep.state = "done" =>
        \A n \in ep.listed : view[n] # {} => n \in reported

(* The loop always returns: failing searches, failing deletes and equal   *)
(* counts all still advance k, so the bound of 10 rounds ends it.         *)
EraseReturns == (ep.state = "running") ~> (ep.state = "done")

=============================================================================
