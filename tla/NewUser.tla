------------------------------ MODULE NewUser ------------------------------
(***************************************************************************)
(* newuser (provision.js 714-792) with searchone (678-687) and             *)
(* enable_account (692-708), run against the sam.ldb provision leaves.     *)
(*                                                                         *)
(* A DN is the sequence of its RDNs below the domain DN: <<>> is the       *)
(* domain, <<"Users">> the Users container, <<"Users", n>> user n.  A      *)
(* SCOPE_ONELEVEL search under d returns the children of d, a              *)
(* SCOPE_SUBTREE search d and everything below it.  Every ldb call may     *)
(* fail; fault records that one did in the current call.                   *)
(***************************************************************************)
EXTENDS Naturals, FiniteSets, Sequences, SequencesExt

CONSTANTS Names,        \* user names newuser may be called with
          MaxCalls      \* how many times newuser is called

DomainDn   == << >>
UsersDn    == <<"Users">>
DomUsersDn == <<"Users", "Domain Users">>
UserDn(n)  == <<"Users", n>>

ASSUME "Domain Users" \notin Names

VARIABLES durable,      \* the DNs in sam.ldb on disk
          dmembers,     \* the member values of Domain Users on disk
          view,         \* the DNs the open transaction sees
          vmembers,     \* the member values it sees
          np,           \* where newuser is
          cur,          \* its username argument
          outcome,      \* "none", or how the call ended
          fault,        \* some ldb call of this call failed
          calls         \* calls made so far

nuVars == <<durable, dmembers, view, vmembers, np, cur, outcome, fault, calls>>

Dns == {DomainDn, UsersDn, DomUsersDn} \cup {UserDn(n) : n \in Names}

NewUserTypeOK ==
    /\ durable \subseteq Dns /\ view \subseteq Dns
    /\ dmembers \subseteq Names /\ vmembers \subseteq Names
    /\ np \in {"idle", "connect", "rootdse", "group", "add", "modgroup", "enable", "exit"}
    /\ cur \in Names
    /\ outcome \in {"none", "true", "false", "aborted"}
    /\ fault \in BOOLEAN
    /\ calls \in 0..MaxCalls

(* The records a SCOPE_ONELEVEL search under d finds.                     *)
Children(recs, d) == {x \in recs : x # << >> /\ Front(x) = d}

(* The call ends: returned (a value) or aborted by an assert.             *)
Ends(o, f) == /\ np' = "exit" /\ outcome' = o /\ fault' = f

(* A call may fail: the script aborts, as res.length is read or asserted. *)
SearchFails == Ends("aborted", TRUE)

(* Lines 714-727: connect asserted, then transaction_start.               *)
NUStart ==
    /\ np = "idle" /\ calls < MaxCalls
    /\ \E n \in Names : cur' = n
    /\ np' = "connect" /\ outcome' = "none" /\ fault' = FALSE
    /\ UNCHANGED <<durable, dmembers, view, vmembers, calls>>

NUConnect ==
    /\ np = "connect"
    /\ \/ /\ view' = durable /\ vmembers' = dmembers
          /\ np' = "rootdse" /\ UNCHANGED <<outcome, fault>>
       \/ SearchFails /\ UNCHANGED <<view, vmembers>>
    /\ UNCHANGED <<durable, dmembers, cur, calls>>

(* Lines 730-734: defaultNamingContext from the rootDSE, asserted.        *)
NURootDse ==
    /\ np = "rootdse"
    /\ \/ np' = "group" /\ UNCHANGED <<outcome, fault>>
       \/ SearchFails
    /\ UNCHANGED <<durable, dmembers, view, vmembers, cur, calls>>

(* Lines 735-736 with searchone: exactly one "Domain Users", asserted.    *)
NUFindGroup ==
    /\ np = "group"
    /\ \/ /\ DomUsersDn \in view
          /\ np' = "add" /\ UNCHANGED <<outcome, fault>>
       \/ /\ DomUsersDn \notin view
          /\ Ends("aborted", FALSE)
       \/ SearchFails
    /\ UNCHANGED <<durable, dmembers, view, vmembers, cur, calls>>

(* Lines 770-775: the user add; a failure returns false.                  *)
NUAdd ==
    /\ np = "add"
    /\ \/ /\ UserDn(cur) \notin view
          /\ view' = view \cup {UserDn(cur)}
          /\ np' = "modgroup" /\ UNCHANGED <<outcome, fault>>
       \/ /\ UserDn(cur) \in view
          /\ Ends("false", FALSE) /\ UNCHANGED view
       \/ Ends("false", TRUE) /\ UNCHANGED view
    /\ UNCHANGED <<durable, dmembers, vmembers, cur, calls>>

(* Lines 777-782: add the user to Domain Users; a failure returns false.  *)
NUModGroup ==
    /\ np = "modgroup"
    /\ \/ vmembers' = vmembers \cup {cur} /\ np' = "enable" /\ UNCHANGED <<outcome, fault>>
       \/ Ends("false", TRUE) /\ UNCHANGED vmembers
    /\ UNCHANGED <<durable, dmembers, view, cur, calls>>

(***************************************************************************)
(* Lines 787-791 with enable_account: a SCOPE_ONELEVEL search under the    *)
(* user's DN, res.length == 1 asserted; with one record, the modify of     *)
(* userAccountControl, and on success the commit, whose result is not      *)
(* checked.                                                                 *)
(***************************************************************************)
NUEnable ==
    /\ np = "enable"
    /\ \/ SearchFails /\ UNCHANGED <<durable, dmembers>>
       \/ /\ Cardinality(Children(view, UserDn(cur))) # 1
          /\ Ends("aborted", FALSE) /\ UNCHANGED <<durable, dmembers>>
       \/ /\ Cardinality(Children(view, UserDn(cur))) = 1
          /\ \/ Ends("false", TRUE) /\ UNCHANGED <<durable, dmembers>>
             \/ /\ Ends("true", FALSE)
                /\ \/ durable' = view /\ dmembers' = vmembers
                   \/ UNCHANGED <<durable, dmembers>>
    /\ UNCHANGED <<view, vmembers, cur, calls>>

(* The script exits: an uncommitted transaction is discarded.             *)
NUExit ==
    /\ np = "exit"
    /\ np' = "idle" /\ calls' = calls + 1
    /\ UNCHANGED <<durable, dmembers, view, vmembers, cur, outcome, fault>>

-----------------------------------------------------------------------------
(* Before the first call: sam.ldb as a full provision left it (with some  *)
(* users already added), or as a blank one left it (no Users container).  *)
NUInit ==
    /\ \/ \E old \in SUBSET Names :
             /\ durable = {DomainDn, UsersDn, DomUsersDn} \cup {UserDn(n) : n \in old}
             /\ dmembers = old
       \/ durable = {DomainDn} /\ dmembers = {}
    /\ view = durable /\ vmembers = dmembers
    /\ np = "idle" /\ cur \in Names
    /\ outcome = "none" /\ fault = FALSE /\ calls = 0

NUNext == NUStart \/ NUConnect \/ NURootDse \/ NUFindGroup \/ NUAdd
          \/ NUModGroup \/ NUEnable \/ NUExit

NUSpec == NUInit /\ [][NUNext]_nuVars /\ WF_nuVars(NUNext)

-----------------------------------------------------------------------------
(***************************************************************************)
(* newuser adds a user record (its comment, line 712): a call on a sam.ldb *)
(* with Domain Users and without the user ends without adding it only     *)
(* when some ldb call failed.                                              *)
(***************************************************************************)
NewUserAddsUser ==
    outcome \in {"false", "aborted"} =>
        \/ fault
        \/ DomUsersDn \notin durable
        \/ UserDn(cur) \in durable

=============================================================================
