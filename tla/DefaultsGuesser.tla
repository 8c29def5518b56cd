-------------------------- MODULE DefaultsGuesser --------------------------
(***************************************************************************)
(* provision_guess (provision.js 629-673) with findnss (35-47), and the    *)
(* preamble of provision() (442-449) that takes the context it returns, or *)
(* one the caller supplies, up to the first store (line 468).              *)
(*                                                                         *)
(* Strings are the values of Str; the code inspects them only for being    *)
(* empty (assert on a string), for their length (valid_netbios_name) and   *)
(* for equality, so a value stands for a string up to letter case, and     *)
(* strupper and strlower leave it unchanged.  The nss lookups are the sets *)
(* of names getpwnam and getgrnam recognise.                               *)
(***************************************************************************)
EXTENDS Naturals, Sequences, SequencesExt

CONSTANTS Str,          \* the string values
          Empty,        \* ""
          StrLen(_),    \* strlen
          Names,        \* the local user and group names
          Unresolved,   \* what findnss leaves when no candidate is known
          None          \* a field not set yet

ASSUME Empty \in Str /\ StrLen(Empty) = 0 /\ \A s \in Str \ {Empty} : StrLen(s) > 0

VARIABLES pwdb,         \* the names nss.getpwnam recognises
          grdb,         \* the names nss.getgrnam recognises
          lp,           \* the smb.conf values provision_guess reads
          ctx,          \* subobj
          gpc,          \* the next findnss call of provision_guess
          status        \* "guessing", "provisioning", "stores" or "failed"

gvars == <<pwdb, grdb, lp, ctx, gpc, status>>

(* The findnss calls of lines 657-662, in order.                          *)
Calls == << [f |-> "ROOT",    db |-> "pw", c |-> <<"root">>],
            [f |-> "NOBODY",  db |-> "pw", c |-> <<"nobody">>],
            [f |-> "NOGROUP", db |-> "gr", c |-> <<"nogroup", "nobody">>],
            [f |-> "WHEEL",   db |-> "gr", c |-> <<"wheel", "root", "staff", "adm">>],
            [f |-> "BACKUP",  db |-> "gr", c |-> <<"backup", "wheel", "root", "staff">>],
            [f |-> "USERS",   db |-> "gr", c |-> <<"users", "guest", "other", "unknown", "usr">>] >>

Roles == {Calls[i].f : i \in DOMAIN Calls}

Fields == {"REALM", "DOMAIN", "HOSTNAME", "NETBIOSNAME", "BASEDN"}

(* A base DN "DC=" + join(",DC=", labels): never the empty string.        *)
BaseDnOf(realm) == [dc |-> realm]

GuessTypeOK ==
    /\ pwdb \subseteq Names /\ grdb \subseteq Names
    /\ lp \in [realm : Str, workgroup : Str, hostname : Str]
    /\ \A f \in Roles : ctx[f] \in Names \cup {Unresolved, None}
    /\ \A f \in Fields \ {"BASEDN"} : ctx[f] \in Str \cup {None}
    /\ ctx["BASEDN"] \in Str \cup {BaseDnOf(r) : r \in Str} \cup {None}
    /\ gpc \in 1..Len(Calls) + 1
    /\ status \in {"guessing", "provisioning", "stores", "failed"}

(* Mutant: the candidate loop starts one past the first candidate.        *)
RECURSIVE FindNssFromSecond(_, _, _)
FindNssFromSecond(known, c, i) ==
    IF i + 1 > Len(c) THEN Unresolved
    ELSE IF c[i + 1] \in known THEN c[i + 1]
    ELSE FindNssFromSecond(known, c, i + 1)

(***************************************************************************)
(* findnss (35-47): for (i = 1; i < arguments.length; i++) return the      *)
(* first candidate nssfn recognises.  Falling out of the loop leaves       *)
(* i = arguments.length, so the assert after it always fails: Unresolved   *)
(* is the fatal outcome.                                                   *)
(***************************************************************************)
RECURSIVE FindNss(_, _, _)
FindNss(known, c, i) ==
    IF i > Len(c) THEN Unresolved
    ELSE IF c[i] \in known THEN c[i]
    ELSE FindNss(known, c, i + 1)

-----------------------------------------------------------------------------

(***************************************************************************)
(* Lines 637-643: REALM, DOMAIN and HOSTNAME from smb.conf and the host    *)
(* name, each asserted to be a non-empty string.                           *)
(***************************************************************************)
GuessLp ==
    /\ status = "guessing" /\ gpc = 1 /\ ctx["REALM"] = None
    /\ ctx' = [ctx EXCEPT !["REALM"] = lp.realm, !["DOMAIN"] = lp.workgroup,
                          !["HOSTNAME"] = lp.hostname]
    /\ status' = IF Empty \in {lp.realm, lp.workgroup, lp.hostname}
                 THEN "failed" ELSE "guessing"
    /\ UNCHANGED <<pwdb, grdb, lp, gpc>>

(* Lines 657-662: the next findnss call; an exhausted list is the assert  *)
(* at line 46.                                                             *)
GuessNss ==
    /\ status = "guessing" /\ ctx["REALM"] # None /\ gpc <= Len(Calls)
    /\ LET call == Calls[gpc]
           r    == FindNss(IF call.db = "pw" THEN pwdb ELSE grdb, call.c, 1)
       IN /\ ctx' = [ctx EXCEPT ![call.f] = r]
          /\ status' = IF r = Unresolved THEN "failed" ELSE "guessing"
    /\ gpc' = gpc + 1
    /\ UNCHANGED <<pwdb, grdb, lp>>

(* Mutant: the return also counts a findnss call.                         *)
GuessReturnCounts ==
    /\ status = "guessing" /\ gpc = Len(Calls) + 1
    /\ ctx' = [ctx EXCEPT !["BASEDN"] = BaseDnOf(ctx["REALM"])]
    /\ status' = "provisioning"
    /\ gpc' = gpc + 1
    /\ UNCHANGED <<pwdb, grdb, lp>>

(* Lines 663-672: DNSDOMAIN and BASEDN from the realm; subobj returned.   *)
GuessReturn ==
    /\ status = "guessing" /\ gpc = Len(Calls) + 1
    /\ ctx' = [ctx EXCEPT !["BASEDN"] = BaseDnOf(ctx["REALM"])]
    /\ status' = "provisioning"
    /\ UNCHANGED <<pwdb, grdb, lp, gpc>>

(* valid_netbios_name (797-801).                                           *)
ValidNetbiosName(s) == StrLen(s) <= 13

(***************************************************************************)
(* provision() lines 442-449: case normalisation, the two NetBIOS asserts, *)
(* NETBIOSNAME from HOSTNAME; the stores are touched from line 468 on.     *)
(***************************************************************************)
Preamble ==
    /\ status = "provisioning"
    /\ ctx' = [ctx EXCEPT !["NETBIOSNAME"] = ctx["HOSTNAME"]]
    /\ status' = IF ValidNetbiosName(ctx["DOMAIN"]) /\ ValidNetbiosName(ctx'["NETBIOSNAME"])
                 THEN "stores" ELSE "failed"
    /\ UNCHANGED <<pwdb, grdb, lp, gpc>>

-----------------------------------------------------------------------------
(* The guessed path: provision_guess, then provision() on its result.     *)
GuessInit ==
    /\ pwdb \in SUBSET Names
    /\ grdb \in SUBSET Names
    /\ lp \in [realm : Str, workgroup : Str, hostname : Str]
    /\ ctx = [f \in Fields \cup Roles |-> None]
    /\ gpc = 1
    /\ status = "guessing"

GuessNext == GuessLp \/ GuessNss \/ GuessReturn \/ Preamble

GuessSpec == GuessInit /\ [][GuessNext]_gvars /\ WF_gvars(GuessNext)

(* The caller-supplied path: provision() on any subobj (spec 2).          *)
SuppliedInit ==
    /\ pwdb = {} /\ grdb = {}
    /\ lp \in [realm : Str, workgroup : Str, hostname : Str]
    /\ ctx \in {[f \in Fields \cup Roles |->
                   CASE f = "BASEDN" -> b
                     [] f \in {"REALM", "DOMAIN", "HOSTNAME"} -> v[f]
                     [] OTHER -> None] :
                  v \in [{"REALM", "DOMAIN", "HOSTNAME"} -> Str], b \in Str}
    /\ gpc = Len(Calls) + 1
    /\ status = "provisioning"

SuppliedSpec == SuppliedInit /\ [][Preamble]_gvars

-----------------------------------------------------------------------------
(* First candidate recognised, the reference of spec 8, via SelectInSeq.  *)
FirstAccepted(known, c) ==
    LET i == SelectInSeq(c, LAMBDA x : x \in known)
    IN IF i = 0 THEN Unresolved ELSE c[i]

(***************************************************************************)
(* Spec 3 and 8: no store is touched unless REALM, DOMAIN, HOSTNAME and    *)
(* BASEDN are all non-empty; provision_guess's asserts and provision()'s   *)
(* preamble together must stop an empty one before line 468.               *)
(***************************************************************************)
ContextNonEmptyAtStores ==
    status = "stores" =>
        \A f \in {"REALM", "DOMAIN", "HOSTNAME", "BASEDN"} : ctx[f] # Empty

(***************************************************************************)
(* Spec 4.5 and 8: every identity provision_guess binds is the first      *)
(* candidate of its findnss list that the lookup recognises, and guessing *)
(* fails at a findnss call exactly when it recognises none of them.        *)
(***************************************************************************)
BindingsAreFirstAccepted ==
    \A i \in 1..gpc - 1 :
        LET call == Calls[i]
            ref  == FirstAccepted(IF call.db = "pw" THEN pwdb ELSE grdb, call.c)
        IN /\ ctx[call.f] = ref
           /\ (ref = Unresolved) => status = "failed"

=============================================================================
