------------------------------- MODULE BaseDn -------------------------------
(***************************************************************************)
(* The string derivations from the realm: provision_guess's DNSDOMAIN and  *)
(* BASEDN (provision.js 637, 641, 663, 667-668), provision()'s REALM and   *)
(* RDN_DC (442, 448-449) and provision_ldapbase's RDN_DC (613-616).        *)
(* A string is a sequence of one-character strings.  The other fields of   *)
(* the context, and the asserts on them, are those of DefaultsGuesser.    *)
(*                                                                         *)
(* split(sep, s) is the ejs builtin: a strstr loop that adds the piece     *)
(* before each separator, then the rest of the string if it is not empty.  *)
(* join(sep, list) puts sep between the elements.                          *)
(***************************************************************************)
EXTENDS Naturals, Sequences, SequencesExt

CONSTANTS Chars,        \* the characters a realm may contain
          CaseMap,      \* [lower-case letter -> its upper case]
          MaxLen        \* the longest realm considered

ASSUME "." \in Chars /\ "," \notin Chars

VARIABLES lpRealm,      \* lp.get("realm")
          subobj,       \* REALM, DNSDOMAIN, BASEDN and RDN_DC of the context
          stage         \* "guess", "guessed", "provision", "ldapbase" or "failed"

bvars == <<lpRealm, subobj, stage>>

Str(n) == BoundedSeq(Chars, n)

DC == <<"D", "C", "=">>

StrUpper(s) == [i \in DOMAIN s |-> IF s[i] \in DOMAIN CaseMap THEN CaseMap[s[i]] ELSE s[i]]

StrLower(s) ==
    [i \in DOMAIN s |-> IF \E c \in DOMAIN CaseMap : CaseMap[c] = s[i]
                        THEN CHOOSE c \in DOMAIN CaseMap : CaseMap[c] = s[i]
                        ELSE s[i]]

(* split, for a one-character separator (line 667, 448, 613).             *)
RECURSIVE Split(_, _)
Split(sep, s) ==
    LET p == SelectInSeq(s, LAMBDA c : c = sep)
    IN IF p = 0 THEN IF s = << >> THEN << >> ELSE << s >>
       ELSE << SubSeq(s, 1, p - 1) >> \o Split(sep, SubSeq(s, p + 1, Len(s)))

Join(sep, l) ==
    IF l = << >> THEN << >>
    ELSE FlattenSeq([i \in 1..2 * Len(l) - 1 |->
                       IF i % 2 = 1 THEN l[(i + 1) \div 2] ELSE sep])

(* substr(s, start): the characters from 0-based index start on.          *)
Substr(s, start) == SubSeq(s, start + 1, Len(s))

(* Mutant: RDN_DC skips one character too few.                            *)
RdnDcShort(basedn) == Substr(Split(",", basedn)[1], Len(DC) - 1)

(* Mutant: RDN_DC from the last component instead of the first.          *)
RdnDcLast(basedn) == Substr(Last(Split(",", basedn)), Len(DC))

(* substr(rdns[0], strlen("DC=")) with rdns = split(",", BASEDN).         *)
RdnDc(basedn) == Substr(Split(",", basedn)[1], Len(DC))

TypeOK ==
    /\ lpRealm \in Str(MaxLen)
    /\ subobj.REALM \in Str(MaxLen) /\ subobj.DNSDOMAIN \in Str(MaxLen)
    /\ subobj.RDN_DC \in Str(MaxLen)
    /\ stage \in {"guess", "guessed", "provision", "ldapbase", "failed"}

(***************************************************************************)
(* provision_guess: REALM = strupper(realm), asserted non-empty; then      *)
(* DNSDOMAIN = strlower(REALM) and BASEDN = "DC=" + join(",DC=",            *)
(* split(".", DNSDOMAIN)).                                                  *)
(***************************************************************************)
Guess ==
    /\ stage = "guess"
    /\ LET realm == StrUpper(lpRealm)
           dns   == StrLower(realm)
       IN IF realm = << >>
          THEN stage' = "failed" /\ UNCHANGED subobj
          ELSE /\ subobj' = [subobj EXCEPT !.REALM = realm, !.DNSDOMAIN = dns,
                                 !.BASEDN = DC \o Join(<<",">> \o DC, Split(".", dns))]
               /\ stage' = "guessed"
    /\ UNCHANGED lpRealm

(* provision(): REALM upper-cased again, RDN_DC from BASEDN (442, 448-449). *)
ProvisionRdn ==
    /\ stage = "guessed"
    /\ subobj' = [subobj EXCEPT !.REALM = StrUpper(@), !.RDN_DC = RdnDc(subobj.BASEDN)]
    /\ stage' = "provision"
    /\ UNCHANGED lpRealm

(* provision_ldapbase (610-623): RDN_DC from BASEDN, then setup_file of   *)
(* the base DN ldif that holds it; a failed save is an assert.             *)
LdapBaseRdn ==
    /\ stage = "guessed"
    /\ subobj' = [subobj EXCEPT !.RDN_DC = RdnDc(subobj.BASEDN)]
    /\ stage' \in {"ldapbase", "failed"}
    /\ UNCHANGED lpRealm

BInit ==
    /\ lpRealm \in Str(MaxLen)
    /\ subobj = [REALM |-> << >>, DNSDOMAIN |-> << >>, BASEDN |-> << >>, RDN_DC |-> << >>]
    /\ stage = "guess"

BNext == Guess \/ ProvisionRdn \/ LdapBaseRdn

BSpec == BInit /\ [][BNext]_bvars

-----------------------------------------------------------------------------
(* The pieces of s between separators, by their positions; a final empty  *)
(* piece is not one.  The reference for Split.                            *)
SplitRef(sep, s) ==
    LET cuts   == << 0 >> \o SelectSeq([i \in 1..Len(s) |-> i], LAMBDA i : s[i] = sep)
                          \o << Len(s) + 1 >>
        pieces == [j \in 1..Len(cuts) - 1 |-> SubSeq(s, cuts[j] + 1, cuts[j + 1] - 1)]
    IN IF pieces[Len(pieces)] = << >> THEN Front(pieces) ELSE pieces

(***************************************************************************)
(* RDN_DC, which provision() and provision_ldapbase recover from BASEDN by *)
(* splitting at "," and dropping "DC=", is the first label of the DNS      *)
(* domain: the round trip through join and split loses nothing.            *)
(***************************************************************************)
RdnDcIsFirstLabel ==
    stage \in {"provision", "ldapbase"} =>
        subobj.RDN_DC = SplitRef(".", subobj.DNSDOMAIN)[1]

(***************************************************************************)
(* Spec 2: BASEDN is a distinguished name with one DC= component per DNS   *)
(* label.  No component is empty once provision_guess has returned.        *)
(***************************************************************************)
BaseDnComponentsNonEmpty ==
    stage \in {"guessed", "provision", "ldapbase"} =>
        \A i \in DOMAIN Split(",", subobj.BASEDN) :
            Len(Split(",", subobj.BASEDN)[i]) > Len(DC)

=============================================================================
