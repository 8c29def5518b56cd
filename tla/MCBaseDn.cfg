CONSTANTS
    Chars = {"a", "A", "."}
    CaseMap <- MCCaseMap
    MaxLen = 4
SPECIFICATION BSpec
\* provision_guess, provision() and provision_ldapbase return: nothing follows
CHECK_DEADLOCK FALSE
INVARIANTS TypeOK RdnDcIsFirstLabel
