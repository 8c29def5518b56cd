CONSTANTS
    NCs = {domainNC, schemaNC}
    NoNC = NoNC
    Recs = {r1, r2}
    MaxRounds = 10
SPECIFICATION EPSpec
\* the function returns: done and aborted are final states
CHECK_DEADLOCK FALSE
INVARIANTS MCTypeOK UnconvergedIsReported
PROPERTIES EraseReturns
