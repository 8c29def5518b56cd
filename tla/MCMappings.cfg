CONSTANTS
    Share = Share
    Secrets = Secrets
    Hklm = Hklm
    Sam = Sam
    DBs = {Share, Secrets, Hklm, Sam}
    DomainNC = DomainNC
    ConfigNC = ConfigNC
    SchemaNC = SchemaNC
    NCs = {DomainNC, ConfigNC, SchemaNC}
    NoDb = NoDb
    NoNC = NoNC
    Legacy = Legacy
    Ldifs <- MCLdifs
    Mappings = {m1, m2}
    Foreign = {m1}
    Damaged = {Sam, DomainNC}
    ConnectMayFail = FALSE
    MaxRuns = 1
    MaxGen = 1
SPECIFICATION Spec
\* the script exits after the last run: returned, failed or killed
CHECK_DEADLOCK FALSE
INVARIANTS MappingsSetOnSuccess
