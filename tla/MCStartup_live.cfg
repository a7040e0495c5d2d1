\* Two gateways on three migrations, started up to three times in all, with up
\* to two crashes, signals or outages.
CONSTANTS
    Procs = {p1, p2}
    N = 3  MaxStarts = 3  MaxTroubles = 2
    Launches = {"bare", "layered", "no-dsn", "bad-file", "bad-number", "no-secret"}
    Flags <- MCFlags
    Env <- MCEnv
    Disk <- MCDisk
SPECIFICATION FairSpec
INVARIANTS
    TypeOK
    SchemaIsRecorded
    SchemaIsPrefix
    ServesFullSchema
    ServesAsConfigured
PROPERTIES
    SomeoneServes
\* Nothing starts a gateway again once the bound on starts is used up.
CHECK_DEADLOCK FALSE
