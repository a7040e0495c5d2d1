\* One gateway, started twice, with up to three crashes, signals or outages of
\* the wallet or the database; one request and one probe at a time.
CONSTANTS
    Procs = {p1}
    N = 1  MaxStarts = 2  MaxTroubles = 3
    Launches = {"bare"}
    Flags <- NoFlags
    Env <- JustTheDatabase
    Disk <- NoFiles
SPECIFICATION ProcessFairSpec
PROPERTIES
    HealthyMeansReady
    ProbeEnds
    HandlersEnd
    ShutdownEnds
\* Nothing starts a gateway again once the bound on starts is used up.
CHECK_DEADLOCK FALSE
