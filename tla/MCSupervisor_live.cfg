\* Three streams, three reports about two invoices, a query of Reconcile that fails, a
\* wallet that stops answering, a shutdown at any step.
CONSTANTS
    Invoices = {"i1", "i2"}  About <- InTurn
    InitialBackoff = 1  MaxBackoff = 3
    MaxReports = 3  MaxFaults = 1  MaxHangs = 1  MaxStreams = 3
SPECIFICATION FairSpec
INVARIANTS
    TypeOK
    OnlyTheGapIsMissed
    CleanEndDropsNothing
    ErrorIsReported
PROPERTIES
    ReportIsHandled
    StopsWhenCancelled
\* The goroutine returns after a shutdown, and waits once the bounds are used up.
CHECK_DEADLOCK FALSE
