\* One invoice with two changes ("underpaid" is no other case than "seen"), a
\* merchant that may never accept, and a restart with or without a callback URL.
CONSTANTS
    MaxRows = 2  Admins = {}  URLs = {u}
    MaxAttempts = 2  MaxManual = 0  MaxFaults = 0  MaxRestarts = 1
    NoURL = NoURL
    Invoices = {i}  MaxNews = 2
    Changes = {"seen", "confirmed", "rejected"}
SPECIFICATION GatewayFairSpec
INVARIANTS
    VerdictStands
    InOrderUnlessRetried
PROPERTIES
    EveryRowIsResolved
\* Every bound used up, the gateway waits for events for ever.
CHECK_DEADLOCK FALSE
