\* Two rows, one use of the retry button, a fault and a restart.
CONSTANTS
    MaxRows = 2  Admins = {a}  URLs = {u}
    MaxAttempts = 2  MaxManual = 1  MaxFaults = 1  MaxRestarts = 1
    NoURL = NoURL
SPECIFICATION Spec
INVARIANTS
    TypeOK
    DeliveredIsTrue
    AttemptsCoverSends
    AutomaticAttemptsCapped
    DuplicatesNeedOverlapOrLoss
\* Every bound used up, the gateway waits for events for ever.
CHECK_DEADLOCK FALSE
