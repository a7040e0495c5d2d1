\* Three requests, so that a retry can follow two that overlapped.
CONSTANTS
    Requests = {r1, r2, r3}  OrderRefs = {o1, o2}
    NoRef = NoRef  NoInvoice = NoInvoice
    MaxInt64 = 2  MaxFaults = 1  MaxRestarts = 1
SPECIFICATION Spec
SYMMETRY Symmetry
INVARIANTS
    TypeOK
    SecondActiveNeedsOverlap
    AnsweredInvoiceIsTheOrders
\* Every request answered and every invoice closed, nothing is left to do.
CHECK_DEADLOCK FALSE
