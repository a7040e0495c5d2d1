\* Two invoices whose payments interleave, and a payment to neither.
CONSTANTS
    i1 = i1  i2 = i2  t1 = t1  t2 = t2  t3 = t3
    Invoices = {i1, i2}
    Txs = {t1, t2, t3}
    InboundTxs = {t1, t2, t3}
    NoInvoice = NoInvoice
    NoJob = NoJob
    PaymentOf <- TwoInvoicesPaymentOf
    TxAmount <- TwoInvoicesTxAmount
    Amount <- TwoInvoicesAmount
    ExpiresAt <- TwoInvoicesExpiresAt
    WebhookConfigured = TRUE
    WalletStatuses = {"BROADCAST", "MINED_CONFIRMED", "REJECTED"}
    MaxTime = 2
    MaxChanges = 3
    MaxBuffered = 2
    MaxFaults = 1
    MaxStops = 1
SPECIFICATION Spec
INVARIANTS
    VerdictHasEvidence
PROPERTIES
    ImplementsLifecycle
\* The gateway waits for events for ever once the bounds are used up.
CHECK_DEADLOCK FALSE
