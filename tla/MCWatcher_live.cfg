\* Liveness under a watcher and a sweep that keep running, streams that break,
\* restarts, and a failed call.
CONSTANTS
    i1 = i1  i2 = i2  t1 = t1  t2 = t2  t3 = t3
    Invoices = {i1}
    Txs = {t1, t2}
    InboundTxs = {t1, t2}
    NoInvoice = NoInvoice
    NoJob = NoJob
    PaymentOf <- OneInvoicePaymentOf
    TxAmount <- OneInvoiceTxAmount
    Amount <- OneInvoiceAmount
    ExpiresAt <- OneInvoiceExpiresAt
    WebhookConfigured = FALSE
    WalletStatuses = {"BROADCAST", "MINED_CONFIRMED"}
    MaxTime = 1
    MaxChanges = 3
    MaxBuffered = 2
    MaxFaults = 1
    MaxStops = 2
SPECIFICATION FairSpec
PROPERTIES
    StaleLeaves
    KnownPaymentIsCounted
\* The gateway waits for events for ever once the bounds are used up.
CHECK_DEADLOCK FALSE
