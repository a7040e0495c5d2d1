\* No fault and no restart: the TTL sweep against an event in progress.
CONSTANTS
    i1 = i1  i2 = i2  t1 = t1  t2 = t2  t3 = t3
    Invoices = {i1}
    Txs = {t1, t2}
    InboundTxs = {t1, t2}
    NoInvoice = NoInvoice
    NoJob = NoJob
    PaymentOf <- OneInvoicePaymentOf
    TxAmount <- OneInvoiceTxAmount
    Amount <- OneInvoiceAmount
    ExpiresAt <- OneInvoiceExpiresAt
    WebhookConfigured = TRUE
    WalletStatuses = {"BROADCAST", "MINED_CONFIRMED", "REJECTED"}
    MaxTime = 1
    MaxChanges = 4
    MaxBuffered = 2
    MaxFaults = 0
    MaxStops = 0
SPECIFICATION Spec
PROPERTY TerminalIsFinal
\* The gateway waits for events for ever once the bounds are used up.
CHECK_DEADLOCK FALSE
