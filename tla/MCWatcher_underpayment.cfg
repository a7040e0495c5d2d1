\* No fault and no restart: one partial payment, announced twice.
CONSTANTS
    i1 = i1  i2 = i2  t1 = t1  t2 = t2  t3 = t3
    Invoices = {i1}
    Txs = {t2}
    InboundTxs = {t2}
    NoInvoice = NoInvoice
    NoJob = NoJob
    PaymentOf <- OneInvoicePaymentOf
    TxAmount <- OneInvoiceTxAmount
    Amount <- OneInvoiceAmount
    ExpiresAt <- OneInvoiceExpiresAt
    WebhookConfigured = TRUE
    WalletStatuses = {"MINED_CONFIRMED", "ONE_SIDED_CONFIRMED"}
    MaxTime = 1
    MaxChanges = 4
    MaxBuffered = 2
    MaxFaults = 0
    MaxStops = 0
SPECIFICATION Spec
INVARIANT UnderpaymentDoesNotConfirm
\* The gateway waits for events for ever once the bounds are used up.
CHECK_DEADLOCK FALSE
