\* Every wallet status and one the gateway does not know, on an inbound and on
\* an outbound transaction with the invoice's payment id.
CONSTANTS
    i1 = i1  i2 = i2  t1 = t1  t2 = t2  t3 = t3
    Invoices = {i1}
    Txs = {t1, t2}
    InboundTxs = {t1}
    NoInvoice = NoInvoice
    NoJob = NoJob
    PaymentOf <- OneInvoicePaymentOf
    TxAmount <- MentionTxAmount
    Amount <- MentionAmount
    ExpiresAt <- OneInvoiceExpiresAt
    WebhookConfigured = TRUE
    WalletStatuses <- TransactionStatus
    MaxTime = 0
    MaxChanges = 2
    MaxBuffered = 2
    MaxFaults = 0
    MaxStops = 1
SPECIFICATION Spec
INVARIANTS
    VerdictHasEvidence
\* The gateway waits for events for ever once the bounds are used up.
CHECK_DEADLOCK FALSE
