------------------------------ MODULE MCWatcher ------------------------------
(***************************************************************************)
(* Small instances of Watcher for TLC, and what the repository says of the *)
(* watcher that the code does not do.                                      *)
(***************************************************************************)
EXTENDS Watcher, FiniteSetsExt, TLC

CONSTANTS i1, i2, t1, t2, t3

\* One invoice of 2: t1 pays it in full, t2 half of it.
OneInvoicePaymentOf == [t \in Txs |-> i1]
OneInvoiceTxAmount == [t \in Txs |-> IF t = t1 THEN 2 ELSE 1]
OneInvoiceAmount == [i \in Invoices |-> 2]
OneInvoiceExpiresAt == [i \in Invoices |-> 0]

\* One invoice of 1 that t1 pays and t2 merely mentions.
MentionTxAmount == [t \in Txs |-> 1]
MentionAmount == [i \in Invoices |-> 1]

\* Two invoices: t1 pays the first, t2 the second, t3 carries a payment id of
\* no invoice; the first invoice expires before the second.
TwoInvoicesPaymentOf == t1 :> i1 @@ t2 :> i2 @@ t3 :> NoInvoice
TwoInvoicesTxAmount == t1 :> 1 @@ t2 :> 2 @@ t3 :> 1
TwoInvoicesAmount == i1 :> 1 @@ i2 :> 1
TwoInvoicesExpiresAt == i1 :> 0 @@ i2 :> 1

----------------------------------------------------------------------------
(* What the repository says and the code does not do                       *)

\* invoice.go, TerminalStatuses: "once an invoice reaches any of these, no
\* later wallet event may change its status again".  A sweep between the read
\* and the UPDATE of handleTransaction refutes it for expired invoices.
TerminalIsFinal ==
    [][\A i \in Invoices : isTerminalStatus(invoices[i].status) =>
         invoices'[i].status = invoices[i].status]_vars

\* What the chain has confirmed for an invoice, each transaction once.
PaidOnChain(i) ==
    MapThenSumSet(LAMBDA t : TxAmount[t],
        {t \in InboundTxs :
            /\ PaymentOf[t] = i
            /\ reported[t] \cap {"MINED_CONFIRMED", "ONE_SIDED_CONFIRMED"} # {}})

\* watcher.go, handleTransaction: "underpayment does NOT confirm".  The second
\* confirming event of one transaction is added to the total like a second
\* payment.
UnderpaymentDoesNotConfirm ==
    \A i \in Invoices :
        invoices[i].status = "confirmed" => PaidOnChain(i) >= Amount[i]
=============================================================================
