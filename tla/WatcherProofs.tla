----------------------------- MODULE WatcherProofs -----------------------------
(***************************************************************************)
(* Theorems about Watcher, for every set of invoices and transactions,     *)
(* every amount, every expiry and every bound.                             *)
(***************************************************************************)
EXTENDS Watcher, SequenceTheorems, TLAPS

\* Whatever the text, mapStatus answers with one of three statuses and its
\* webhook event; the case of the switch it took does not matter here.
LEMMA VerdictType ==
    ASSUME NEW s
    PROVE  /\ Verdict(s).status \in {"confirmed", "seen", "rejected"}
           /\ Verdict(s).status \in Status
           /\ Verdict(s).event \in Event
  BY DEF Verdict, mapStatus, Status, Event

----------------------------------------------------------------------------
(* Type correctness                                                        *)

\* The empty tables and the idle goroutine have their types.
LEMMA TypeInit == Init => TypeOK
<1> SUFFICES ASSUME Init PROVE TypeOK
  OBVIOUS
<1>1. invoices \in [Invoices -> Invoice]
  BY DEF Init, NewInvoice, Invoice, Status
<1>2. /\ notices \in [Invoices -> Seq(Payload)]
      /\ stream \in Seq(WalletEvent)
  BY DEF Init
<1>3. /\ chain \in [Txs -> WalletStatuses \cup {Unknown}]
      /\ reported \in [Txs -> SUBSET WalletStatuses]
      /\ counted \in [Txs -> Nat]
  BY DEF Init
<1> QED
  BY <1>1, <1>2, <1>3 DEF Init, TypeOK

\* A job entered with a well-typed event is well typed.
LEMMA BeginType ==
    ASSUME NEW e \in WalletEvent, Begin(e)
    PROVE  step' = "lookup" /\ job' \in Job
  BY DEF Begin, WalletEvent, Job, Status, Event

\* Every step of every action keeps the types.
LEMMA TypeNext == TypeOK /\ [Next]_vars => TypeOK'
<1> SUFFICES ASSUME TypeOK, [Next]_vars
             PROVE  TypeOK'
  OBVIOUS
<1> USE DEF database, wallet, supervisor
<1>1. CASE LookupSkips
  BY <1>1 DEF LookupSkips, Return, TypeOK, theInvoice
<1>2. CASE LookupFails
  BY <1>2 DEF LookupFails, Return, Fail, TypeOK, theInvoice
<1>3. CASE LookupFinds
  <2>1. theInvoice \in Invoices /\ step = "lookup" /\ job \in Job
    BY <1>3 DEF LookupFinds, TypeOK
  <2>2. invoices[theInvoice] \in Invoice
    BY <2>1 DEF TypeOK
  <2>3. job' = [job EXCEPT !.prev = invoices[theInvoice].status,
                           !.total = invoices[theInvoice].received,
                           !.new = Verdict(job.says).status,
                           !.event = Verdict(job.says).event]
    BY <1>3 DEF LookupFinds
  <2>4. job' \in Job /\ job'.paymentID = job.paymentID
    BY <2>1, <2>2, <2>3, VerdictType DEF Job, Invoice
  <2>5. step' \in {"add", "write"}
    BY <1>3 DEF LookupFinds
  <2> QED
    BY <1>3, <2>1, <2>4, <2>5 DEF LookupFinds, TypeOK, theInvoice
<1>4. ASSUME step = "add"
      PROVE  /\ theInvoice \in Invoices /\ job \in Job
             /\ TxAmount[job.tx] \in Nat
             /\ invoices[theInvoice] \in Invoice
             /\ invoices[theInvoice].received + TxAmount[job.tx] \in Nat
             /\ AddToTotal => /\ invoices' \in [Invoices -> Invoice]
                              /\ counted' \in [Txs -> Nat]
  <2>1. theInvoice \in Invoices /\ job \in Job
    BY <1>4 DEF TypeOK
  <2>2. job.tx \in Txs /\ TxAmount[job.tx] \in Nat
    BY <2>1, WalletAssumption DEF Job
  <2>3. invoices[theInvoice] \in Invoice
    BY <2>1 DEF TypeOK
  <2>4. invoices[theInvoice].received + TxAmount[job.tx] \in Nat
    BY <2>2, <2>3 DEF Invoice
  <2>5. AddToTotal => invoices' \in [Invoices -> Invoice]
    <3> DEFINE row == [invoices[theInvoice] EXCEPT !.received =
                         invoices[theInvoice].received + TxAmount[job.tx]]
    <3>1. row \in Invoice
      BY <2>3, <2>4 DEF Invoice
    <3>2. AddToTotal => invoices' = [invoices EXCEPT ![theInvoice] = row]
      BY DEF AddToTotal
    <3> HIDE DEF row
    <3> QED
      BY <2>1, <3>1, <3>2 DEF TypeOK
  <2>6. AddToTotal => counted' \in [Txs -> Nat]
    BY <2>2 DEF AddToTotal, TypeOK
  <2> QED
    BY <2>1, <2>2, <2>3, <2>4, <2>5, <2>6
<1>5. CASE AddReceivedAmount
  <2> DEFINE total == invoices[theInvoice].received + TxAmount[job.tx]
  <2>1. step = "add" /\ total \in Nat /\ job \in Job /\ now \in Nat
    BY <1>4, <1>5 DEF AddReceivedAmount, TypeOK
  <2>2. job' = Decide(total)
    BY <1>5 DEF AddReceivedAmount
  <2>3. job' \in Job /\ job'.paymentID = job.paymentID
    <3>1. CASE total < Amount[theInvoice]
      BY <2>1, <2>2, <3>1 DEF Decide, Job, Status, Event
    <3>2. CASE ~(total < Amount[theInvoice]) /\ now > ExpiresAt[theInvoice]
      BY <2>1, <2>2, <3>2 DEF Decide, Job, Status, Event
    <3>3. CASE ~(total < Amount[theInvoice]) /\ ~(now > ExpiresAt[theInvoice])
      BY <2>1, <2>2, <3>3 DEF Decide, Job
    <3> QED
      BY <3>1, <3>2, <3>3
  <2> QED
    BY <1>4, <1>5, <2>1, <2>3 DEF AddReceivedAmount, TypeOK, theInvoice
<1>6. CASE AddReceivedAmountFails
  BY <1>4, <1>6 DEF AddReceivedAmountFails, Return, Fail, TypeOK, theInvoice
<1>7. ASSUME step = "write", NEW s \in Status, NEW c \in BOOLEAN,
             updateStatus(theInvoice, s, c)
      PROVE  invoices' \in [Invoices -> Invoice]
  BY <1>7 DEF updateStatus, TypeOK, Invoice
<1>8. step = "write" => /\ job \in Job /\ theInvoice \in Invoices
                        /\ job.new \in Status /\ job.confirmed \in BOOLEAN
  BY DEF TypeOK, Job
<1>9. CASE ExpireLatePayment
  BY <1>7, <1>8, <1>9 DEF ExpireLatePayment, Return, TypeOK, theInvoice, Status
<1>10. CASE RewriteStatus
  BY <1>7, <1>8, <1>10 DEF RewriteStatus, Return, TypeOK, theInvoice
<1>11. CASE UpdateWithoutWebhook
  BY <1>7, <1>8, <1>11
     DEF UpdateWithoutWebhook, Transition, Return, TypeOK, theInvoice
<1>12. CASE updateStatusAndCreateDelivery
  <2>1. step = "write"
    BY <1>12 DEF updateStatusAndCreateDelivery, Transition
  <2>2. invoices' \in [Invoices -> Invoice]
    BY <1>7, <1>8, <1>12, <2>1 DEF updateStatusAndCreateDelivery
  <2>3. [status |-> job.new, event |-> job.event, received |-> job.total]
          \in Payload
    BY <1>8, <2>1 DEF Job, Payload
  <2>4. notices' \in [Invoices -> Seq(Payload)]
    BY <1>8, <1>12, <2>1, <2>3 DEF updateStatusAndCreateDelivery, TypeOK
  <2> QED
    BY <1>12, <2>2, <2>4 DEF updateStatusAndCreateDelivery, Return, TypeOK,
                             theInvoice
<1>13. CASE WriteFails
  BY <1>13 DEF WriteFails, Return, Fail, TypeOK, theInvoice
<1>14. CASE ListNonTerminal
  BY <1>14 DEF ListNonTerminal, TypeOK, theInvoice
<1>15. CASE ListNonTerminalFails
  BY <1>15 DEF ListNonTerminalFails, Fail, TypeOK, theInvoice
<1>16. ASSUME NEW i \in Invoices, GetCompletedByPaymentID(i)
       PROVE  TypeOK'
  <2>1. batch' \in SUBSET WalletEvent
    BY <1>16, WalletAssumption
       DEF GetCompletedByPaymentID, TypeOK, WalletEvent, PaymentID
  <2> QED
    BY <1>16, <2>1 DEF GetCompletedByPaymentID, TypeOK, theInvoice
<1>17. ASSUME NEW i \in Invoices, GetCompletedByPaymentIDFails(i)
       PROVE  TypeOK'
  BY <1>17 DEF GetCompletedByPaymentIDFails, Fail, TypeOK, theInvoice
<1>18. ASSUME NEW e \in batch, HandleReconciled(e)
       PROVE  TypeOK'
  <2>1. step' = "lookup" /\ job' \in Job
    BY <1>18, BeginType DEF HandleReconciled, TypeOK
  <2> QED
    BY <1>18, <2>1 DEF HandleReconciled, TypeOK
<1>19. CASE ReconcileReturns
  BY <1>19 DEF ReconcileReturns, TypeOK, theInvoice
<1>20. CASE OpenStream
  BY <1>20 DEF OpenStream, TypeOK, theInvoice
<1>21. CASE handleEvent
  <2>1. Head(stream) \in WalletEvent /\ Tail(stream) \in Seq(WalletEvent)
    BY <1>21, HeadTailProperties DEF handleEvent, TypeOK
  <2>2. CASE Head(stream).tx \in InboundTxs
    <3>1. step' = "lookup" /\ job' \in Job
      BY <1>21, <2>1, <2>2, BeginType DEF handleEvent
    <3> QED
      BY <1>21, <2>1, <3>1 DEF handleEvent, TypeOK
  <2>3. CASE Head(stream).tx \notin InboundTxs
    BY <1>21, <2>1, <2>3 DEF handleEvent, TypeOK, theInvoice
  <2> QED
    BY <2>2, <2>3
<1>22. CASE RunReturns
  BY <1>22 DEF RunReturns, TypeOK, theInvoice
<1>23. CASE ExpireStale
  <2>1. invoices' \in [Invoices -> Invoice]
    BY <1>23 DEF ExpireStale, TypeOK, Invoice, Status
  <2> QED
    BY <1>23, <2>1 DEF ExpireStale, TypeOK, theInvoice
<1>24. CASE Tick
  BY <1>24 DEF Tick, TypeOK, theInvoice
<1>25. ASSUME NEW t \in Txs, NEW s \in WalletStatuses, WalletReports(t, s)
       PROVE  TypeOK'
  <2>1. [paymentID |-> PaymentOf[t], tx |-> t, status |-> s] \in WalletEvent
    BY WalletAssumption DEF WalletEvent, PaymentID
  <2>2. stream' \in Seq(WalletEvent)
    BY <1>25, <2>1 DEF WalletReports, TypeOK
  <2>3. chain' \in [Txs -> WalletStatuses \cup {Unknown}]
    BY <1>25 DEF WalletReports, TypeOK
  <2>4. reported' \in [Txs -> SUBSET WalletStatuses]
    BY <1>25 DEF WalletReports, TypeOK
  <2> QED
    BY <1>25, <2>2, <2>3, <2>4 DEF WalletReports, TypeOK, theInvoice
<1>26. CASE StreamEnds
  <2>1. connected' \in BOOLEAN
    BY <1>26 DEF StreamEnds
  <2>2. stops' \in Nat
    BY <1>26 DEF StreamEnds, TypeOK
  <2> QED
    BY <1>26, <2>1, <2>2 DEF StreamEnds, TypeOK, theInvoice
<1>27. CASE Restart
  <2>1. connected' \in BOOLEAN
    BY <1>27 DEF Restart
  <2>2. stops' \in Nat
    BY <1>27 DEF Restart, TypeOK
  <2>3. /\ stream' \in Seq(WalletEvent)
        /\ phase' \in {"start", "reconcile", "connect", "stream"}
        /\ todo' \in SUBSET Invoices /\ batch' \in SUBSET WalletEvent
    BY <1>27 DEF Restart
  <2>4. step' = "none" /\ job' = NoJob
    BY <1>27 DEF Restart, Return
  <2> QED
    BY <1>27, <2>1, <2>2, <2>3, <2>4 DEF Restart, TypeOK
<1>28. CASE UNCHANGED vars
  BY <1>28 DEF vars, TypeOK, theInvoice
<1> QED
  BY <1>1, <1>2, <1>3, <1>5, <1>6, <1>9, <1>10, <1>11, <1>12, <1>13, <1>14,
     <1>15, <1>16, <1>17, <1>18, <1>19, <1>20, <1>21, <1>22, <1>23, <1>24,
     <1>25, <1>26, <1>27, <1>28
     DEF Next, watcher, handleTransaction, Reconcile, Run

\* The types hold in every reachable state, whatever fails, repeats or restarts.
THEOREM TypeCorrect == Spec => []TypeOK
  BY TypeInit, TypeNext, PTL DEF Spec

----------------------------------------------------------------------------
(* The inductive invariant                                                 *)

\* What a call of handleTransaction knows between its statements.  The sweep is
\* the only other writer of invoices, so the row it works on has the status of
\* its snapshot or has expired since, and nobody else adds to the total.
CallKnows ==
    /\ step \in {"lookup", "add"} => ~job.confirmed
    /\ step = "add" => job.new = "confirmed"
    /\ step \in {"add", "write"} =>
         /\ job.prev \in {"pending", "seen", "underpaid"}
         /\ invoices[theInvoice].status \in {job.prev, "expired"}
         /\ job.total = invoices[theInvoice].received
    /\ step = "write" =>
         /\ job.new \in {"seen", "underpaid", "confirmed", "rejected", "expired"}
         /\ job.confirmed <=> job.new = "confirmed"
         /\ job.new = "confirmed" => /\ job.total >= Amount[theInvoice]
                                     /\ job.checkedAt <= ExpiresAt[theInvoice]
         /\ job.new = "underpaid" => job.total < Amount[theInvoice]

LedgerInv == /\ TypeOK
             /\ CallKnows
             /\ ConfirmedOnlyWhenCovered
             /\ ConfirmedAtIffConfirmed

\* A step that leaves both tables alone, and the call too unless it ends or
\* begins it.
Quiet ==
    /\ UNCHANGED <<invoices, notices>>
    /\ \/ UNCHANGED <<step, job>>
       \/ step' = "none"
       \/ step' = "lookup" /\ ~job'.confirmed

\* The steps of the specification, by what they do to the tables.
LEMMA StepCases ==
    ASSUME [Next]_vars
    PROVE  \/ Quiet
           \/ LookupFinds \/ AddReceivedAmount \/ AddReceivedAmountFails
           \/ ExpireLatePayment \/ RewriteStatus \/ UpdateWithoutWebhook
           \/ updateStatusAndCreateDelivery
           \/ ExpireStale
<1> USE DEF database, wallet, supervisor
<1>1. LookupSkips \/ LookupFails \/ WriteFails => Quiet
  BY DEF LookupSkips, LookupFails, WriteFails, Return, Quiet
<1>2. ASSUME NEW e, Begin(e) PROVE step' = "lookup" /\ ~job'.confirmed
  BY <1>2 DEF Begin
<1>3. Reconcile => Quiet
  <2>1. ListNonTerminal \/ ListNonTerminalFails \/ ReconcileReturns => Quiet
    BY DEF ListNonTerminal, ListNonTerminalFails, ReconcileReturns, Quiet
  <2>2. ASSUME NEW i \in Invoices
        PROVE  GetCompletedByPaymentID(i) \/ GetCompletedByPaymentIDFails(i)
                 => Quiet
    BY DEF GetCompletedByPaymentID, GetCompletedByPaymentIDFails, Quiet
  <2>3. ASSUME NEW e \in batch PROVE HandleReconciled(e) => Quiet
    BY <1>2 DEF HandleReconciled, Quiet
  <2> QED
    BY <2>1, <2>2, <2>3 DEF Reconcile
<1>4. Run => Quiet
  <2>1. OpenStream \/ RunReturns => Quiet
    BY DEF OpenStream, RunReturns, Quiet
  <2>2. handleEvent => Quiet
    BY <1>2 DEF handleEvent, Quiet
  <2> QED
    BY <2>1, <2>2 DEF Run
<1>5. Tick \/ StreamEnds \/ Restart \/ UNCHANGED vars => Quiet
  BY DEF Tick, StreamEnds, Restart, Return, vars, Quiet
<1>6. ASSUME NEW t \in Txs, NEW s \in WalletStatuses
      PROVE  WalletReports(t, s) => Quiet
  BY DEF WalletReports, Quiet
<1> QED
  BY <1>1, <1>3, <1>4, <1>5, <1>6 DEF Next, watcher, handleTransaction

\* A well-typed invoice row after updateStatus: the new status and date, the
\* same total; every other row is untouched.
LEMMA UpdatedRow ==
    ASSUME TypeOK, NEW i \in Invoices, NEW s, NEW c, updateStatus(i, s, c)
    PROVE  /\ invoices'[i].status = s
           /\ invoices'[i].confirmed = c
           /\ invoices'[i].received = invoices[i].received
           /\ \A j \in Invoices \ {i} : invoices'[j] = invoices[j]
  BY DEF TypeOK, Invoice, updateStatus

\* AddReceivedAmount raises one total by a natural number.
LEMMA AddedRow ==
    ASSUME TypeOK, step = "add", AddToTotal
    PROVE  /\ theInvoice \in Invoices
           /\ invoices[theInvoice].received \in Nat
           /\ TxAmount[job.tx] \in Nat
           /\ invoices'[theInvoice].status = invoices[theInvoice].status
           /\ invoices'[theInvoice].confirmed = invoices[theInvoice].confirmed
           /\ invoices'[theInvoice].received
                = invoices[theInvoice].received + TxAmount[job.tx]
           /\ \A j \in Invoices \ {theInvoice} : invoices'[j] = invoices[j]
<1>1. theInvoice \in Invoices /\ job \in Job
  BY DEF TypeOK
<1>2. invoices[theInvoice] \in Invoice
  BY <1>1 DEF TypeOK
<1>3. TxAmount[job.tx] \in Nat
  BY <1>1, WalletAssumption DEF Job
<1> QED
  BY <1>1, <1>2, <1>3 DEF TypeOK, Invoice, AddToTotal

\* The sweep moves pending and seen rows to expired and changes nothing else.
LEMMA SweptRow ==
    ASSUME TypeOK, ExpireStale, NEW i \in Invoices
    PROVE  /\ invoices'[i].confirmed = invoices[i].confirmed
           /\ invoices'[i].received = invoices[i].received
           /\ \/ invoices'[i] = invoices[i]
              \/ /\ invoices[i].status \in {"pending", "seen"}
                 /\ invoices'[i].status = "expired"
  BY DEF TypeOK, Invoice, ExpireStale, Stale

LEMMA LedgerInit == Init => LedgerInv
<1> SUFFICES ASSUME Init PROVE LedgerInv
  OBVIOUS
<1>1. TypeOK
  BY TypeInit
<1>2. \A i \in Invoices : invoices[i].status = "pending" /\ ~invoices[i].confirmed
  BY DEF Init, NewInvoice
<1>3. CallKnows
  BY DEF Init, CallKnows
<1> QED
  BY <1>1, <1>2, <1>3
     DEF LedgerInv, ConfirmedOnlyWhenCovered, ConfirmedAtIffConfirmed

LEMMA LedgerNext == LedgerInv /\ [Next]_vars => LedgerInv'
<1> SUFFICES ASSUME LedgerInv, [Next]_vars
             PROVE  LedgerInv'
  OBVIOUS
<1>1. TypeOK /\ TypeOK'
  BY TypeNext DEF LedgerInv
<1>2. CallKnows /\ ConfirmedOnlyWhenCovered /\ ConfirmedAtIffConfirmed
  BY DEF LedgerInv
<1>3. \A i \in Invoices : invoices[i].received \in Nat /\ Amount[i] \in Nat
  BY <1>1, InvoicesAssumption DEF TypeOK, Invoice
<1> DEFINE Rows == ConfirmedOnlyWhenCovered /\ ConfirmedAtIffConfirmed
<1> SUFFICES CallKnows' /\ Rows'
  BY <1>1 DEF LedgerInv
<1>4. CASE Quiet
  BY <1>2, <1>4 DEF Quiet, CallKnows, theInvoice, ConfirmedOnlyWhenCovered,
                    ConfirmedAtIffConfirmed
<1>5. CASE LookupFinds
  <2>1. theInvoice \in Invoices /\ job \in Job /\ step = "lookup"
    BY <1>1, <1>5 DEF LookupFinds, TypeOK
  <2>2. /\ job'.prev = invoices[theInvoice].status
        /\ job'.total = invoices[theInvoice].received
        /\ job'.new = Verdict(job.says).status
        /\ job'.confirmed = job.confirmed
        /\ theInvoice' = theInvoice
    BY <1>5, <2>1 DEF LookupFinds, Job, theInvoice
  <2>3. invoices[theInvoice].status \in {"pending", "seen", "underpaid"}
    BY <1>1, <1>5, <2>1
       DEF LookupFinds, TypeOK, Invoice, Status, isTerminalStatus,
           TerminalStatuses
  <2>4. step' = IF job'.new = "confirmed" THEN "add" ELSE "write"
    BY <1>5, <2>2 DEF LookupFinds
  <2>5. invoices' = invoices
    BY <1>5 DEF LookupFinds, database
  <2>6. ~job.confirmed
    BY <1>2, <2>1 DEF CallKnows
  <2>7. CallKnows'
    BY <2>2, <2>3, <2>4, <2>5, <2>6, VerdictType DEF CallKnows
  <2> QED
    BY <1>2, <2>5, <2>7 DEF ConfirmedOnlyWhenCovered, ConfirmedAtIffConfirmed
<1>6. ASSUME step = "add", AddToTotal PROVE Rows'
  BY <1>2, <1>3, <1>6, <1>1, AddedRow
     DEF ConfirmedOnlyWhenCovered, ConfirmedAtIffConfirmed
<1>7. CASE AddReceivedAmount
  <2> DEFINE total == invoices[theInvoice].received + TxAmount[job.tx]
  <2>1. step = "add" /\ AddToTotal /\ job' = Decide(total) /\ step' = "write"
    BY <1>7 DEF AddReceivedAmount
  <2>2. job \in Job /\ theInvoice \in Invoices /\ total \in Nat /\ now \in Nat
    <3>1. job \in Job /\ now \in Nat
      BY <1>1, <2>1 DEF TypeOK
    <3>2. theInvoice \in Invoices /\ total \in Nat
      BY <1>1, <2>1, AddedRow
    <3> QED
      BY <3>1, <3>2
  <2>3. invoices'[theInvoice].received = total
        /\ invoices'[theInvoice].status = invoices[theInvoice].status
    BY <1>1, <2>1, AddedRow
  <2>4. /\ job'.prev = job.prev /\ theInvoice' = theInvoice
        /\ job'.total = total
    BY <2>1, <2>2 DEF Decide, Job, theInvoice
  <2>5. job.new = "confirmed" /\ ~job.confirmed
    BY <1>2, <2>1 DEF CallKnows
  <2>6. Amount[theInvoice] \in Nat /\ ExpiresAt[theInvoice] \in Nat
    BY <2>2, InvoicesAssumption
  <2>7. /\ job'.new \in {"underpaid", "expired", "confirmed"}
        /\ job'.confirmed <=> job'.new = "confirmed"
        /\ job'.new = "confirmed" => /\ total >= Amount[theInvoice]
                                     /\ job'.checkedAt <= ExpiresAt[theInvoice]
        /\ job'.new = "underpaid" => total < Amount[theInvoice]
    <3>1. CASE total < Amount[theInvoice]
      BY <2>1, <2>2, <2>5, <3>1 DEF Decide, Job
    <3>2. CASE ~(total < Amount[theInvoice]) /\ now > ExpiresAt[theInvoice]
      BY <2>1, <2>2, <2>5, <3>2 DEF Decide, Job
    <3>3. CASE ~(total < Amount[theInvoice]) /\ ~(now > ExpiresAt[theInvoice])
      BY <2>1, <2>2, <2>5, <2>6, <3>3 DEF Decide, Job
    <3> QED
      BY <3>1, <3>2, <3>3
  <2> HIDE DEF total
  <2>8. CallKnows'
    BY <1>2, <2>1, <2>3, <2>4, <2>7 DEF CallKnows
  <2> QED
    BY <1>6, <2>1, <2>8
<1>8. CASE AddReceivedAmountFails
  <2>1. step = "add" /\ step' = "none"
    BY <1>8 DEF AddReceivedAmountFails, Return
  <2>2. CASE AddToTotal
    BY <1>6, <2>1, <2>2 DEF CallKnows
  <2>3. CASE UNCHANGED <<invoices, counted>>
    BY <1>2, <2>1, <2>3
       DEF CallKnows, ConfirmedOnlyWhenCovered, ConfirmedAtIffConfirmed
  <2> QED
    BY <1>8, <2>2, <2>3 DEF AddReceivedAmountFails
<1>9. ASSUME step = "write", NEW s, NEW c \in BOOLEAN,
             updateStatus(theInvoice, s, c),
             c <=> s = "confirmed",
             s = "confirmed" => job.new = "confirmed",
             step' = "none"
      PROVE  CallKnows' /\ Rows'
  <2>1. theInvoice \in Invoices
    BY <1>1, <1>9 DEF TypeOK
  <2>2. s = "confirmed" =>
          invoices[theInvoice].received >= Amount[theInvoice]
    BY <1>2, <1>9 DEF CallKnows
  <2>3. CallKnows'
    BY <1>9 DEF CallKnows
  <2>4. /\ invoices'[theInvoice].status = s
        /\ invoices'[theInvoice].confirmed = c
        /\ invoices'[theInvoice].received = invoices[theInvoice].received
        /\ \A j \in Invoices \ {theInvoice} : invoices'[j] = invoices[j]
    BY <1>1, <1>9, <2>1, UpdatedRow
  <2>5. ConfirmedOnlyWhenCovered'
    BY <1>2, <2>2, <2>4 DEF ConfirmedOnlyWhenCovered
  <2>6. ConfirmedAtIffConfirmed'
    BY <1>2, <1>9, <2>4 DEF ConfirmedAtIffConfirmed
  <2> QED
    BY <2>3, <2>5, <2>6
<1>10. step = "write" => /\ job.confirmed \in BOOLEAN
                         /\ job.confirmed <=> job.new = "confirmed"
  BY <1>1, <1>2 DEF TypeOK, Job, CallKnows
<1>11. CASE ExpireLatePayment
  BY <1>9, <1>11 DEF ExpireLatePayment, Return
<1>12. CASE RewriteStatus
  BY <1>9, <1>10, <1>12 DEF RewriteStatus, Return
<1>13. CASE UpdateWithoutWebhook
  BY <1>9, <1>10, <1>13 DEF UpdateWithoutWebhook, Transition, Return
<1>14. CASE updateStatusAndCreateDelivery
  BY <1>9, <1>10, <1>14 DEF updateStatusAndCreateDelivery, Transition, Return
<1>15. CASE ExpireStale
  <2>1. step' = step /\ job' = job /\ theInvoice' = theInvoice
    BY <1>15 DEF ExpireStale, theInvoice
  <2>2. Rows'
    BY <1>1, <1>2, <1>15, SweptRow
       DEF ConfirmedOnlyWhenCovered, ConfirmedAtIffConfirmed
  <2>3. step \in {"add", "write"} => theInvoice \in Invoices
    BY <1>1 DEF TypeOK
  <2>4. CallKnows'
    BY <1>1, <1>2, <1>15, <2>1, <2>3, SweptRow DEF CallKnows
  <2> QED
    BY <2>2, <2>4
<1> QED
  BY <1>4, <1>5, <1>7, <1>8, <1>11, <1>12, <1>13, <1>14, <1>15, StepCases

\* The invariant holds in every reachable state.
THEOREM LedgerCorrect == Spec => []LedgerInv
  BY LedgerInit, LedgerNext, PTL DEF Spec

\* C2, for any amounts: a confirmed invoice's total covers what it asks for.
THEOREM ConfirmedIsCovered == Spec => []ConfirmedOnlyWhenCovered
<1>1. LedgerInv => ConfirmedOnlyWhenCovered
  BY DEF LedgerInv
<1> QED
  BY <1>1, LedgerCorrect, PTL

\* confirmed_at is set exactly on confirmed invoices.
THEOREM ConfirmedAtIsTruthful == Spec => []ConfirmedAtIffConfirmed
<1>1. LedgerInv => ConfirmedAtIffConfirmed
  BY DEF LedgerInv
<1> QED
  BY <1>1, LedgerCorrect, PTL

----------------------------------------------------------------------------
(* What a step may never do                                                *)

\* The only step that adds a delivery row adds one, to the invoice of the call,
\* with what the call knows.
LEMMA NoticeSteps ==
    ASSUME TypeOK, [Next]_vars
    PROVE  \/ notices' = notices
           \/ /\ updateStatusAndCreateDelivery
              /\ step = "write" /\ theInvoice \in Invoices
              /\ \A j \in Invoices \ {theInvoice} : notices'[j] = notices[j]
              /\ notices'[theInvoice] =
                   Append(notices[theInvoice],
                          [status |-> job.new, event |-> job.event,
                           received |-> job.total])
<1> USE DEF database
<1>1. \/ Quiet
      \/ LookupFinds \/ AddReceivedAmount \/ AddReceivedAmountFails
      \/ ExpireLatePayment \/ RewriteStatus \/ UpdateWithoutWebhook
      \/ ExpireStale
      => notices' = notices
  BY DEF Quiet, LookupFinds, AddReceivedAmount, AddReceivedAmountFails,
         ExpireLatePayment, RewriteStatus, UpdateWithoutWebhook, ExpireStale
<1>2. ASSUME updateStatusAndCreateDelivery
      PROVE  /\ step = "write" /\ theInvoice \in Invoices
             /\ \A j \in Invoices \ {theInvoice} : notices'[j] = notices[j]
             /\ notices'[theInvoice] =
                   Append(notices[theInvoice],
                          [status |-> job.new, event |-> job.event,
                           received |-> job.total])
  BY <1>2 DEF updateStatusAndCreateDelivery, Transition, TypeOK
<1> QED
  BY <1>1, <1>2, StepCases

\* Every step that writes a row that is confirmed or rejected leaves it as it
\* was: a call in progress works on a row that is neither.
LEMMA SettledStep ==
    ASSUME LedgerInv, [Next]_vars, NEW i \in Invoices,
           invoices[i].status \in {"confirmed", "rejected"}
    PROVE  invoices'[i] = invoices[i] /\ notices'[i] = notices[i]
<1>1. TypeOK /\ CallKnows
  BY DEF LedgerInv
<1>2. step \in {"add", "write"} => theInvoice \in Invoices /\ i # theInvoice
  BY <1>1 DEF CallKnows, TypeOK
<1>3. invoices'[i] = invoices[i]
  <2>1. CASE Quiet \/ LookupFinds
    BY <2>1 DEF Quiet, LookupFinds, database
  <2>2. CASE AddReceivedAmount \/ AddReceivedAmountFails
    <3>1. step = "add" /\ (AddToTotal \/ UNCHANGED invoices)
      BY <2>2 DEF AddReceivedAmount, AddReceivedAmountFails
    <3> QED
      BY <1>1, <1>2, <3>1, AddedRow
  <2>3. ASSUME NEW s, NEW c, step = "write", updateStatus(theInvoice, s, c)
        PROVE  invoices'[i] = invoices[i]
    BY <1>1, <1>2, <2>3, UpdatedRow
  <2>4. CASE ExpireLatePayment \/ RewriteStatus
    BY <2>3, <2>4 DEF ExpireLatePayment, RewriteStatus
  <2>5. CASE UpdateWithoutWebhook \/ updateStatusAndCreateDelivery
    BY <2>3, <2>5 DEF UpdateWithoutWebhook, updateStatusAndCreateDelivery,
                      Transition
  <2>6. CASE ExpireStale
    BY <1>1, <2>6, SweptRow
  <2> QED
    BY <2>1, <2>2, <2>4, <2>5, <2>6, StepCases
<1>4. notices'[i] = notices[i]
  BY <1>1, <1>2, NoticeSteps
<1> QED
  BY <1>3, <1>4

\* The terminal guard: late events, repeats, Reconcile and the sweep never touch
\* a confirmed or rejected invoice or its delivery rows.
THEOREM SettledStaysSettled == Spec => SettledIsFinal
<1>1. LedgerInv /\ [Next]_vars =>
        [\A i \in Invoices :
           invoices[i].status \in {"confirmed", "rejected"} =>
             invoices'[i] = invoices[i] /\ notices'[i] = notices[i]]_vars
  BY SettledStep
<1> QED
  BY <1>1, LedgerCorrect, PTL DEF Spec, SettledIsFinal

\* A step that makes an invoice confirmed or rejected writes the verdict of a call.
LEMMA VerdictStep ==
    ASSUME LedgerInv, [Next]_vars, NEW i \in Invoices,
           NEW v \in {"confirmed", "rejected"},
           invoices[i].status # v, invoices'[i].status = v
    PROVE  step = "write" /\ job.new = v /\ i = theInvoice
<1>1. TypeOK
  BY DEF LedgerInv
<1>2. ~(Quiet \/ LookupFinds)
  BY DEF Quiet, LookupFinds, database
<1>3. ~(AddReceivedAmount \/ AddReceivedAmountFails)
  <2> SUFFICES ASSUME AddReceivedAmount \/ AddReceivedAmountFails PROVE FALSE
    OBVIOUS
  <2>1. step = "add" /\ (AddToTotal \/ UNCHANGED invoices)
    BY DEF AddReceivedAmount, AddReceivedAmountFails
  <2> QED
    BY <1>1, <2>1, AddedRow
<1>4. ~ExpireStale
  BY <1>1, SweptRow
<1>5. ASSUME NEW s, NEW c, step = "write", updateStatus(theInvoice, s, c)
      PROVE  s = v /\ i = theInvoice
  <2>1. theInvoice \in Invoices
    BY <1>1, <1>5 DEF TypeOK
  <2> QED
    BY <1>1, <1>5, <2>1, UpdatedRow
<1>6. ~ExpireLatePayment
  BY <1>5 DEF ExpireLatePayment
<1>7. CASE RewriteStatus
  BY <1>5, <1>7 DEF RewriteStatus
<1>8. CASE UpdateWithoutWebhook \/ updateStatusAndCreateDelivery
  BY <1>5, <1>8 DEF UpdateWithoutWebhook, updateStatusAndCreateDelivery,
                    Transition
<1> QED
  BY <1>2, <1>3, <1>4, <1>6, <1>7, <1>8, StepCases

\* The confirm-time TTL check holds whatever the clock, the sweep and the
\* failures do between it and the write.
THEOREM ConfirmationIsInTime == Spec => ConfirmsOnlyInTime
<1>1. LedgerInv /\ [Next]_vars =>
        [\A i \in Invoices :
           invoices[i].status # "confirmed" /\ invoices'[i].status = "confirmed"
             => job.checkedAt <= ExpiresAt[i]]_vars
  BY VerdictStep DEF LedgerInv, CallKnows
<1> QED
  BY <1>1, LedgerCorrect, PTL DEF Spec, ConfirmsOnlyInTime

----------------------------------------------------------------------------
(* The delivery rows                                                       *)

\* The status last announced for an invoice: none for a pending one.
LastAnnounced(i, s) ==
    IF s = "pending" THEN notices[i] = <<>>
                     ELSE notices[i] # <<>> /\ LastNotice(i).status = s

\* While an invoice is not expired, its newest delivery row has its status; and
\* the snapshot of a call in progress is the status last announced, even when
\* the sweep has expired the row since.
NoticeInv ==
    /\ NoRepeatedNotice
    /\ WebhookConfigured =>
         /\ \A i \in Invoices : invoices[i].status # "expired" =>
              LastAnnounced(i, invoices[i].status)
         /\ step \in {"add", "write"} => LastAnnounced(theInvoice, job.prev)

LEMMA NoticeInit == Init => NoticeInv
<1> SUFFICES ASSUME Init PROVE NoticeInv
  OBVIOUS
<1>1. \A i \in Invoices : invoices[i].status = "pending" /\ notices[i] = <<>>
  BY DEF Init, NewInvoice
<1>2. NoRepeatedNotice
  BY <1>1 DEF NoRepeatedNotice
<1> QED
  BY <1>1, <1>2 DEF Init, NoticeInv, LastAnnounced

\* A row appended after one of another status, or to none, repeats nothing.
LEMMA AppendedNotice ==
    ASSUME NEW S, NEW q \in Seq(S), NEW n \in S,
           \A k \in 1..(Len(q) - 1) : q[k].status # q[k + 1].status,
           q # <<>> => q[Len(q)].status # n.status
    PROVE  /\ Append(q, n) # <<>>
           /\ Append(q, n)[Len(Append(q, n))] = n
           /\ \A k \in 1..(Len(Append(q, n)) - 1) :
                Append(q, n)[k].status # Append(q, n)[k + 1].status
<1>1. /\ Append(q, n) # <<>>
      /\ Len(q) \in Nat
      /\ Len(Append(q, n)) = Len(q) + 1
      /\ \A k \in 1..Len(q) : Append(q, n)[k] = q[k]
      /\ Append(q, n)[Len(q) + 1] = n
  BY AppendProperties, LenProperties
<1>2. ASSUME NEW k \in 1..Len(q)
      PROVE  Append(q, n)[k].status # Append(q, n)[k + 1].status
  <2>1. CASE k = Len(q)
    <3>1. q # <<>>
      BY <2>1, EmptySeq
    <3> QED
      BY <1>1, <2>1, <3>1
  <2>2. CASE k # Len(q)
    BY <1>1, <2>2
  <2> QED
    BY <2>1, <2>2
<1> QED
  BY <1>1, <1>2

LEMMA NoticeNext == LedgerInv /\ NoticeInv /\ [Next]_vars => NoticeInv'
<1> SUFFICES ASSUME LedgerInv, NoticeInv, [Next]_vars
             PROVE  NoticeInv'
  OBVIOUS
<1>1. TypeOK /\ CallKnows
  BY DEF LedgerInv
<1>2. step \in {"add", "write"} => theInvoice \in Invoices
  BY <1>1 DEF TypeOK
<1>3. CASE updateStatusAndCreateDelivery
  <2>1. /\ step = "write" /\ WebhookConfigured /\ step' = "none"
        /\ job.new # job.prev /\ job.new # "expired"
        /\ updateStatus(theInvoice, job.new, job.confirmed)
        /\ notices' = [notices EXCEPT ![theInvoice] =
                         Append(@, [status |-> job.new, event |-> job.event,
                                    received |-> job.total])]
    BY <1>3 DEF updateStatusAndCreateDelivery, Transition, Return
  <2> DEFINE q == notices[theInvoice]
             n == [status |-> job.new, event |-> job.event,
                   received |-> job.total]
  <2>2. q \in Seq(Payload) /\ n \in Payload /\ notices'[theInvoice] = Append(q, n)
    <3>1. job \in Job
      BY <1>1, <2>1 DEF TypeOK
    <3> QED
      BY <1>1, <1>2, <2>1, <3>1 DEF TypeOK, Job, Payload
  <2>3. q # <<>> => q[Len(q)].status # n.status
    BY <1>1, <2>1 DEF NoticeInv, LastAnnounced, LastNotice, CallKnows
  <2>4. \A k \in 1..(Len(q) - 1) : q[k].status # q[k + 1].status
    BY <1>2, <2>1 DEF NoticeInv, NoRepeatedNotice
  <2>5. n.status = job.new /\ n.status # "pending"
    BY <1>1, <2>1 DEF CallKnows
  <2>6. \A j \in Invoices \ {theInvoice} : notices'[j] = notices[j]
    BY <1>1, <2>1 DEF TypeOK
  <2> HIDE DEF q, n
  <2>7. /\ notices'[theInvoice] # <<>>
        /\ notices'[theInvoice][Len(notices'[theInvoice])].status = job.new
        /\ \A k \in 1..(Len(notices'[theInvoice]) - 1) :
             notices'[theInvoice][k].status # notices'[theInvoice][k + 1].status
    BY <2>2, <2>3, <2>4, <2>5, AppendedNotice
  <2>8. NoRepeatedNotice'
    BY <2>6, <2>7 DEF NoticeInv, NoRepeatedNotice
  <2>9. /\ invoices'[theInvoice].status = job.new
        /\ \A j \in Invoices \ {theInvoice} : invoices'[j] = invoices[j]
    BY <1>1, <1>2, <2>1, UpdatedRow
  <2>10. ASSUME NEW i \in Invoices, invoices'[i].status # "expired"
         PROVE  LastAnnounced(i, invoices[i].status)'
    <3>1. CASE i = theInvoice
      BY <2>5, <2>7, <2>9, <3>1 DEF LastAnnounced, LastNotice, n
    <3>2. CASE i # theInvoice
      BY <2>1, <2>6, <2>9, <2>10, <3>2 DEF NoticeInv, LastAnnounced, LastNotice
    <3> QED
      BY <3>1, <3>2
  <2> QED
    BY <2>1, <2>8, <2>10 DEF NoticeInv
<1>4. ASSUME notices' = notices PROVE NoRepeatedNotice'
  BY <1>4 DEF NoticeInv, NoRepeatedNotice
<1>5. ASSUME notices' = notices, NEW i, NEW s, LastAnnounced(i, s)
      PROVE  /\ invoices'[i].status = s => LastAnnounced(i, invoices[i].status)'
             /\ theInvoice' = i /\ job'.prev = s =>
                  LastAnnounced(theInvoice, job.prev)'
  BY <1>5 DEF LastAnnounced, LastNotice
<1>6. CASE Quiet
  BY <1>4, <1>6
     DEF Quiet, NoticeInv, LastAnnounced, LastNotice, theInvoice
<1>7. CASE LookupFinds
  <2>1. /\ notices' = notices /\ invoices' = invoices
        /\ theInvoice \in Invoices
        /\ ~isTerminalStatus(invoices[theInvoice].status)
    BY <1>7 DEF LookupFinds, database
  <2>2. job'.prev = invoices[theInvoice].status /\ theInvoice' = theInvoice
    <3>1. job \in Job
      BY <1>1, <1>7 DEF LookupFinds, TypeOK
    <3> QED
      BY <1>7, <3>1 DEF LookupFinds, Job, theInvoice
  <2>3. invoices[theInvoice].status # "expired"
    BY <2>1 DEF isTerminalStatus, TerminalStatuses
  <2> QED
    BY <1>4, <1>5, <2>1, <2>2, <2>3 DEF NoticeInv
<1>8. ASSUME step = "add", AddToTotal \/ UNCHANGED invoices
      PROVE  \A i \in Invoices : invoices'[i].status = invoices[i].status
  BY <1>1, <1>8, AddedRow
<1>9. CASE AddReceivedAmount
  <2>1. step = "add" /\ AddToTotal /\ notices' = notices
    BY <1>9 DEF AddReceivedAmount
  <2>2. theInvoice' = theInvoice /\ job'.prev = job.prev
    <3>1. job \in Job
      BY <1>1, <2>1 DEF TypeOK
    <3> QED
      BY <1>9, <3>1 DEF AddReceivedAmount, Decide, Job, theInvoice
  <2> QED
    BY <1>4, <1>5, <1>8, <2>1, <2>2 DEF NoticeInv
<1>10. CASE AddReceivedAmountFails
  <2>1. /\ step = "add" /\ (AddToTotal \/ UNCHANGED invoices)
        /\ notices' = notices /\ step' = "none"
    BY <1>10 DEF AddReceivedAmountFails, Return
  <2> QED
    BY <1>4, <1>5, <1>8, <2>1 DEF NoticeInv
<1>11. CASE ExpireLatePayment \/ RewriteStatus
  <2>1. /\ step = "write" /\ step' = "none" /\ notices' = notices
        /\ \/ updateStatus(theInvoice, "expired", FALSE)
           \/ updateStatus(theInvoice, job.prev, job.confirmed)
    BY <1>11 DEF ExpireLatePayment, RewriteStatus, Return
  <2>2. /\ invoices'[theInvoice].status \in {"expired", job.prev}
        /\ \A j \in Invoices \ {theInvoice} : invoices'[j] = invoices[j]
    BY <1>1, <1>2, <2>1, UpdatedRow
  <2>3. ASSUME WebhookConfigured, NEW i \in Invoices,
               invoices'[i].status # "expired"
        PROVE  LastAnnounced(i, invoices[i].status)'
    <3>1. LastAnnounced(theInvoice, job.prev)
      BY <2>1, <2>3 DEF NoticeInv
    <3>2. i # theInvoice => LastAnnounced(i, invoices[i].status)
      BY <2>2, <2>3 DEF NoticeInv
    <3> QED
      BY <1>5, <2>1, <2>2, <2>3, <3>1, <3>2
  <2> QED
    BY <1>4, <2>1, <2>3 DEF NoticeInv
<1>12. CASE UpdateWithoutWebhook
  <2>1. notices' = notices /\ ~WebhookConfigured
    BY <1>12 DEF UpdateWithoutWebhook
  <2> QED
    BY <1>4, <2>1 DEF NoticeInv
<1>13. CASE ExpireStale
  <2>1. notices' = notices /\ step' = step /\ job' = job
        /\ theInvoice' = theInvoice
    BY <1>13 DEF ExpireStale, theInvoice
  <2>2. ASSUME NEW i \in Invoices
        PROVE  invoices'[i].status \in {invoices[i].status, "expired"}
    BY <1>1, <1>13, SweptRow
  <2> QED
    BY <1>4, <1>5, <2>1, <2>2 DEF NoticeInv
<1> QED
  BY <1>3, <1>6, <1>7, <1>9, <1>10, <1>11, <1>12, <1>13, StepCases

\* Both invariants hold in every reachable state.
LEMMA NoticeCorrect == Spec => []NoticeInv
  BY LedgerCorrect, NoticeInit, NoticeNext, PTL DEF Spec

\* The merchant's newest delivery row carries the status the gateway shows.
THEOREM NewestNoticeIsCurrent == Spec => []LastNoticeMatchesStatus
<1>1. NoticeInv => LastNoticeMatchesStatus
  BY DEF NoticeInv, LastAnnounced, LastNoticeMatchesStatus
<1> QED
  BY <1>1, NoticeCorrect, PTL

\* No status is announced twice in a row, whatever the wallet repeats.
THEOREM NoticesDoNotRepeat == Spec => []NoRepeatedNotice
<1>1. NoticeInv => NoRepeatedNotice
  BY DEF NoticeInv
<1> QED
  BY <1>1, NoticeCorrect, PTL

\* A new delivery row is appended in the step that writes its status, with the
\* total the call read back from its own update.
LEMMA NoticeStep ==
    ASSUME LedgerInv, [Next]_vars, NEW i \in Invoices, notices'[i] # notices[i]
    PROVE  LET n == notices'[i][Len(notices'[i])] IN
           /\ n.status = invoices'[i].status
           /\ n.received = invoices'[i].received
           /\ n.status = "confirmed" => n.received >= Amount[i]
           /\ n.status = "underpaid" => n.received < Amount[i]
<1>1. TypeOK /\ CallKnows
  BY DEF LedgerInv
<1> DEFINE p == [status |-> job.new, event |-> job.event,
                 received |-> job.total]
<1>2. /\ updateStatusAndCreateDelivery
      /\ step = "write" /\ i = theInvoice
      /\ notices'[i] = Append(notices[i], p)
  BY <1>1, NoticeSteps
<1>3. notices[i] \in Seq(Payload) /\ p \in Payload
  BY <1>1, <1>2 DEF TypeOK, Job, Payload
<1> HIDE DEF p
<1>4. notices'[i][Len(notices'[i])] = p
  BY <1>2, <1>3, AppendProperties, LenProperties
<1>5. /\ invoices'[i].status = job.new
      /\ invoices'[i].received = invoices[i].received
  BY <1>1, <1>2, UpdatedRow DEF updateStatusAndCreateDelivery
<1> QED
  BY <1>1, <1>2, <1>4, <1>5 DEF p, CallKnows

\* What the merchant is told of a transition is what the ledger holds then.
THEOREM NoticesTellTheLedger == Spec => NoticeTellsLedger
<1>1. LedgerInv /\ [Next]_vars =>
        [\A i \in Invoices : notices'[i] # notices[i] =>
           LET n == notices'[i][Len(notices'[i])] IN
           /\ n.status = invoices'[i].status
           /\ n.received = invoices'[i].received
           /\ n.status = "confirmed" => n.received >= Amount[i]
           /\ n.status = "underpaid" => n.received < Amount[i]]_vars
  BY NoticeStep
<1> QED
  BY <1>1, LedgerCorrect, PTL DEF Spec, NoticeTellsLedger

----------------------------------------------------------------------------
(* What mapStatus makes of the wallet's statuses                           *)

Confirming == {"MINED_CONFIRMED", "ONE_SIDED_CONFIRMED"}
Rejecting == {"REJECTED", "NOT_FOUND", "FUTURE"}

Words == {"COMPLETED", "BROADCAST", "MINED", "UNCONFIRMED", "IMPORTED", "PENDING",
          "COINBASE", "CONFIRMED", "REJECTED", "ONE-SIDED", "QUEUED", "NOT", "FOUND",
          "IN", "BLOCK", "CHAIN", "(enum number)"}

\* strings.Contains, for the two lengths a phrase of mapStatus has.
LEMMA ContainsPair ==
    ASSUME NEW S, NEW text \in Seq(S), NEW p \in S, NEW q \in S,
           Contains(text, <<p, q>>)
    PROVE  \E k \in 1..(Len(text) - 1) : text[k] = p /\ text[k + 1] = q
<1>1. Len(text) \in Nat /\ Len(<<p, q>>) = 2
  BY LenProperties
<1>2. PICK k \in 1..(Len(text) - 1) : SubSeq(text, k, k + 1) = <<p, q>>
  BY <1>1 DEF Contains
<1>3. \A i \in k..(k + 1) : text[i] \in S
  BY <1>1, ElementOfSeq
<1>4. /\ SubSeq(text, k, k + 1)[1] = text[k]
      /\ SubSeq(text, k, k + 1)[2] = text[k + 1]
  BY <1>1, <1>3, SubSeqProperties
<1>5. <<p, q>>[1] = p /\ <<p, q>>[2] = q
  OBVIOUS
<1> QED
  BY <1>2, <1>4, <1>5

LEMMA ContainsFirstWord ==
    ASSUME NEW text \in Seq(Words), text # <<>>
    PROVE  Contains(text, <<text[1]>>)
<1>1. Len(text) \in Nat \ {0} /\ text[1] \in Words
  BY EmptySeq, ElementOfSeq
<1>2. SubSeq(text, 1, 1) \in Seq(Words) /\ Len(SubSeq(text, 1, 1)) = 1
      /\ SubSeq(text, 1, 1)[1] = text[1]
  <2>1. \A i \in 1..1 : text[i] \in Words
    BY <1>1
  <2> QED
    BY <2>1, SubSeqProperties
<1>3. <<text[1]>> \in Seq(Words) /\ Len(<<text[1]>>) = 1 /\ <<text[1]>>[1] = text[1]
  BY <1>1
<1>4. SubSeq(text, 1, 1) = <<text[1]>>
  <2>1. \A i \in 1..1 : SubSeq(text, 1, 1)[i] = <<text[1]>>[i]
    BY <1>2, <1>3
  <2> QED
    BY <1>2, <1>3, <2>1, SeqEqual
<1>5. 1 \in 1..(Len(text) - Len(<<text[1]>>) + 1) /\ 1 + Len(<<text[1]>>) - 1 = 1
  BY <1>1, <1>3
<1>6. SubSeq(text, 1, 1 + Len(<<text[1]>>) - 1) = <<text[1]>>
  BY <1>4, <1>5
<1> QED
  BY <1>5, <1>6 DEF Contains

LEMMA ContainsItself ==
    ASSUME NEW text \in Seq(Words)
    PROVE  Contains(text, text)
<1>1. Len(text) \in Nat /\ SubSeq(text, 1, Len(text)) = text
  BY LenProperties, SubSeqFull
<1>2. 1 \in 1..(Len(text) - Len(text) + 1) /\ 1 + Len(text) - 1 = Len(text)
  BY <1>1
<1>3. SubSeq(text, 1, 1 + Len(text) - 1) = text
  BY <1>1, <1>2
<1> QED
  BY <1>2, <1>3 DEF Contains

\* The table of transactionInfoStatusText, as an equation for each status.
LEMMA Texts ==
    ASSUME NEW s \in TransactionStatus
    PROVE  LET text == transactionInfoStatusText(s) IN
           /\ s \in {"COMPLETED", "BROADCAST", "IMPORTED", "PENDING", "COINBASE",
                     "REJECTED", "QUEUED"} => text = <<s>>
           /\ s = "MINED_UNCONFIRMED" => text = <<"MINED", "UNCONFIRMED">>
           /\ s = "MINED_CONFIRMED" => text = <<"MINED", "CONFIRMED">>
           /\ s = "ONE_SIDED_UNCONFIRMED" => text = <<"ONE-SIDED", "UNCONFIRMED">>
           /\ s = "ONE_SIDED_CONFIRMED" => text = <<"ONE-SIDED", "CONFIRMED">>
           /\ s = "NOT_FOUND" => text = <<"NOT", "FOUND">>
           /\ s = "COINBASE_UNCONFIRMED" => text = <<"COINBASE", "UNCONFIRMED">>
           /\ s = "COINBASE_CONFIRMED" => text = <<"COINBASE", "CONFIRMED">>
           /\ s = "COINBASE_NOT_IN_BLOCK_CHAIN" =>
                text = <<"COINBASE", "NOT", "IN", "BLOCK", "CHAIN">>
           /\ s = "FUTURE" => text = <<"(enum number)">>
  BY DEF transactionInfoStatusText, TransactionStatus

\* Only the two confirmed statuses of a payment read as confirmed: not the
\* unconfirmed ones, whose text has the word in it, and not a coinbase.
LEMMA ConfirmingText ==
    ASSUME NEW s \in TransactionStatus,
           ContainsAny(transactionInfoStatusText(s), MapsToConfirmed)
    PROVE  s \in Confirming
<1> DEFINE text == transactionInfoStatusText(s)
<1>1. PICK p \in {"MINED", "ONE-SIDED"} : Contains(text, <<p, "CONFIRMED">>)
  BY DEF ContainsAny, MapsToConfirmed
<1>2. ASSUME text \in Seq(Words)
      PROVE  \E k \in 1..(Len(text) - 1) : text[k] = p /\ text[k + 1] = "CONFIRMED"
  <2>1. p \in Words /\ "CONFIRMED" \in Words
    BY DEF Words
  <2> HIDE DEF text
  <2> QED
    BY <1>1, <1>2, <2>1, ContainsPair
<1>3. \/ \E w \in Words : text = <<w>>
      \/ text = <<"NOT", "FOUND">>
      \/ \E v \in {"MINED", "ONE-SIDED", "COINBASE"} : text = <<v, "UNCONFIRMED">>
      \/ text = <<"COINBASE", "CONFIRMED">>
      \/ text = <<"COINBASE", "NOT", "IN", "BLOCK", "CHAIN">>
      \/ s \in Confirming
  BY Texts DEF TransactionStatus, Words, Confirming
<1>4. ASSUME NEW w \in Words, text = <<w>>
      PROVE  FALSE
  <2>1. text \in Seq(Words) /\ Len(text) = 1
    BY <1>4
  <2> HIDE DEF text
  <2> QED
    BY <1>2, <2>1
<1>5. ASSUME NEW v \in {"MINED", "ONE-SIDED", "COINBASE", "NOT"},
             NEW w \in {"CONFIRMED", "UNCONFIRMED", "FOUND"}, text = <<v, w>>,
             w = "CONFIRMED" => v = "COINBASE"
      PROVE  FALSE
  <2>1. v \in Words /\ w \in Words
    BY DEF Words
  <2>2. text \in Seq(Words) /\ Len(text) = 2 /\ text[1] = v /\ text[2] = w
    BY <1>5, <2>1
  <2> HIDE DEF text
  <2> QED
    BY <1>2, <1>5, <2>2
<1>6. CASE text = <<"COINBASE", "NOT", "IN", "BLOCK", "CHAIN">>
  <2>1. /\ text \in Seq(Words) /\ Len(text) = 5
        /\ text[1] = "COINBASE" /\ text[2] = "NOT" /\ text[3] = "IN"
        /\ text[4] = "BLOCK" /\ text[5] = "CHAIN"
    BY <1>6 DEF Words
  <2> HIDE DEF text
  <2> QED
    BY <1>2, <2>1
<1> QED
  BY <1>3, <1>4, <1>5, <1>6

\* Every other status the gateway knows, rejections aside, reads as seen.
LEMMA SeenText ==
    ASSUME NEW s \in TransactionStatus \ (Confirming \cup Rejecting)
    PROVE  ContainsAny(transactionInfoStatusText(s), MapsToSeen)
<1> DEFINE text == transactionInfoStatusText(s)
<1>1. ASSUME text \in Seq(Words), text # <<>>,
             text[1] \in {"BROADCAST", "PENDING", "COMPLETED", "QUEUED", "IMPORTED",
                          "COINBASE"}
      PROVE  ContainsAny(text, MapsToSeen)
  <2>1. <<text[1]>> \in MapsToSeen
    BY <1>1 DEF MapsToSeen
  <2> HIDE DEF text
  <2> QED
    BY <1>1, <2>1, ContainsFirstWord DEF ContainsAny
<1>2. ASSUME NEW v \in {"MINED", "ONE-SIDED"}, text = <<v, "UNCONFIRMED">>
      PROVE  ContainsAny(text, MapsToSeen)
  <2>1. text \in Seq(Words) /\ text \in MapsToSeen
    <3>1. v \in Words /\ "UNCONFIRMED" \in Words
      BY DEF Words
    <3> QED
      BY <1>2, <3>1 DEF MapsToSeen
  <2> HIDE DEF text
  <2> QED
    BY <2>1, ContainsItself DEF ContainsAny
<1>3. ASSUME s \in {"COMPLETED", "BROADCAST", "IMPORTED", "PENDING", "COINBASE", "QUEUED"}
      PROVE  ContainsAny(text, MapsToSeen)
  <2>1. text = <<s>> /\ s \in Words
    BY <1>3, Texts DEF Words
  <2>2. text \in Seq(Words) /\ text # <<>> /\ text[1] = s
    BY <2>1
  <2> HIDE DEF text
  <2> QED
    BY <1>1, <1>3, <2>2
<1>4. ASSUME NEW w \in {"UNCONFIRMED", "CONFIRMED"}, text = <<"COINBASE", w>>
      PROVE  ContainsAny(text, MapsToSeen)
  <2>1. "COINBASE" \in Words /\ w \in Words
    BY DEF Words
  <2>2. text \in Seq(Words) /\ text # <<>> /\ text[1] = "COINBASE"
    BY <1>4, <2>1
  <2> HIDE DEF text
  <2> QED
    BY <1>1, <2>2
<1>5. ASSUME text = <<"COINBASE", "NOT", "IN", "BLOCK", "CHAIN">>
      PROVE  ContainsAny(text, MapsToSeen)
  <2>1. text \in Seq(Words) /\ text # <<>> /\ text[1] = "COINBASE"
    BY <1>5 DEF Words
  <2> HIDE DEF text
  <2> QED
    BY <1>1, <2>1
<1> QED
  BY <1>2, <1>3, <1>4, <1>5, Texts DEF TransactionStatus, Confirming, Rejecting

\* mapStatus on the wallet's statuses: which of them confirm, and which reject.
LEMMA VerdictRests ==
    ASSUME NEW s \in TransactionStatus
    PROVE  /\ Verdict(s).status = "confirmed" => s \in Confirming
           /\ Verdict(s).status = "rejected" => s \in Rejecting
<1>1. Verdict(s).status = "confirmed" =>
          ContainsAny(transactionInfoStatusText(s), MapsToConfirmed)
  BY DEF Verdict, mapStatus
<1>2. Verdict(s).status = "rejected" =>
          /\ ~ContainsAny(transactionInfoStatusText(s), MapsToConfirmed)
          /\ ~ContainsAny(transactionInfoStatusText(s), MapsToSeen)
  BY DEF Verdict, mapStatus
<1>3. s \in Confirming => ContainsAny(transactionInfoStatusText(s), MapsToConfirmed)
  <2> DEFINE text == transactionInfoStatusText(s)
  <2>1. ASSUME NEW v \in {"MINED", "ONE-SIDED"}, text = <<v, "CONFIRMED">>
        PROVE  text \in Seq(Words) /\ text \in MapsToConfirmed
    <3>1. v \in Words /\ "CONFIRMED" \in Words
      BY DEF Words
    <3> QED
      BY <2>1, <3>1 DEF MapsToConfirmed
  <2> HIDE DEF text
  <2>2. ASSUME s \in Confirming
        PROVE  ContainsAny(text, MapsToConfirmed)
    <3>1. text = <<"MINED", "CONFIRMED">> \/ text = <<"ONE-SIDED", "CONFIRMED">>
      BY <2>2, Texts DEF Confirming, text
    <3> QED
      BY <2>1, <3>1, ContainsItself DEF ContainsAny
  <2> QED
    BY <2>2 DEF text
<1> QED
  BY <1>1, <1>2, <1>3, ConfirmingText, SeenText


----------------------------------------------------------------------------
(* Evidence                                                                *)

\* What the wallet side holds of a transaction, the wallet has said of it.
Said(e) == e.paymentID = PaymentOf[e.tx] /\ e.status \in reported[e.tx]

\* The transaction in a call's hands pays the call's invoice and has had the status
\* the call was told; the verdict it is going to write is that status's.
CallHasEvidence ==
    /\ step # "none" =>
         /\ job.tx \in InboundTxs /\ job.paymentID = PaymentOf[job.tx]
         /\ job.says \in reported[job.tx]
    /\ step = "add" => job.says \in Confirming
    /\ step = "write" => /\ job.new = "confirmed" => job.says \in Confirming
                         /\ job.new = "rejected" => job.says \in Rejecting

WalletInv ==
    /\ \A t \in Txs : chain[t] # Unknown => chain[t] \in reported[t]
    /\ \A e \in batch : Said(e) /\ e.tx \in InboundTxs
    /\ \A k \in 1..Len(stream) : Said(stream[k])

EvidenceInv == WalletInv /\ CallHasEvidence /\ VerdictHasEvidence

\* How a step may change what the wallet said, what is waiting to be handled, and
\* the call in progress.
LEMMA EvidenceCases ==
    ASSUME [Next]_vars
    PROVE  /\ \/ UNCHANGED <<chain, reported>>
              \/ \E t \in Txs, s \in WalletStatuses : WalletReports(t, s)
           /\ \/ batch' \subseteq batch
              \/ \E i \in Invoices : GetCompletedByPaymentID(i)
           /\ \/ stream' = stream \/ stream' = <<>>
              \/ stream # <<>> /\ stream' = Tail(stream)
              \/ \E t \in Txs, s \in WalletStatuses : WalletReports(t, s)
           /\ \/ UNCHANGED <<step, job>> \/ step' = "none"
              \/ \E e \in batch : Begin(e)
              \/ stream # <<>> /\ Head(stream).tx \in InboundTxs /\ Begin(Head(stream))
              \/ LookupFinds \/ AddReceivedAmount
<1> DEFINE Goal == /\ \/ UNCHANGED <<chain, reported>>
                      \/ \E t \in Txs, s \in WalletStatuses : WalletReports(t, s)
                   /\ \/ batch' \subseteq batch
                      \/ \E i \in Invoices : GetCompletedByPaymentID(i)
                   /\ \/ stream' = stream \/ stream' = <<>>
                      \/ stream # <<>> /\ stream' = Tail(stream)
                      \/ \E t \in Txs, s \in WalletStatuses : WalletReports(t, s)
                   /\ \/ UNCHANGED <<step, job>> \/ step' = "none"
                      \/ \E e \in batch : Begin(e)
                      \/ /\ stream # <<>> /\ Head(stream).tx \in InboundTxs
                         /\ Begin(Head(stream))
                      \/ LookupFinds \/ AddReceivedAmount
<1> USE DEF database, wallet, supervisor
<1>1. handleTransaction => Goal
  BY DEF handleTransaction, LookupSkips, LookupFails, LookupFinds, AddReceivedAmount,
         AddReceivedAmountFails, ExpireLatePayment, RewriteStatus, UpdateWithoutWebhook,
         updateStatusAndCreateDelivery, WriteFails, Return
<1>2. ListNonTerminal \/ ListNonTerminalFails \/ ReconcileReturns => Goal
  BY DEF ListNonTerminal, ListNonTerminalFails, ReconcileReturns
<1>3. ASSUME NEW i \in Invoices, GetCompletedByPaymentID(i) \/ GetCompletedByPaymentIDFails(i)
      PROVE  Goal
  <2>1. UNCHANGED <<chain, reported, stream, step, job>>
    BY <1>3 DEF GetCompletedByPaymentID, GetCompletedByPaymentIDFails
  <2>2. GetCompletedByPaymentIDFails(i) => batch' = batch
    BY DEF GetCompletedByPaymentIDFails
  <2> QED
    BY <1>3, <2>1, <2>2
<1>4. ASSUME NEW e \in batch, HandleReconciled(e)
      PROVE  Goal
  BY <1>4 DEF HandleReconciled
<1>5. Run => Goal
  BY DEF Run, OpenStream, handleEvent, RunReturns
<1>6. ASSUME NEW t \in Txs, NEW s \in WalletStatuses, WalletReports(t, s)
      PROVE  Goal
  <2>1. UNCHANGED <<batch, step, job>>
    BY <1>6 DEF WalletReports
  <2> QED
    BY <1>6, <2>1
<1>7. ExpireStale \/ Tick \/ StreamEnds \/ Restart \/ UNCHANGED vars => Goal
  BY DEF ExpireStale, Tick, StreamEnds, Restart, Return, vars
<1> HIDE DEF Goal
<1>8. Goal
  BY <1>1, <1>2, <1>3, <1>4, <1>5, <1>6, <1>7 DEF Next, watcher, Reconcile
<1> QED
  BY <1>8 DEF Goal

\* The wallet takes nothing back.
LEMMA ReportedGrows ==
    ASSUME TypeOK, [Next]_vars
    PROVE  /\ \A t \in Txs : reported[t] \subseteq reported'[t]
           /\ \A t \in Txs : chain'[t] # Unknown =>
                chain'[t] = chain[t] \/ chain'[t] \in reported'[t]
<1>1. ASSUME NEW t \in Txs, NEW s \in WalletStatuses, WalletReports(t, s)
      PROVE  /\ \A u \in Txs : reported[u] \subseteq reported'[u]
             /\ \A u \in Txs : chain'[u] = chain[u] \/ chain'[u] \in reported'[u]
  BY <1>1 DEF WalletReports, TypeOK
<1> QED
  BY <1>1, EvidenceCases

LEMMA WalletNext ==
    ASSUME TypeOK, TypeOK', WalletInv, [Next]_vars
    PROVE  WalletInv'
<1>1. ASSUME NEW e \in WalletEvent, Said(e)
      PROVE  Said(e)'
  BY <1>1, ReportedGrows DEF Said, WalletEvent
<1>2. \A t \in Txs : chain'[t] # Unknown => chain'[t] \in reported'[t]
  BY ReportedGrows DEF WalletInv
<1>3. \A e \in batch' : Said(e)' /\ e.tx \in InboundTxs
  <2>1. CASE batch' \subseteq batch
    BY <1>1, <2>1 DEF WalletInv, TypeOK
  <2>2. ASSUME NEW i \in Invoices, GetCompletedByPaymentID(i), NEW e \in batch'
        PROVE  Said(e)' /\ e.tx \in InboundTxs
    <3>1. PICK t \in InboundTxs : /\ e = [paymentID |-> i, tx |-> t, status |-> chain[t]]
                                  /\ PaymentOf[t] = i /\ chain[t] # Unknown
      BY <2>2 DEF GetCompletedByPaymentID
    <3>2. Said(e) /\ e.tx \in InboundTxs
      BY <3>1, WalletAssumption DEF Said, WalletInv
    <3>3. e \in WalletEvent
      BY DEF TypeOK
    <3> QED
      BY <1>1, <3>2, <3>3
  <2> QED
    BY <2>1, <2>2, EvidenceCases
<1>4. ASSUME NEW k \in 1..Len(stream'), NEW e, e = stream'[k]
      PROVE  Said(e)'
  <2>1. /\ stream \in Seq(WalletEvent) /\ Len(stream) \in Nat
        /\ \A j \in 1..Len(stream) : stream[j] \in WalletEvent /\ Said(stream[j])
    BY ElementOfSeq, LenProperties DEF TypeOK, WalletInv
  <2>2. ASSUME NEW j \in 1..Len(stream), e = stream[j]
        PROVE  Said(e)'
    BY <1>1, <2>1, <2>2
  <2>3. CASE stream' = stream
    BY <1>4, <2>2, <2>3
  <2>4. CASE stream' = <<>>
    BY <1>4, <2>4
  <2>5. CASE stream # <<>> /\ stream' = Tail(stream)
    <3>1. k + 1 \in 1..Len(stream) /\ e = stream[k + 1]
      BY <1>4, <2>1, <2>5, HeadTailProperties
    <3> QED
      BY <2>2, <3>1
  <2>6. ASSUME NEW t \in Txs, NEW s \in WalletStatuses, WalletReports(t, s)
        PROVE  Said(e)'
    <3> DEFINE told == [paymentID |-> PaymentOf[t], tx |-> t, status |-> s]
    <3>1. stream' = Append(stream, told) \/ stream' = stream
      BY <2>6 DEF WalletReports
    <3>2. told \in WalletEvent /\ s \in reported'[t]
      BY <2>6, WalletAssumption DEF WalletReports, TypeOK, WalletEvent, PaymentID
    <3>3. ASSUME e = told PROVE Said(e)'
      BY <3>2, <3>3 DEF Said
    <3> HIDE DEF told
    <3>4. CASE stream' = Append(stream, told)
      <4>1. /\ Len(stream') = Len(stream) + 1
            /\ \A j \in 1..Len(stream) : stream'[j] = stream[j]
            /\ stream'[Len(stream) + 1] = told
        BY <2>1, <3>2, <3>4, AppendProperties
      <4>2. k \in 1..Len(stream) \/ k = Len(stream) + 1
        BY <1>4, <2>1, <4>1
      <4> QED
        BY <1>4, <2>2, <3>3, <4>1, <4>2
    <3> QED
      BY <2>3, <3>1, <3>4
  <2> QED
    BY <2>3, <2>4, <2>5, <2>6, EvidenceCases
<1>5. (\A k \in 1..Len(stream) : Said(stream[k]))'
  BY <1>4 DEF Said
<1> QED
  BY <1>2, <1>3, <1>5 DEF WalletInv

LEMMA CallEvidenceNext ==
    ASSUME LedgerInv, WalletInv, CallHasEvidence, [Next]_vars
    PROVE  CallHasEvidence'
<1>1. TypeOK /\ CallKnows
  BY DEF LedgerInv
<1>2. \A t \in InboundTxs : t \in Txs /\ reported[t] \subseteq reported'[t]
  BY <1>1, ReportedGrows, WalletAssumption
<1>3. CASE UNCHANGED <<step, job>>
  BY <1>2, <1>3 DEF CallHasEvidence
<1>4. CASE step' = "none"
  BY <1>4 DEF CallHasEvidence
<1>5. ASSUME NEW e, Said(e), e.tx \in InboundTxs, Begin(e)
      PROVE  CallHasEvidence'
  <2>1. step' = "lookup"
    BY <1>5 DEF Begin
  <2>2. job'.tx = e.tx /\ job'.paymentID = e.paymentID /\ job'.says = e.status
    BY <1>5 DEF Begin
  <2> QED
    BY <1>2, <1>5, <2>1, <2>2 DEF CallHasEvidence, Said
<1>6. ASSUME stream # <<>>
      PROVE  Said(Head(stream))
  <2>1. 1 \in 1..Len(stream) /\ Head(stream) = stream[1]
    BY <1>1, <1>6, LenProperties, EmptySeq DEF TypeOK
  <2> QED
    BY <2>1 DEF WalletInv
<1>7. CASE LookupFinds
  <2>1. step = "lookup" /\ job \in Job /\ job.says \in WalletStatuses
    BY <1>1, <1>7 DEF LookupFinds, TypeOK, Job
  <2>2. /\ job'.tx = job.tx /\ job'.paymentID = job.paymentID
        /\ job'.says = job.says /\ job'.new = Verdict(job.says).status
        /\ step' = IF Verdict(job.says).status = "confirmed" THEN "add" ELSE "write"
    BY <1>7, <2>1 DEF LookupFinds, Job
  <2>3. /\ job'.new = "confirmed" => job.says \in Confirming
        /\ job'.new = "rejected" => job.says \in Rejecting
    BY <2>1, <2>2, VerdictRests, WalletAssumption
  <2> QED
    BY <1>2, <2>1, <2>2, <2>3 DEF CallHasEvidence
<1>8. CASE AddReceivedAmount
  <2>1. step = "add" /\ step' = "write" /\ job \in Job /\ job.new = "confirmed"
    BY <1>1, <1>8 DEF AddReceivedAmount, TypeOK, CallKnows
  <2>2. /\ job'.tx = job.tx /\ job'.paymentID = job.paymentID /\ job'.says = job.says
        /\ job'.new \in {"underpaid", "expired", "confirmed"}
    BY <1>8, <2>1 DEF AddReceivedAmount, Decide, Job
  <2> QED
    BY <1>2, <2>1, <2>2 DEF CallHasEvidence
<1> QED
  BY <1>3, <1>4, <1>5, <1>6, <1>7, <1>8, EvidenceCases DEF WalletInv

\* An amount is counted by a call that is adding it, and by nothing else.
LEMMA CountedStep ==
    ASSUME [Next]_vars, counted' # counted
    PROVE  step = "add" /\ AddToTotal
<1> USE DEF database, wallet, supervisor
<1>1. handleTransaction => step = "add" /\ AddToTotal
  BY DEF handleTransaction, LookupSkips, LookupFails, LookupFinds, AddReceivedAmount,
         AddReceivedAmountFails, ExpireLatePayment, RewriteStatus, UpdateWithoutWebhook,
         updateStatusAndCreateDelivery, WriteFails
<1>2. ~Reconcile
  BY DEF Reconcile, ListNonTerminal, ListNonTerminalFails, GetCompletedByPaymentID,
         GetCompletedByPaymentIDFails, HandleReconciled, ReconcileReturns
<1>3. ~Run
  BY DEF Run, OpenStream, handleEvent, RunReturns
<1>4. \A t \in Txs, s \in WalletStatuses : ~WalletReports(t, s)
  BY DEF WalletReports
<1>5. ~(ExpireStale \/ Tick \/ StreamEnds \/ Restart \/ UNCHANGED vars)
  BY DEF ExpireStale, Tick, StreamEnds, Restart, vars
<1> QED
  BY <1>1, <1>2, <1>3, <1>4, <1>5 DEF Next, watcher

LEMMA EvidenceInit == Init => EvidenceInv
<1> SUFFICES ASSUME Init PROVE EvidenceInv
  OBVIOUS
<1>1. WalletInv
  BY DEF Init, WalletInv
<1>2. CallHasEvidence
  BY DEF Init, CallHasEvidence
<1>3. VerdictHasEvidence
  BY DEF Init, NewInvoice, VerdictHasEvidence
<1> QED
  BY <1>1, <1>2, <1>3 DEF EvidenceInv

LEMMA EvidenceNext == LedgerInv /\ TypeOK' /\ EvidenceInv /\ [Next]_vars => EvidenceInv'
<1> SUFFICES ASSUME LedgerInv, TypeOK', EvidenceInv, [Next]_vars
             PROVE  EvidenceInv'
  OBVIOUS
<1>1. TypeOK /\ WalletInv /\ CallHasEvidence /\ VerdictHasEvidence
  BY DEF LedgerInv, EvidenceInv
<1>2. WalletInv' /\ CallHasEvidence'
  BY <1>1, WalletNext, CallEvidenceNext
<1>3. ASSUME NEW i, NEW statuses, Evidence(i, statuses)
      PROVE  Evidence(i, statuses)'
  BY <1>1, <1>3, ReportedGrows, WalletAssumption DEF Evidence
<1>4. ASSUME NEW i, i = theInvoice, step = "write", NEW statuses, job.says \in statuses
      PROVE  Evidence(i, statuses)
  BY <1>1, <1>4 DEF CallHasEvidence, Evidence, theInvoice
<1>5. ASSUME NEW i \in Invoices, invoices'[i].status = "confirmed"
      PROVE  Evidence(i, Confirming)'
  <2>1. CASE invoices[i].status = "confirmed"
    BY <1>1, <1>3, <2>1 DEF VerdictHasEvidence, Confirming
  <2>2. CASE invoices[i].status # "confirmed"
    <3>1. step = "write" /\ job.new = "confirmed" /\ i = theInvoice
      BY <1>5, <2>2, VerdictStep
    <3> QED
      BY <1>1, <1>3, <1>4, <3>1 DEF CallHasEvidence
  <2> QED
    BY <2>1, <2>2
<1>6. ASSUME NEW i \in Invoices, invoices'[i].status = "rejected"
      PROVE  Evidence(i, Rejecting)'
  <2>1. CASE invoices[i].status = "rejected"
    BY <1>1, <1>3, <2>1 DEF VerdictHasEvidence, Rejecting
  <2>2. CASE invoices[i].status # "rejected"
    <3>1. step = "write" /\ job.new = "rejected" /\ i = theInvoice
      BY <1>6, <2>2, VerdictStep
    <3> QED
      BY <1>1, <1>3, <1>4, <3>1 DEF CallHasEvidence
  <2> QED
    BY <2>1, <2>2
<1>7. ASSUME NEW t \in Txs, counted'[t] > 0
      PROVE  t \in InboundTxs /\ reported'[t] \cap Confirming # {}
  <2>1. reported[t] \subseteq reported'[t]
    BY <1>1, ReportedGrows
  <2>2. CASE counted'[t] = counted[t]
    BY <1>1, <1>7, <2>1, <2>2 DEF VerdictHasEvidence, Confirming
  <2>3. CASE counted'[t] # counted[t]
    <3>1. step = "add" /\ AddToTotal
      BY <2>3, CountedStep
    <3>2. t = job.tx
      BY <1>1, <2>3, <3>1 DEF AddToTotal, TypeOK
    <3> QED
      BY <1>1, <2>1, <3>1, <3>2 DEF CallHasEvidence
  <2> QED
    BY <2>2, <2>3
<1>8. VerdictHasEvidence'
  BY <1>5, <1>6, <1>7 DEF VerdictHasEvidence, Confirming, Rejecting
<1> QED
  BY <1>2, <1>8 DEF EvidenceInv

\* No verdict without the wallet's word, whatever mapStatus is given, however the
\* events are repeated, lost or overtaken: an invoice is confirmed or rejected, and
\* an amount counted, only for a status the wallet gave to an inbound transaction
\* that pays that invoice.
THEOREM VerdictsRestOnEvidence == Spec => []VerdictHasEvidence
<1>1. EvidenceInv => VerdictHasEvidence
  BY DEF EvidenceInv
<1> QED
  BY <1>1, EvidenceInit, EvidenceNext, LedgerCorrect, TypeCorrect, PTL DEF Spec
=============================================================================
