------------------------------- MODULE Watcher -------------------------------
(***************************************************************************)
(* internal/eventwatcher: the goroutine that turns what the wallet says    *)
(* about transactions into invoice statuses and webhook delivery rows.     *)
(*                                                                         *)
(* One watcher goroutine alternates, under main's supervisor loop, between *)
(* Reconcile (ask the wallet about every non-terminal invoice) and Run     *)
(* (consume the live event stream).  Both feed handleTransaction, whose    *)
(* database statements are separate steps here, because the TTL sweep, the *)
(* wallet, the clock and a crash may all act between them.                 *)
(*                                                                         *)
(* The database (invoices and webhook_deliveries) survives a crash; every  *)
(* thing the goroutine holds does not.                                     *)
(***************************************************************************)
EXTENDS StatusMap

CONSTANTS
    Invoices,           \* the invoices of the database
    Txs,                \* the transactions of the wallet
    NoInvoice,          \* a payment id that belongs to no invoice
    NoJob,              \* the watcher is not handling a transaction
    PaymentOf,          \* the invoice a transaction's payment id names
    InboundTxs,         \* the transactions that pay this wallet
    TxAmount,           \* what each transaction carries
    Amount,             \* what each invoice asks for
    ExpiresAt,          \* the invoices' expires_at
    WebhookConfigured,  \* whether TARIPAY_WEBHOOK_CALLBACK_URL is set
    WalletStatuses,     \* the statuses the wallet may give a transaction
    MaxTime,            \* bound on the clock
    MaxChanges,         \* bound on what the wallet does
    MaxBuffered,        \* bound on the stream's unread events
    MaxFaults,          \* bound on failed database and wallet calls
    MaxStops            \* bound on lost streams and process restarts

ASSUME InvoicesAssumption ==
    /\ NoInvoice \notin Invoices
    /\ Amount \in [Invoices -> Nat \ {0}]
    /\ ExpiresAt \in [Invoices -> Nat]
    /\ WebhookConfigured \in BOOLEAN

ASSUME WalletAssumption ==
    /\ PaymentOf \in [Txs -> Invoices \cup {NoInvoice}]
    /\ InboundTxs \subseteq Txs
    /\ TxAmount \in [Txs -> Nat]
    /\ WalletStatuses \subseteq TransactionStatus

ASSUME BoundsAssumption ==
    /\ MaxTime \in Nat
    /\ MaxChanges \in Nat
    /\ MaxBuffered \in Nat
    /\ MaxFaults \in Nat
    /\ MaxStops \in Nat

VARIABLES
    now,        \* the clock, shared by time.Now() and SQL now()
    invoices,   \* the invoices table
    notices,    \* per invoice, the payloads of its webhook_deliveries rows
    chain,      \* what the wallet holds each transaction to be
    reported,   \* history: every status the wallet gave each transaction
    connected,  \* the wallet side of the event stream is up
    stream,     \* events sent and not yet received
    phase,      \* where the supervisor loop is
    todo,       \* Reconcile's invoices not yet queried
    batch,      \* Reconcile's transactions not yet handled
    step,       \* where handleTransaction is
    job,        \* its local variables
    counted,    \* history: how often each transaction was added to a total
    changes, faults, stops   \* what the bounds bound

database == <<invoices, notices, counted>>
wallet == <<chain, reported, changes>>
supervisor == <<phase, todo, batch>>
vars == <<now, database, wallet, connected, stream, supervisor, step, job,
          faults, stops>>

Status == {"pending", "seen", "underpaid", "confirmed", "rejected", "expired",
           "cancelled"}
TerminalStatuses == {"confirmed", "rejected", "expired", "cancelled"}
\* Mutant: the S2/AI-05 bug for confirmed invoices, no terminal guard.
isTerminalStatus_Unguarded(s) == s \in TerminalStatuses \ {"confirmed"}
isTerminalStatus(s) == s \in TerminalStatuses

\* A transaction the wallet has not seen yet.
Unknown == "UNKNOWN"
PaymentID == Invoices \cup {NoInvoice}
WalletEvent == [paymentID : PaymentID, tx : Txs, status : WalletStatuses]
Event == {"payment.seen", "payment.underpaid", "payment.confirmed",
          "payment.rejected", "none"}
Invoice == [status : Status, confirmed : BOOLEAN, received : Nat]
Payload == [status : Status, event : Event, received : Nat]
Job == [paymentID : PaymentID, tx : Txs, says : WalletStatuses, prev : Status, new : Status,
        event : Event, confirmed : BOOLEAN, total : Nat, checkedAt : Nat]

\* A row as Create inserts it; "confirmed" is confirmed_at IS NOT NULL.
NewInvoice == [status |-> "pending", confirmed |-> FALSE, received |-> 0]

Init ==
    /\ now = 0
    /\ invoices = [i \in Invoices |-> NewInvoice]
    /\ notices = [i \in Invoices |-> <<>>]
    /\ chain = [t \in Txs |-> Unknown]
    /\ reported = [t \in Txs |-> {}]
    /\ counted = [t \in Txs |-> 0]
    /\ connected = FALSE /\ stream = <<>>
    /\ phase = "start" /\ todo = {} /\ batch = {}
    /\ step = "none" /\ job = NoJob
    /\ changes = 0 /\ faults = 0 /\ stops = 0

----------------------------------------------------------------------------
(* The environment: the clock, the wallet, and the other goroutine that    *)
(* writes invoices.                                                        *)

Tick ==
    /\ now < MaxTime
    /\ now' = now + 1
    /\ UNCHANGED <<database, wallet, connected, stream, supervisor, step, job,
                   faults, stops>>

\* The wallet gives a transaction a status, or announces the one it has once
\* more (it emits "Mined Confirmed" and "One-Sided Confirmed" for the same
\* transaction).  The event is lost when no stream is open.
WalletReports(t, s) ==
    /\ changes < MaxChanges
    /\ Len(stream) < MaxBuffered
    /\ chain' = [chain EXCEPT ![t] = s]
    /\ reported' = [reported EXCEPT ![t] = @ \cup {s}]
    /\ changes' = changes + 1
    /\ stream' = IF connected
                    THEN Append(stream, [paymentID |-> PaymentOf[t], tx |-> t,
                                         status |-> s])
                    ELSE stream
    /\ UNCHANGED <<now, database, connected, supervisor, step, job, faults,
                   stops>>

\* Mutant: the sweep takes any row whose expires_at has passed.
Stale_AnyStatus(i) == invoices[i].status # "expired" /\ ExpiresAt[i] < now

Stale(i) == invoices[i].status \in {"pending", "seen"} /\ ExpiresAt[i] < now

\* Mutant: the sweep forgets the invoices a payment was seen for.
ExpireStale_PendingOnly ==
    /\ \E i \in Invoices : Stale(i) /\ invoices[i].status = "pending"
    /\ invoices' = [i \in Invoices |->
                      IF Stale(i) /\ invoices[i].status = "pending"
                        THEN [invoices[i] EXCEPT !.status = "expired"]
                        ELSE invoices[i]]
    /\ UNCHANGED <<now, notices, counted, wallet, connected, stream,
                   supervisor, step, job, faults, stops>>

\* One tick of runTTLSweepLoop: a single UPDATE over every stale invoice.
\* confirmed_at is left as it is.
ExpireStale ==
    /\ \E i \in Invoices : Stale(i)
    /\ invoices' = [i \in Invoices |->
                      IF Stale(i) THEN [invoices[i] EXCEPT !.status = "expired"]
                                  ELSE invoices[i]]
    /\ UNCHANGED <<now, notices, counted, wallet, connected, stream,
                   supervisor, step, job, faults, stops>>

----------------------------------------------------------------------------
(* handleTransaction                                                       *)

\* handleTransaction is entered with a transaction and its status ...
Begin(e) ==
    /\ step' = "lookup"
    /\ job' = [paymentID |-> e.paymentID, tx |-> e.tx, says |-> e.status,
               prev |-> "pending", new |-> "pending", event |-> "none",
               confirmed |-> FALSE, total |-> 0, checkedAt |-> 0]

\* ... and left.
Return == step' = "none" /\ job' = NoJob

Fail == faults < MaxFaults /\ faults' = faults + 1

theInvoice == job.paymentID

\* GetByPaymentID finds no invoice, or a terminal one.
LookupSkips ==
    /\ step = "lookup"
    /\ \/ theInvoice \notin Invoices
       \/ theInvoice \in Invoices /\ isTerminalStatus(invoices[theInvoice].status)
    /\ Return
    /\ UNCHANGED <<now, database, wallet, connected, stream, supervisor,
                   faults, stops>>

\* A transient database error drops the event.
LookupFails ==
    /\ step = "lookup"
    /\ Fail
    /\ Return
    /\ UNCHANGED <<now, database, wallet, connected, stream, supervisor, stops>>

\* The row becomes the snapshot the rest of the call works from.
LookupFinds ==
    /\ step = "lookup"
    /\ theInvoice \in Invoices
    /\ ~isTerminalStatus(invoices[theInvoice].status)
    /\ LET v == Verdict(job.says) IN
       /\ job' = [job EXCEPT !.prev = invoices[theInvoice].status,
                             !.total = invoices[theInvoice].received,
                             !.new = v.status, !.event = v.event]
       /\ step' = IF v.status = "confirmed" THEN "add" ELSE "write"
    /\ UNCHANGED <<now, database, wallet, connected, stream, supervisor,
                   faults, stops>>

\* Mutant: the C2 bug, any amount confirms.
Decide_AnyAmount(total) ==
    IF now > ExpiresAt[theInvoice]
      THEN [job EXCEPT !.total = total, !.new = "expired", !.event = "none"]
    ELSE [job EXCEPT !.total = total, !.confirmed = TRUE, !.checkedAt = now]

\* Mutant: no confirm-time TTL check, the sweep alone enforces expires_at.
Decide_NoTTL(total) ==
    IF total < Amount[theInvoice]
      THEN [job EXCEPT !.total = total, !.new = "underpaid",
                       !.event = "payment.underpaid"]
    ELSE [job EXCEPT !.total = total, !.confirmed = TRUE, !.checkedAt = now]

\* Mutant: the payload keeps the total of the snapshot.
Decide_SnapshotTotal(total) ==
    IF total < Amount[theInvoice]
      THEN [job EXCEPT !.new = "underpaid", !.event = "payment.underpaid"]
    ELSE IF now > ExpiresAt[theInvoice]
      THEN [job EXCEPT !.new = "expired", !.event = "none"]
    ELSE [job EXCEPT !.confirmed = TRUE, !.checkedAt = now]

\* What the new total makes of a confirming event: too little, enough but too
\* late, or a confirmation.  The clock is read only when the amount suffices.
Decide(total) ==
    IF total < Amount[theInvoice]
      THEN [job EXCEPT !.total = total, !.new = "underpaid",
                       !.event = "payment.underpaid"]
    ELSE IF now > ExpiresAt[theInvoice]
      THEN [job EXCEPT !.total = total, !.new = "expired", !.event = "none"]
    ELSE [job EXCEPT !.total = total, !.confirmed = TRUE, !.checkedAt = now]

AddToTotal ==
    /\ invoices' = [invoices EXCEPT ![theInvoice].received = @ + TxAmount[job.tx]]
    /\ counted' = [counted EXCEPT ![job.tx] = @ + 1]

\* UPDATE ... SET amount_received_utari = amount_received_utari + $2 RETURNING:
\* atomic, and committed before the status is.
AddReceivedAmount ==
    /\ step = "add"
    /\ AddToTotal
    /\ job' = Decide(invoices[theInvoice].received + TxAmount[job.tx])
    /\ step' = "write"
    /\ UNCHANGED <<now, notices, wallet, connected, stream, supervisor, faults,
                   stops>>

\* The statement fails, or its reply is lost after it committed.
AddReceivedAmountFails ==
    /\ step = "add"
    /\ Fail
    /\ \/ UNCHANGED <<invoices, counted>>
       \/ AddToTotal
    /\ Return
    /\ UNCHANGED <<now, notices, wallet, connected, stream, supervisor, stops>>

\* UPDATE invoices SET status, confirmed_at WHERE id: whatever the row holds by
\* now is overwritten.
updateStatus(i, s, c) ==
    invoices' = [invoices EXCEPT ![i].status = s, ![i].confirmed = c]

\* A payment that suffices but comes after expires_at: no webhook.
ExpireLatePayment ==
    /\ step = "write" /\ job.new = "expired"
    /\ updateStatus(theInvoice, "expired", FALSE)
    /\ Return
    /\ UNCHANGED <<now, notices, counted, wallet, connected, stream,
                   supervisor, faults, stops>>

\* The status is the snapshot's: written again, no webhook.
RewriteStatus ==
    /\ step = "write" /\ job.new = job.prev
    /\ updateStatus(theInvoice, job.new, job.confirmed)
    /\ Return
    /\ UNCHANGED <<now, notices, counted, wallet, connected, stream,
                   supervisor, faults, stops>>

\* Mutant: every event is taken for a transition.
Transition_Always == step = "write" /\ job.new # "expired"

Transition == step = "write" /\ job.new \notin {"expired", job.prev}

\* fireWebhook without a callback URL.
UpdateWithoutWebhook ==
    /\ Transition /\ ~WebhookConfigured
    /\ updateStatus(theInvoice, job.new, job.confirmed)
    /\ Return
    /\ UNCHANGED <<now, notices, counted, wallet, connected, stream,
                   supervisor, faults, stops>>

\* Mutant: two independent statements, the second of which may fail.
updateStatusAndCreateDelivery_TwoStatements ==
    /\ Transition /\ WebhookConfigured
    /\ updateStatus(theInvoice, job.new, job.confirmed)
    /\ \/ UNCHANGED notices
       \/ notices' = [notices EXCEPT ![theInvoice] =
                        Append(@, [status |-> job.new, event |-> job.event,
                                   received |-> job.total])]
    /\ Return
    /\ UNCHANGED <<now, counted, wallet, connected, stream, supervisor, faults,
                   stops>>

\* Mutant: the two strings of the payload change places.
updateStatusAndCreateDelivery_Swapped ==
    /\ Transition /\ WebhookConfigured
    /\ updateStatus(theInvoice, job.new, job.confirmed)
    /\ notices' = [notices EXCEPT ![theInvoice] =
                     Append(@, [status |-> job.event, event |-> job.new,
                                received |-> job.total])]
    /\ Return
    /\ UNCHANGED <<now, counted, wallet, connected, stream, supervisor, faults,
                   stops>>

\* The status and its delivery row, in one database transaction.  The send
\* that follows touches neither table of this module: see Delivery.
updateStatusAndCreateDelivery ==
    /\ Transition /\ WebhookConfigured
    /\ updateStatus(theInvoice, job.new, job.confirmed)
    /\ notices' = [notices EXCEPT ![theInvoice] =
                     Append(@, [status |-> job.new, event |-> job.event,
                                received |-> job.total])]
    /\ Return
    /\ UNCHANGED <<now, counted, wallet, connected, stream, supervisor, faults,
                   stops>>

\* The statement or the transaction fails and is rolled back; the error is
\* logged.  (A reply lost after the commit leaves what the success leaves.)
WriteFails ==
    /\ step = "write"
    /\ Fail
    /\ Return
    /\ UNCHANGED <<now, database, wallet, connected, stream, supervisor, stops>>

handleTransaction ==
    \/ LookupSkips \/ LookupFails \/ LookupFinds
    \/ AddReceivedAmount \/ AddReceivedAmountFails
    \/ ExpireLatePayment \/ RewriteStatus
    \/ UpdateWithoutWebhook \/ updateStatusAndCreateDelivery \/ WriteFails

----------------------------------------------------------------------------
(* Reconcile, called by the supervisor before every Run                    *)

\* Mutant: Reconcile examines the pending invoices only.
ListNonTerminal_PendingOnly ==
    /\ phase = "start"
    /\ todo' = {i \in Invoices : invoices[i].status = "pending"}
    /\ phase' = "reconcile"
    /\ UNCHANGED <<now, database, wallet, connected, stream, batch, step, job,
                   faults, stops>>

ListNonTerminal ==
    /\ phase = "start"
    /\ todo' = {i \in Invoices : ~isTerminalStatus(invoices[i].status)}
    /\ phase' = "reconcile"
    /\ UNCHANGED <<now, database, wallet, connected, stream, batch, step, job,
                   faults, stops>>

\* Logged by the supervisor, which opens the stream all the same.
ListNonTerminalFails ==
    /\ phase = "start"
    /\ Fail
    /\ phase' = "connect"
    /\ UNCHANGED <<now, database, wallet, connected, stream, todo, batch, step,
                   job, stops>>

betweenInvoices == phase = "reconcile" /\ step = "none" /\ batch = {}

\* Mutant: every inbound transaction is taken to pay the invoice asked about.
GetCompletedByPaymentID_AnyPayment(i) ==
    /\ betweenInvoices /\ i \in todo
    /\ todo' = todo \ {i}
    /\ batch' = {[paymentID |-> i, tx |-> t, status |-> chain[t]] :
                    t \in {u \in InboundTxs : chain[u] # Unknown}}
    /\ UNCHANGED <<now, database, wallet, connected, stream, phase, step, job,
                   faults, stops>>

\* Everything the wallet knows under the invoice's payment id, less what is
\* not inbound.
GetCompletedByPaymentID(i) ==
    /\ betweenInvoices /\ i \in todo
    /\ todo' = todo \ {i}
    /\ batch' = {[paymentID |-> i, tx |-> t, status |-> chain[t]] :
                    t \in {u \in InboundTxs :
                             PaymentOf[u] = i /\ chain[u] # Unknown}}
    /\ UNCHANGED <<now, database, wallet, connected, stream, phase, step, job,
                   faults, stops>>

\* The wallet does not answer: the invoice is skipped.
GetCompletedByPaymentIDFails(i) ==
    /\ betweenInvoices /\ i \in todo
    /\ Fail
    /\ todo' = todo \ {i}
    /\ UNCHANGED <<now, database, wallet, connected, stream, phase, batch,
                   step, job, stops>>

HandleReconciled(e) ==
    /\ phase = "reconcile" /\ step = "none" /\ e \in batch
    /\ batch' = batch \ {e}
    /\ Begin(e)
    /\ UNCHANGED <<now, database, wallet, connected, stream, phase, todo,
                   faults, stops>>

ReconcileReturns ==
    /\ betweenInvoices /\ todo = {}
    /\ phase' = "connect"
    /\ UNCHANGED <<now, database, wallet, connected, stream, todo, batch, step,
                   job, faults, stops>>

Reconcile ==
    \/ ListNonTerminal \/ ListNonTerminalFails
    \/ \E i \in Invoices : \/ GetCompletedByPaymentID(i)
                           \/ GetCompletedByPaymentIDFails(i)
    \/ \E e \in batch : HandleReconciled(e)
    \/ ReconcileReturns

----------------------------------------------------------------------------
(* Run                                                                     *)

\* The stream carries what the wallet reports from here on, nothing older.
OpenStream ==
    /\ phase = "connect"
    /\ phase' = "stream" /\ connected' = TRUE
    /\ UNCHANGED <<now, database, wallet, stream, todo, batch, step, job,
                   faults, stops>>

handleEvent ==
    /\ phase = "stream" /\ step = "none" /\ stream # <<>>
    /\ stream' = Tail(stream)
    /\ IF Head(stream).tx \in InboundTxs
         THEN Begin(Head(stream))
         ELSE UNCHANGED <<step, job>>
    /\ UNCHANGED <<now, database, wallet, connected, supervisor, faults, stops>>

\* The connection to the wallet breaks or ends ...
StreamEnds ==
    /\ connected
    /\ stops < MaxStops
    /\ connected' = FALSE /\ stops' = stops + 1
    /\ UNCHANGED <<now, database, wallet, stream, supervisor, step, job, faults>>

\* ... and Run's select sees it: at once when there is an error, whatever is
\* still buffered, and after the buffered events otherwise.
RunReturns ==
    /\ phase = "stream" /\ step = "none" /\ ~connected
    /\ phase' = "start" /\ stream' = <<>>
    /\ UNCHANGED <<now, database, wallet, connected, todo, batch, step, job,
                   faults, stops>>

Run == OpenStream \/ handleEvent \/ RunReturns

\* The process stops, by a crash or a signal, and is started again.
Restart ==
    /\ stops < MaxStops
    /\ stops' = stops + 1
    /\ connected' = FALSE /\ stream' = <<>>
    /\ phase' = "start" /\ todo' = {} /\ batch' = {}
    /\ Return
    /\ UNCHANGED <<now, database, wallet, faults>>

----------------------------------------------------------------------------
watcher == handleTransaction \/ Reconcile \/ Run

Next ==
    \/ watcher
    \/ ExpireStale
    \/ Tick
    \/ \E t \in Txs, s \in WalletStatuses : WalletReports(t, s)
    \/ StreamEnds
    \/ Restart

Spec == Init /\ [][Next]_vars

\* The watcher goroutine waits on nothing but the wallet and the database, and the
\* sweep is driven by a ticker.  A call of the wallet or the database returns here, with
\* an answer or an error (one that never does is a subject of Supervisor); the wallet
\* need report nothing, and the clock, the network and the process may do as they like.
FairSpec == Spec /\ WF_vars(watcher) /\ WF_vars(ExpireStale)

----------------------------------------------------------------------------
(* Properties                                                              *)

\* Every variable has its type, a call in progress has its invoice once it has
\* found one, and the goroutine is in one place of its program at a time.
TypeOK ==
    /\ now \in Nat
    /\ invoices \in [Invoices -> Invoice]
    /\ notices \in [Invoices -> Seq(Payload)]
    /\ chain \in [Txs -> WalletStatuses \cup {Unknown}]
    /\ reported \in [Txs -> SUBSET WalletStatuses]
    /\ counted \in [Txs -> Nat]
    /\ connected \in BOOLEAN
    /\ stream \in Seq(WalletEvent)
    /\ phase \in {"start", "reconcile", "connect", "stream"}
    /\ todo \in SUBSET Invoices
    /\ batch \in SUBSET WalletEvent
    /\ step \in {"none", "lookup", "add", "write"}
    /\ step = "none" => job = NoJob
    /\ step # "none" => job \in Job
    /\ step \in {"add", "write"} => theInvoice \in Invoices
    /\ changes \in Nat /\ faults \in Nat /\ stops \in Nat

\* C2: whatever was swept, failed, repeated or restarted in between, an invoice
\* is confirmed only when its running total covers the invoiced amount.
ConfirmedOnlyWhenCovered ==
    \A i \in Invoices :
        invoices[i].status = "confirmed" => invoices[i].received >= Amount[i]

\* confirmed_at is set exactly on confirmed invoices: ExpireStale writes the
\* status alone, and never on a row that has the date.
ConfirmedAtIffConfirmed ==
    \A i \in Invoices :
        invoices[i].confirmed <=> invoices[i].status = "confirmed"

LastNotice(i) == notices[i][Len(notices[i])]

\* The merchant's newest delivery row of an invoice carries the status the
\* gateway shows for it, unless that status is one no webhook exists for.
LastNoticeMatchesStatus ==
    WebhookConfigured =>
      \A i \in Invoices :
        invoices[i].status \notin {"pending", "expired"} =>
          /\ notices[i] # <<>>
          /\ LastNotice(i).status = invoices[i].status

\* No two consecutive delivery rows of an invoice announce the same status:
\* duplicated and re-emitted events, and restarts, create no second row.
NoRepeatedNotice ==
    \A i \in Invoices : \A k \in 1..(Len(notices[i]) - 1) :
        notices[i][k].status # notices[i][k + 1].status

\* The terminal guard: once confirmed or rejected, an invoice's status, date,
\* total and delivery rows stay as they are, through late events, duplicates,
\* Reconcile and the sweep.
SettledIsFinal ==
    [][\A i \in Invoices :
         invoices[i].status \in {"confirmed", "rejected"} =>
           invoices'[i] = invoices[i] /\ notices'[i] = notices[i]]_vars

\* The confirm-time TTL check: an invoice becomes confirmed only by a call that
\* read the clock, after counting the payment, no later than expires_at.
ConfirmsOnlyInTime ==
    [][\A i \in Invoices :
         invoices[i].status # "confirmed" /\ invoices'[i].status = "confirmed"
           => job.checkedAt <= ExpiresAt[i]]_vars

\* A new delivery row tells what the invoice row holds at that moment: its
\* status, and a total that agrees with the verdict on it.
NoticeTellsLedger ==
    [][\A i \in Invoices : notices'[i] # notices[i] =>
         LET n == notices'[i][Len(notices'[i])] IN
         /\ n.status = invoices'[i].status
         /\ n.received = invoices'[i].received
         /\ n.status = "confirmed" => n.received >= Amount[i]
         /\ n.status = "underpaid" => n.received < Amount[i]]_vars

Evidence(i, statuses) ==
    \E t \in InboundTxs : PaymentOf[t] = i /\ reported[t] \cap statuses # {}

\* A verdict rests on what the wallet said of an inbound transaction that pays
\* this very invoice: a confirmation on a confirmed status, a rejection on one
\* that is no in-progress status, a counted amount on a confirmed one.
VerdictHasEvidence ==
    /\ \A i \in Invoices :
         /\ invoices[i].status = "confirmed" =>
              Evidence(i, {"MINED_CONFIRMED", "ONE_SIDED_CONFIRMED"})
         /\ invoices[i].status = "rejected" =>
              Evidence(i, {"REJECTED", "NOT_FOUND", "FUTURE"})
    /\ \A t \in Txs : counted[t] > 0 =>
         t \in InboundTxs /\
         reported[t] \cap {"MINED_CONFIRMED", "ONE_SIDED_CONFIRMED"} # {}

\* The invoices and webhook_deliveries tables as an InvoiceLifecycle.
Lifecycle == INSTANCE InvoiceLifecycle WITH
    status <- [i \in Invoices |-> invoices[i].status],
    announced <- [i \in Invoices |->
                    [k \in 1..Len(notices[i]) |-> notices[i][k].status]]

\* The watcher, the sweep and every failure of either implement the lifecycle
\* when a callback URL is configured:
\* each transition is announced in the step that makes it, once, in order, and
\* nothing follows a verdict.
ImplementsLifecycle == Lifecycle!Spec

\* An invoice nobody pays in time does not stay open: the sweep, or the watcher,
\* takes it out of pending and seen.
StaleLeaves ==
    \A i \in Invoices : Stale(i) ~> ~Stale(i)

ConfirmedOnChain(t) ==
    /\ t \in InboundTxs /\ PaymentOf[t] \in Invoices
    /\ Verdict(chain[t]).status = "confirmed"

Announced(t) ==
    \E k \in 1..Len(stream) :
        stream[k].tx = t /\ Verdict(stream[k].status).status = "confirmed"

Settled(t) ==
    \/ ~ConfirmedOnChain(t)
    \/ counted[t] > 0
    \/ isTerminalStatus(invoices[PaymentOf[t]].status)

\* A confirmed payment the wallet announces on the open stream, or already
\* holds when Reconcile starts, is counted unless its invoice is closed, however
\* often the stream breaks or the process restarts meanwhile.  A call that fails may
\* drop it until the next Reconcile starts: from that moment on the promise holds again.
KnownPaymentIsCounted ==
    \A t \in Txs, n \in 0..MaxFaults :
        (ConfirmedOnChain(t) /\ (phase = "start" \/ Announced(t)) /\ faults = n)
            ~> (Settled(t) \/ faults > n)
=============================================================================
