--------------------------------- MODULE Orders ---------------------------------
(***************************************************************************)
(* POST /invoice: the handler of cmd/gateway and invoice.Store.Create.     *)
(*                                                                         *)
(* Every request runs in a goroutine of its own.  Create looks for an      *)
(* active invoice of the order, asks the wallet for an address, and only   *)
(* then inserts; nothing in the database forbids a second active invoice   *)
(* of the order.  The cart may give up on a request and send the next one  *)
(* at any time; the handler of the first goes on.                          *)
(***************************************************************************)
EXTENDS Integers, FiniteSets

CONSTANTS
    Requests,       \* requests to the route; also the ids of what they insert
    OrderRefs,      \* order references of the cart
    NoRef,          \* the empty order reference
    NoInvoice,      \* not an invoice
    MaxInt64,       \* the largest signed integer of the database's width
    MaxFaults,      \* bound on failed statements and wallet calls
    MaxRestarts     \* bound on restarts of the process

ASSUME OrdersAssumption ==
    /\ NoRef \notin OrderRefs
    /\ NoInvoice \notin Requests
    /\ MaxInt64 \in Nat \ {0}
    /\ MaxFaults \in Nat /\ MaxRestarts \in Nat

VARIABLES
    invoices,   \* the table, by id; a row that is not there has status "none"
    pc,         \* where each request's handler is
    asked,      \* the body of each request
    created,    \* created_at of the row a handler is about to insert
    answer,     \* the status of its response, and the invoice it carries
    clock,      \* time.Now(), as far as created_at tells rows apart
    visible,    \* history: the rows in the table when a handler looked
    reopened,   \* history: the rows that became active again
    faults, restarts

handlers == <<pc, asked, created, answer>>
bounds == <<faults, restarts>>
vars == <<invoices, handlers, clock, visible, reopened, bounds>>

\* What an amount may be: uint64 in Go and in JSON, BIGINT in the database.
UInt64 == 0..(2 * MaxInt64 + 1)
int64(n) == IF n > MaxInt64 THEN n - 2 * (MaxInt64 + 1) ELSE n

\* "open" stands for seen and underpaid, "closed" for the terminal statuses.
Status == {"none", "pending", "open", "closed"}
Invoice == [order : OrderRefs \cup {NoRef}, amount : 0..MaxInt64,
            status : Status, created : Nat]
Body == [order : OrderRefs \cup {NoRef}, amount : UInt64]
Answer == [code : {0, 201, 400, 502}, invoice : Requests \cup {NoInvoice}]

Init ==
    /\ invoices = [r \in Requests |->
                     [order |-> NoRef, amount |-> 0, status |-> "none",
                      created |-> 0]]
    /\ pc = [r \in Requests |-> "idle"]
    /\ asked = [r \in Requests |-> [order |-> NoRef, amount |-> 0]]
    /\ created = [r \in Requests |-> 0]
    /\ answer = [r \in Requests |-> [code |-> 0, invoice |-> NoInvoice]]
    /\ clock = 0
    /\ visible = [r \in Requests |-> {}]
    /\ reopened = {}
    /\ faults = 0 /\ restarts = 0

Fail == faults < MaxFaults /\ faults' = faults + 1

----------------------------------------------------------------------------
(* The handler                                                             *)

\* The response of request r, and the end of its handler.
Respond(r, code, i) ==
    /\ pc' = [pc EXCEPT ![r] = "done"]
    /\ answer' = [answer EXCEPT ![r] = [code |-> code, invoice |-> i]]

\* Mutant: no upper bound on the amount.
Valid_NoUpperBound(body) == body.order # NoRef /\ body.amount # 0

Valid(body) ==
    /\ body.order # NoRef
    /\ body.amount # 0 /\ body.amount <= MaxInt64

\* A request arrives; a body that is not valid is answered at once.  (One that
\* cannot be decoded ends like one without an order reference.)
Post(r, body) ==
    /\ pc[r] = "idle"
    /\ asked' = [asked EXCEPT ![r] = body]
    /\ IF Valid(body) THEN pc' = [pc EXCEPT ![r] = "lookup"] /\ UNCHANGED answer
                      ELSE Respond(r, 400, NoInvoice)
    /\ UNCHANGED <<invoices, created, clock, visible, reopened, bounds>>

Exists(i) == invoices[i].status # "none"
Active(i) == invoices[i].status \in {"pending", "open"}

\* Mutant: an invoice a payment was seen for is not found.
GetActiveByOrderRef_PendingOnly(o) ==
    {i \in Requests : invoices[i].status = "pending" /\ invoices[i].order = o}

\* The newest active invoice of the order, or none.
GetActiveByOrderRef(o) ==
    LET active == {i \in Requests : Active(i) /\ invoices[i].order = o} IN
    {i \in active : \A j \in active : invoices[j].created <= invoices[i].created}

Look(r) ==
    /\ pc[r] = "lookup"
    /\ visible' = [visible EXCEPT ![r] = {i \in Requests : Exists(i)}]
    /\ UNCHANGED <<invoices, asked, created, clock, reopened, restarts>>

\* The existing invoice is the answer, whatever amount was asked for this time.
ReturnExisting(r) ==
    /\ Look(r)
    /\ \E i \in GetActiveByOrderRef(asked[r].order) : Respond(r, 201, i)
    /\ UNCHANGED faults

FindNone(r) ==
    /\ Look(r)
    /\ GetActiveByOrderRef(asked[r].order) = {}
    /\ pc' = [pc EXCEPT ![r] = "resolve"]
    /\ UNCHANGED <<answer, faults>>

\* The query fails, also because the cart is gone and the context cancelled.
LookupFails(r) ==
    /\ pc[r] = "lookup"
    /\ Fail
    /\ Respond(r, 502, NoInvoice)
    /\ UNCHANGED <<invoices, asked, created, clock, visible, reopened, restarts>>

\* The wallet names an address, after as long as it likes: the call takes no
\* context.
resolveAddress(r) ==
    /\ pc[r] = "resolve"
    /\ clock' = clock + 1
    /\ created' = [created EXCEPT ![r] = clock + 1]
    /\ pc' = [pc EXCEPT ![r] = "insert"]
    /\ UNCHANGED <<invoices, asked, answer, visible, reopened, bounds>>

resolveAddressFails(r) ==
    /\ pc[r] = "resolve"
    /\ Fail
    /\ Respond(r, 502, NoInvoice)
    /\ UNCHANGED <<invoices, asked, created, clock, visible, reopened, restarts>>

InsertRow(r) ==
    invoices' = [invoices EXCEPT ![r] =
                   [order |-> asked[r].order, amount |-> int64(asked[r].amount),
                    status |-> "pending", created |-> created[r]]]

Insert(r) ==
    /\ pc[r] = "insert"
    /\ InsertRow(r)
    /\ Respond(r, 201, r)
    /\ UNCHANGED <<asked, created, clock, visible, reopened, bounds>>

\* Mutant: the error of the INSERT is ignored.
InsertFails_Ignored(r) ==
    /\ pc[r] = "insert"
    /\ Fail
    /\ InsertRow(r) \/ UNCHANGED invoices
    /\ Respond(r, 201, r)
    /\ UNCHANGED <<asked, created, clock, visible, reopened, restarts>>

\* The INSERT fails, or its reply is lost after it committed.
InsertFails(r) ==
    /\ pc[r] = "insert"
    /\ Fail
    /\ InsertRow(r) \/ UNCHANGED invoices
    /\ Respond(r, 502, NoInvoice)
    /\ UNCHANGED <<asked, created, clock, visible, reopened, restarts>>

CreateInvoice(r) ==
    \/ ReturnExisting(r) \/ FindNone(r) \/ LookupFails(r)
    \/ resolveAddress(r) \/ resolveAddressFails(r)
    \/ Insert(r) \/ InsertFails(r)

----------------------------------------------------------------------------
(* The watcher, the sweep and the process                                  *)

\* A payment is seen, or a status that ends the invoice is written.
Advance(i, s) ==
    /\ Active(i)
    /\ s \in {"open", "closed"} /\ s # invoices[i].status
    /\ invoices' = [invoices EXCEPT ![i].status = s]
    /\ UNCHANGED <<handlers, clock, visible, reopened, bounds>>

\* The watcher overwrites the sweep's expired (see Watcher), once per invoice.
Reopen(i) ==
    /\ invoices[i].status = "closed"
    /\ i \notin reopened
    /\ invoices' = [invoices EXCEPT ![i].status = "open"]
    /\ reopened' = reopened \cup {i}
    /\ UNCHANGED <<handlers, clock, visible, bounds>>

\* The process stops; the requests it was handling are never answered.
Restart ==
    /\ restarts < MaxRestarts
    /\ restarts' = restarts + 1
    /\ pc' = [r \in Requests |-> IF pc[r] = "idle" THEN "idle" ELSE "done"]
    /\ UNCHANGED <<invoices, asked, created, answer, clock, visible, reopened,
                   faults>>

Next ==
    \/ \E r \in Requests, body \in Body : Post(r, body)
    \/ \E r \in Requests : CreateInvoice(r)
    \/ \E i \in Requests : Reopen(i) \/ \E s \in Status : Advance(i, s)
    \/ Restart

Spec == Init /\ [][Next]_vars

----------------------------------------------------------------------------
(* Properties                                                              *)

\* Every variable has its type; no amount became negative in the database.
TypeOK ==
    /\ invoices \in [Requests -> Invoice]
    /\ pc \in [Requests -> {"idle", "lookup", "resolve", "insert", "done"}]
    /\ asked \in [Requests -> Body]
    /\ created \in [Requests -> Nat]
    /\ answer \in [Requests -> Answer]
    /\ clock \in Nat
    /\ visible \in [Requests -> SUBSET Requests]
    /\ reopened \in SUBSET Requests
    /\ faults \in Nat /\ restarts \in Nat

\* Idempotency on order_ref: two invoices of an order are active together only
\* if each was inserted by a request that looked before the other was there,
\* or if one was closed and became active again.  Retries that follow one
\* another, after lost answers, lost replies and restarts, get one invoice.
SecondActiveNeedsOverlap ==
    \A i, j \in Requests :
        /\ i # j /\ Active(i) /\ Active(j)
        /\ invoices[i].order = invoices[j].order
        => \/ i \notin visible[j] /\ j \notin visible[i]
           \/ {i, j} \cap reopened # {}

\* An invoice the cart is given exists, is its order's, and asks for an amount
\* that a request for the order asked for, unchanged by the database.
AnsweredInvoiceIsTheOrders ==
    \A r \in Requests : answer[r].code = 201 =>
        LET i == answer[r].invoice IN
        /\ Exists(i)
        /\ invoices[i].order = asked[r].order
        /\ invoices[i].amount = asked[i].amount
=============================================================================
