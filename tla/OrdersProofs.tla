------------------------------ MODULE OrdersProofs ------------------------------
(***************************************************************************)
(* Theorems about Orders, for any set of requests, finite or not, and any  *)
(* width of the database's integers.                                       *)
(*                                                                         *)
(* A row never changes hands: it is inserted by its own request, keeps     *)
(* that request's order and amount, and is there for good.  So a handler   *)
(* that found no active invoice of its order knows that those it saw stay  *)
(* inactive unless the watcher reopens them, and what it inserts can only  *)
(* be doubled by a row that was not there when it looked.                  *)
(***************************************************************************)
EXTENDS Orders, WellFoundedInduction, TLAPS

Working == {"lookup", "resolve", "insert"}

\* Only valid bodies get past the handler's first lines.
AskedInv == \A r \in Requests : pc[r] \in Working => Valid(asked[r])

\* A row is what its request asked for, inserted as the request ended.
RowsInv ==
    \A r \in Requests :
        /\ created[r] <= clock
        /\ Exists(r) =>
             /\ pc[r] = "done"
             /\ invoices[r].order = asked[r].order
             /\ invoices[r].amount = asked[r].amount
             /\ invoices[r].created <= clock

AnswersInv ==
    \A r \in Requests :
        answer[r].code = 201 => pc[r] = "done" /\ answer[r].invoice \in Requests

VisibleInv == \A r \in Requests : \A i \in visible[r] : Exists(i)

\* What a handler knows once it has looked, and what holds of the row it inserts.
Alone(r) ==
    \A i \in visible[r] :
        invoices[i].order = asked[r].order => ~Active(i) \/ i \in reopened

AloneInv ==
    \A r \in Requests : pc[r] \in {"resolve", "insert"} \/ Exists(r) => Alone(r)

OrdersInv ==
    /\ TypeOK
    /\ AskedInv /\ RowsInv /\ AnswersInv /\ VisibleInv /\ AloneInv
    /\ AnsweredInvoiceIsTheOrders

----------------------------------------------------------------------------
(* The lookup                                                              *)

\* Any nonempty set of naturals has a least element.
LEMMA LeastElement ==
    ASSUME NEW T \in SUBSET Nat, T # {}
    PROVE  \E x \in T : \A y \in T : x <= y
<1> DEFINE Less == {s \in Nat \X Nat : s[1] < s[2]}
<1>1. IsWellFoundedOn(Less, Nat)
    BY NatLessThanWellFounded, Zenon DEF OpToRel
<1> HIDE DEF Less
<1>2. PICK x \in T : \A y \in T : <<y, x>> \notin Less
    BY <1>1, WFMin
<1>3. ASSUME NEW y \in T
      PROVE  x <= y
    <2>1. x \in Nat /\ y \in Nat
        OBVIOUS
    <2>2. <<y, x>> \in Nat \X Nat /\ <<y, x>>[1] = y /\ <<y, x>>[2] = x
        BY <2>1
    <2>3. ~(y < x)
        BY <1>2, <2>2 DEF Less
    <2> QED
        BY <2>1, <2>3
<1> QED
    BY <1>3

\* The query orders by created_at and takes one row: it finds none only if the
\* order has no active invoice.
LEMMA LookupFindsActive ==
    ASSUME TypeOK, NEW o, NEW j \in Requests, Active(j), invoices[j].order = o,
           \A i \in Requests : Exists(i) => invoices[i].created <= clock
    PROVE  GetActiveByOrderRef(o) # {}
<1> DEFINE active == {i \in Requests : Active(i) /\ invoices[i].order = o}
           age(i) == clock - invoices[i].created
           T == {age(i) : i \in active}
<1>1. \A i \in active : invoices[i].created \in Nat /\ age(i) \in Nat
    BY DEF TypeOK, Invoice, Active, Exists
<1>2. T \in SUBSET Nat /\ T # {}
    BY <1>1
<1>3. PICK x \in T : \A y \in T : x <= y
    BY <1>2, LeastElement
<1>4. PICK i \in active : x = age(i)
    OBVIOUS
<1>5. ASSUME NEW k \in active
      PROVE  invoices[k].created <= invoices[i].created
    <2>1. age(i) <= age(k)
        BY <1>3, <1>4
    <2>2. clock \in Nat /\ invoices[k].created \in Nat /\ invoices[i].created \in Nat
        BY <1>1 DEF TypeOK
    <2> QED
        BY <2>1, <2>2
<1>6. i \in GetActiveByOrderRef(o)
    BY <1>5 DEF GetActiveByOrderRef
<1> QED
    BY <1>6

----------------------------------------------------------------------------
(* Types                                                                   *)

LEMMA OrdersTypeInit == Init => TypeOK
    BY OrdersAssumption DEF Init, TypeOK, Invoice, Status, Body, Answer, UInt64

LEMMA OrdersCases ==
    ASSUME [Next]_vars
    PROVE  \/ UNCHANGED vars
           \/ \E r \in Requests, body \in Body : Post(r, body)
           \/ \E r \in Requests : ReturnExisting(r) \/ FindNone(r)
           \/ \E r \in Requests : LookupFails(r) \/ resolveAddressFails(r)
           \/ \E r \in Requests : resolveAddress(r)
           \/ \E r \in Requests : Insert(r) \/ InsertFails(r)
           \/ \E i \in Requests : Reopen(i) \/ \E s \in Status : Advance(i, s)
           \/ Restart
    BY DEF Next, CreateInvoice

LEMMA RespondTypes ==
    ASSUME TypeOK, NEW r \in Requests, NEW code \in {0, 201, 400, 502},
           NEW i \in Requests \cup {NoInvoice}, Respond(r, code, i)
    PROVE  /\ pc' \in [Requests -> {"idle", "lookup", "resolve", "insert", "done"}]
           /\ answer' \in [Requests -> Answer]
<1>1. [code |-> code, invoice |-> i] \in Answer
    BY DEF Answer
<1> QED
    BY <1>1 DEF Respond, TypeOK

\* The conversion to the database's type leaves a valid amount as it is.
LEMMA ValidAmountFits ==
    ASSUME NEW body \in Body, Valid(body)
    PROVE  int64(body.amount) = body.amount /\ body.amount \in 0..MaxInt64
    BY OrdersAssumption DEF Body, UInt64, Valid, int64

LEMMA OrdersTypeNext ==
    ASSUME TypeOK, AskedInv, [Next]_vars
    PROVE  TypeOK'
<1> USE DEF handlers, bounds
<1>1. ASSUME NEW r \in Requests, NEW body \in Body, Post(r, body)
      PROVE  TypeOK'
    <2>1. /\ pc' \in [Requests -> {"idle", "lookup", "resolve", "insert", "done"}]
          /\ answer' \in [Requests -> Answer]
        <3>1. CASE Valid(body)
            BY <1>1, <3>1 DEF Post, TypeOK
        <3>2. CASE ~Valid(body)
            BY <1>1, <3>2, RespondTypes DEF Post
        <3> QED
            BY <3>1, <3>2
    <2> QED
        BY <1>1, <2>1 DEF Post, TypeOK
<1>2. ASSUME NEW r \in Requests, ReturnExisting(r)
      PROVE  TypeOK'
    <2>1. PICK i \in Requests : Respond(r, 201, i)
        BY <1>2 DEF ReturnExisting, GetActiveByOrderRef
    <2> QED
        BY <1>2, <2>1, RespondTypes DEF ReturnExisting, Look, TypeOK
<1>3. ASSUME NEW r \in Requests, FindNone(r)
      PROVE  TypeOK'
    BY <1>3 DEF FindNone, Look, TypeOK
<1>4. ASSUME NEW r \in Requests, LookupFails(r) \/ resolveAddressFails(r)
      PROVE  TypeOK'
    BY <1>4, RespondTypes DEF LookupFails, resolveAddressFails, Fail, TypeOK
<1>5. ASSUME NEW r \in Requests, resolveAddress(r)
      PROVE  TypeOK'
    BY <1>5 DEF resolveAddress, TypeOK
<1>6. ASSUME NEW r \in Requests, Insert(r) \/ InsertFails(r)
      PROVE  TypeOK'
    <2>1. Valid(asked[r])
        BY <1>6 DEF Insert, InsertFails, AskedInv, Working
    <2>2. [order |-> asked[r].order, amount |-> int64(asked[r].amount),
           status |-> "pending", created |-> created[r]] \in Invoice
        BY <2>1, ValidAmountFits DEF TypeOK, Invoice, Status, Body
    <2>3. invoices' \in [Requests -> Invoice]
        BY <1>6, <2>2 DEF Insert, InsertFails, InsertRow, TypeOK
    <2>4. faults' \in Nat
        BY <1>6 DEF Insert, InsertFails, Fail, TypeOK
    <2> QED
        BY <1>6, <2>3, <2>4, RespondTypes DEF Insert, InsertFails, TypeOK
<1>7. ASSUME NEW i \in Requests, NEW s \in Status, Advance(i, s)
      PROVE  TypeOK'
    <2>1. [invoices[i] EXCEPT !.status = s] \in Invoice
        BY DEF TypeOK, Invoice
    <2> QED
        BY <1>7, <2>1 DEF Advance, TypeOK
<1>8. ASSUME NEW i \in Requests, Reopen(i)
      PROVE  TypeOK'
    <2>1. [invoices[i] EXCEPT !.status = "open"] \in Invoice
        BY DEF TypeOK, Invoice, Status
    <2> QED
        BY <1>8, <2>1 DEF Reopen, TypeOK
<1>9. CASE Restart
    BY <1>9 DEF Restart, TypeOK
<1>10. CASE UNCHANGED vars
    BY <1>10 DEF vars, TypeOK
<1> QED
    BY <1>1, <1>2, <1>3, <1>4, <1>5, <1>6, <1>7, <1>8, <1>9, <1>10, OrdersCases
----------------------------------------------------------------------------
(* What a step does to a handler and to a row                              *)

Idle(r) == UNCHANGED <<pc[r], asked[r], created[r], answer[r], visible[r]>>

\* From where to where a step may take the handler of r.
HandlerStep(r) ==
    \/ Idle(r)
    \/ /\ pc[r] = "idle"
       /\ \/ pc'[r] = "lookup" /\ Valid(asked'[r]) /\ answer'[r] = answer[r]
          \/ pc'[r] = "done" /\ answer'[r].code = 400
       /\ created'[r] = created[r] /\ visible'[r] = visible[r]
    \/ /\ pc[r] = "lookup"
       /\ asked'[r] = asked[r] /\ created'[r] = created[r] /\ invoices' = invoices
       /\ visible'[r] = {i \in Requests : Exists(i)}
       /\ \/ /\ pc'[r] = "done" /\ answer'[r].code = 201
             /\ answer'[r].invoice \in GetActiveByOrderRef(asked[r].order)
          \/ /\ pc'[r] = "resolve" /\ answer'[r] = answer[r]
             /\ GetActiveByOrderRef(asked[r].order) = {}
    \/ /\ pc[r] = "resolve" /\ pc'[r] = "insert"
       /\ created'[r] = clock + 1 /\ clock' = clock + 1
       /\ asked'[r] = asked[r] /\ answer'[r] = answer[r] /\ visible'[r] = visible[r]
    \/ /\ pc[r] \in Working /\ pc'[r] = "done"
       /\ asked'[r] = asked[r] /\ created'[r] = created[r] /\ visible'[r] = visible[r]
       /\ \/ answer'[r].code = 502
          \/ answer'[r] = answer[r]
          \/ /\ answer'[r].code = 201 /\ answer'[r].invoice = r
             /\ pc[r] = "insert" /\ invoices'[r].status = "pending"
    \/ /\ pc[r] = "done" /\ pc'[r] = "done"
       /\ asked'[r] = asked[r] /\ created'[r] = created[r] /\ visible'[r] = visible[r]
       /\ answer'[r] = answer[r]

\* What a step may make of the row of i.
RowStep(i) ==
    \/ invoices'[i] = invoices[i]
    \/ /\ pc[i] = "insert" /\ pc'[i] = "done"
       /\ invoices'[i] = [order |-> asked[i].order, amount |-> int64(asked[i].amount),
                          status |-> "pending", created |-> created[i]]
    \/ Active(i) /\ \E s \in {"open", "closed"} :
                        invoices'[i] = [invoices[i] EXCEPT !.status = s]
    \/ /\ invoices[i].status = "closed" /\ i \in reopened'
       /\ invoices'[i] = [invoices[i] EXCEPT !.status = "open"]

LEMMA HandlerSteps ==
    ASSUME TypeOK, [Next]_vars, NEW r \in Requests
    PROVE  HandlerStep(r)
<1> USE DEF handlers, bounds, Idle, Working
<1>1. ASSUME NEW q \in Requests, NEW body \in Body, Post(q, body)
      PROVE  HandlerStep(r)
    <2>1. CASE Valid(body)
        BY <1>1, <2>1 DEF Post, HandlerStep, TypeOK
    <2>2. CASE ~Valid(body)
        BY <1>1, <2>2 DEF Post, Respond, HandlerStep, TypeOK
    <2> QED
        BY <2>1, <2>2
<1>2. ASSUME NEW q \in Requests, ReturnExisting(q)
      PROVE  HandlerStep(r)
    <2>1. PICK i \in GetActiveByOrderRef(asked[q].order) : Respond(q, 201, i)
        BY <1>2 DEF ReturnExisting
    <2> QED
        BY <1>2, <2>1 DEF ReturnExisting, Look, Respond, HandlerStep, TypeOK
<1>3. ASSUME NEW q \in Requests, FindNone(q)
      PROVE  HandlerStep(r)
    BY <1>3 DEF FindNone, Look, HandlerStep, TypeOK
<1>4. ASSUME NEW q \in Requests, LookupFails(q) \/ resolveAddressFails(q)
      PROVE  HandlerStep(r)
    BY <1>4 DEF LookupFails, resolveAddressFails, Respond, HandlerStep, TypeOK
<1>5. ASSUME NEW q \in Requests, resolveAddress(q)
      PROVE  HandlerStep(r)
    BY <1>5 DEF resolveAddress, HandlerStep, TypeOK
<1>6. ASSUME NEW q \in Requests, Insert(q)
      PROVE  HandlerStep(r)
    <2>1. invoices'[q].status = "pending"
        BY <1>6 DEF Insert, InsertRow, TypeOK
    <2> QED
        BY <1>6, <2>1 DEF Insert, Respond, HandlerStep, TypeOK
<1>7. ASSUME NEW q \in Requests, InsertFails(q)
      PROVE  HandlerStep(r)
    BY <1>7 DEF InsertFails, Respond, HandlerStep, TypeOK
<1>8. CASE Restart
    BY <1>8 DEF Restart, HandlerStep, TypeOK
<1>9. ASSUME \/ UNCHANGED vars
             \/ \E i \in Requests : Reopen(i) \/ \E s \in Status : Advance(i, s)
      PROVE  HandlerStep(r)
    BY <1>9 DEF vars, Reopen, Advance, HandlerStep
<1> QED
    BY <1>1, <1>2, <1>3, <1>4, <1>5, <1>6, <1>7, <1>8, <1>9, OrdersCases

LEMMA RowSteps ==
    ASSUME TypeOK, [Next]_vars, NEW i \in Requests
    PROVE  RowStep(i) /\ reopened \subseteq reopened' /\ clock <= clock'
<1> USE DEF handlers, bounds
<1>1. ASSUME NEW q \in Requests, Insert(q) \/ InsertFails(q)
      PROVE  RowStep(i)
    <2>1. pc'[q] = "done" /\ pc[q] = "insert"
        BY <1>1 DEF Insert, InsertFails, Respond, TypeOK
    <2> QED
        BY <1>1, <2>1 DEF Insert, InsertFails, InsertRow, RowStep, TypeOK
<1>2. ASSUME NEW q \in Requests, NEW s \in Status, Advance(q, s)
      PROVE  RowStep(i)
    BY <1>2 DEF Advance, RowStep, TypeOK
<1>3. ASSUME NEW q \in Requests, Reopen(q)
      PROVE  RowStep(i)
    BY <1>3 DEF Reopen, RowStep, TypeOK
<1>4. ASSUME ~\E q \in Requests : Insert(q) \/ InsertFails(q) \/ Reopen(q)
                                  \/ \E s \in Status : Advance(q, s)
      PROVE  invoices' = invoices
    BY <1>4, OrdersCases
    DEF vars, Post, ReturnExisting, FindNone, Look, LookupFails, resolveAddressFails,
        resolveAddress, Restart
<1>5. reopened \subseteq reopened' /\ clock' \in {clock, clock + 1}
    BY OrdersCases
    DEF vars, Post, ReturnExisting, FindNone, Look, LookupFails, resolveAddressFails,
        resolveAddress, Restart, Insert, InsertFails, Reopen, Advance
<1>6. RowStep(i)
    BY <1>1, <1>2, <1>3, <1>4 DEF RowStep
<1> QED
    BY <1>5, <1>6 DEF TypeOK
----------------------------------------------------------------------------
(* Rows are there for good                                                 *)

LEMMA RowStays ==
    ASSUME TypeOK, RowsInv, [Next]_vars, NEW i \in Requests, Exists(i)
    PROVE  /\ Exists(i)'
           /\ pc[i] = "done" /\ pc'[i] = "done"
           /\ invoices'[i].order = invoices[i].order
           /\ invoices'[i].amount = invoices[i].amount
           /\ invoices'[i].created = invoices[i].created
           /\ asked'[i] = asked[i] /\ visible'[i] = visible[i]
           /\ answer'[i] = answer[i]
           /\ ~Active(i) \/ i \in reopened => ~Active(i)' \/ i \in reopened'
<1>1. pc[i] = "done" /\ invoices[i] \in Invoice
    BY DEF RowsInv, TypeOK
<1>2. /\ pc'[i] = "done" /\ asked'[i] = asked[i] /\ visible'[i] = visible[i]
      /\ answer'[i] = answer[i]
    BY <1>1, HandlerSteps DEF HandlerStep, Idle, Working
<1>3. /\ RowStep(i) /\ reopened \subseteq reopened'
    BY RowSteps
<1>4. CASE invoices'[i] = invoices[i]
    BY <1>1, <1>2, <1>3, <1>4 DEF Exists, Active
<1>5. ASSUME Active(i), NEW s \in {"open", "closed"},
             invoices'[i] = [invoices[i] EXCEPT !.status = s]
      PROVE  /\ Exists(i)'
             /\ invoices'[i].order = invoices[i].order
             /\ invoices'[i].amount = invoices[i].amount
             /\ invoices'[i].created = invoices[i].created
    BY <1>1, <1>5 DEF Exists, Active, Invoice
<1>6. CASE /\ invoices[i].status = "closed" /\ i \in reopened'
           /\ invoices'[i] = [invoices[i] EXCEPT !.status = "open"]
    BY <1>1, <1>2, <1>6 DEF Exists, Active, Invoice
<1> QED
    BY <1>1, <1>2, <1>3, <1>4, <1>5, <1>6 DEF RowStep

LEMMA RowAppears ==
    ASSUME TypeOK, AskedInv, RowsInv, [Next]_vars, NEW i \in Requests,
           ~Exists(i), Exists(i)'
    PROVE  /\ pc[i] = "insert" /\ pc'[i] = "done"
           /\ invoices'[i].order = asked[i].order
           /\ invoices'[i].amount = asked[i].amount
           /\ invoices'[i].created = created[i]
           /\ asked'[i] = asked[i] /\ visible'[i] = visible[i]
<1>1. /\ pc[i] = "insert" /\ pc'[i] = "done"
      /\ invoices'[i] = [order |-> asked[i].order, amount |-> int64(asked[i].amount),
                         status |-> "pending", created |-> created[i]]
    BY RowSteps DEF RowStep, Exists, Active
<1>2. asked'[i] = asked[i] /\ visible'[i] = visible[i]
    BY <1>1, HandlerSteps DEF HandlerStep, Idle, Working
<1>3. asked[i] \in Body /\ Valid(asked[i])
    BY <1>1 DEF TypeOK, AskedInv, Working
<1> QED
    BY <1>1, <1>2, <1>3, ValidAmountFits

----------------------------------------------------------------------------
(* The invariant                                                           *)

LEMMA InitOrdersInv == Init => OrdersInv
<1> SUFFICES ASSUME Init PROVE OrdersInv
    OBVIOUS
<1>1. TypeOK
    BY OrdersTypeInit
<1> QED
    BY <1>1
    DEF Init, OrdersInv, AskedInv, RowsInv, AnswersInv, VisibleInv, AloneInv, Alone,
        AnsweredInvoiceIsTheOrders, Working, Exists

LEMMA NextOrdersInv ==
    ASSUME OrdersInv, [Next]_vars
    PROVE  OrdersInv'
<1> USE DEF OrdersInv
<1>1. TypeOK'
    BY OrdersTypeNext
<1>2. AskedInv'
    <2> SUFFICES ASSUME NEW r \in Requests, pc'[r] \in Working
                 PROVE  Valid(asked[r])'
        BY DEF AskedInv
    <2>1. \/ pc[r] = "idle" /\ Valid(asked'[r])
          \/ pc[r] \in Working /\ asked'[r] = asked[r]
        BY HandlerSteps DEF HandlerStep, Idle, Working
    <2> QED
        BY <2>1 DEF AskedInv, Valid
<1>3. RowsInv'
    <2> SUFFICES ASSUME NEW r \in Requests
                 PROVE  /\ created'[r] <= clock'
                        /\ Exists(r)' =>
                             /\ pc'[r] = "done"
                             /\ invoices'[r].order = asked'[r].order
                             /\ invoices'[r].amount = asked'[r].amount
                             /\ invoices'[r].created <= clock'
        BY DEF RowsInv
    <2>1. /\ created[r] <= clock /\ clock <= clock'
          /\ clock \in Nat /\ clock' \in Nat /\ created[r] \in Nat
        BY <1>1, RowSteps DEF RowsInv, TypeOK
    <2>2. \/ created'[r] = created[r]
          \/ created'[r] = clock + 1 /\ clock' = clock + 1
        BY HandlerSteps DEF HandlerStep, Idle
    <2>3. CASE Exists(r)
        <3>1. invoices[r].created <= clock /\ invoices[r].created \in Nat
            BY <2>3 DEF RowsInv, TypeOK, Invoice
        <3>2. /\ pc'[r] = "done"
              /\ invoices'[r].order = asked'[r].order
              /\ invoices'[r].amount = asked'[r].amount
              /\ invoices'[r].created = invoices[r].created
            BY <2>3, RowStays DEF RowsInv
        <3> QED
            BY <2>1, <2>2, <3>1, <3>2
    <2>4. CASE ~Exists(r) /\ Exists(r)'
        BY <2>1, <2>2, <2>4, RowAppears
    <2>5. CASE ~Exists(r)'
        BY <2>1, <2>2, <2>5
    <2> QED
        BY <2>3, <2>4, <2>5
<1>4. AnswersInv'
    <2> SUFFICES ASSUME NEW r \in Requests, answer'[r].code = 201
                 PROVE  pc'[r] = "done" /\ answer'[r].invoice \in Requests
        BY DEF AnswersInv
    <2>1. \A o : GetActiveByOrderRef(o) \subseteq Requests
        BY DEF GetActiveByOrderRef
    <2> QED
        BY <2>1, HandlerSteps DEF HandlerStep, Idle, Working, AnswersInv
<1>5. VisibleInv'
    <2> SUFFICES ASSUME NEW r \in Requests, NEW i \in visible'[r]
                 PROVE  Exists(i)'
        BY DEF VisibleInv
    <2>1. visible'[r] = visible[r] \/ visible'[r] = {q \in Requests : Exists(q)}
        BY HandlerSteps DEF HandlerStep, Idle
    <2>2. i \in Requests /\ Exists(i)
        BY <2>1 DEF VisibleInv, TypeOK
    <2> QED
        BY <2>2, RowStays
<1>6. AloneInv'
    <2> SUFFICES ASSUME NEW r \in Requests, pc'[r] \in {"resolve", "insert"} \/ Exists(r)',
                        NEW i \in visible'[r], invoices'[i].order = asked'[r].order
                 PROVE  ~Active(i)' \/ i \in reopened'
        BY DEF AloneInv, Alone
    <2>1. i \in Requests /\ Exists(i)
        <3>1. visible'[r] = visible[r] \/ visible'[r] = {q \in Requests : Exists(q)}
            BY HandlerSteps DEF HandlerStep, Idle
        <3> QED
            BY <3>1 DEF VisibleInv, TypeOK
    <2>2. /\ invoices'[i].order = invoices[i].order
          /\ ~Active(i) \/ i \in reopened => ~Active(i)' \/ i \in reopened'
        BY <2>1, RowStays
    <2>3. CASE Exists(r)
        BY <2>1, <2>2, <2>3, RowStays DEF AloneInv, Alone
    <2>4. CASE ~Exists(r) /\ Exists(r)'
        BY <2>1, <2>2, <2>4, RowAppears DEF AloneInv, Alone
    <2>5. CASE pc[r] \in {"resolve", "insert"} /\ ~Exists(r)'
        <3>1. asked'[r] = asked[r] /\ visible'[r] = visible[r]
            BY <2>5, HandlerSteps DEF HandlerStep, Idle, Working
        <3> QED
            BY <2>1, <2>2, <2>5, <3>1 DEF AloneInv, Alone
    <2>6. CASE pc[r] \notin {"resolve", "insert"} /\ pc'[r] \in {"resolve", "insert"}
        <3>1. asked'[r] = asked[r] /\ GetActiveByOrderRef(asked[r].order) = {}
            BY <2>6, HandlerSteps DEF HandlerStep, Idle, Working
        <3>2. ~Active(i)
            BY <2>1, <2>2, <3>1, LookupFindsActive DEF RowsInv
        <3> QED
            BY <2>2, <3>2
    <2> QED
        BY <2>3, <2>4, <2>5, <2>6
<1>7. AnsweredInvoiceIsTheOrders'
    <2> SUFFICES ASSUME NEW r \in Requests, answer'[r].code = 201,
                        NEW i \in Requests, i = answer'[r].invoice
                 PROVE  /\ Exists(i)' /\ invoices'[i].order = asked'[r].order
                        /\ invoices'[i].amount = asked'[i].amount
        BY <1>4 DEF AnsweredInvoiceIsTheOrders, AnswersInv
    <2>2. ASSUME Exists(i), invoices[i].order = asked[r].order, asked'[r] = asked[r]
          PROVE  /\ Exists(i)' /\ invoices'[i].order = asked'[r].order
                 /\ invoices'[i].amount = asked'[i].amount
        BY <2>2, RowStays DEF RowsInv
    <2>3. CASE answer'[r] = answer[r]
        <3>1. pc[r] = "done"
            BY <2>3 DEF AnswersInv
        <3>2. asked'[r] = asked[r]
            BY <3>1, HandlerSteps DEF HandlerStep, Idle, Working
        <3>3. Exists(i) /\ invoices[i].order = asked[r].order
            BY <2>3 DEF AnsweredInvoiceIsTheOrders
        <3> QED
            BY <2>2, <3>2, <3>3
    <2>4. CASE /\ asked'[r] = asked[r]
               /\ answer'[r].invoice \in GetActiveByOrderRef(asked[r].order)
        <3>1. Exists(i) /\ invoices[i].order = asked[r].order
            BY <2>4 DEF GetActiveByOrderRef, Active, Exists
        <3> QED
            BY <2>2, <2>4, <3>1
    <2>5. CASE answer'[r].invoice = r /\ pc[r] = "insert" /\ invoices'[r].status = "pending"
        <3>1. ~Exists(r) /\ Exists(r)'
            BY <2>5 DEF RowsInv, Exists
        <3> QED
            BY <2>5, <3>1, RowAppears
    <2>6. \/ answer'[r] = answer[r]
          \/ /\ asked'[r] = asked[r]
             /\ answer'[r].invoice \in GetActiveByOrderRef(asked[r].order)
          \/ answer'[r].invoice = r /\ pc[r] = "insert" /\ invoices'[r].status = "pending"
        BY HandlerSteps DEF HandlerStep, Idle, Working
    <2> QED
        BY <2>3, <2>4, <2>5, <2>6
<1> QED
    BY <1>1, <1>2, <1>3, <1>4, <1>5, <1>6, <1>7

LEMMA AlwaysOrdersInv == Spec => []OrdersInv
    BY InitOrdersInv, NextOrdersInv, PTL DEF Spec

----------------------------------------------------------------------------
(* Theorems                                                                *)

\* Every variable keeps its type: whatever uint64 a request asks for, the amount
\* in the database is the amount asked for, and not negative.
THEOREM OrdersTypeCorrect == Spec => []TypeOK
    BY AlwaysOrdersInv, PTL DEF OrdersInv

\* A 201 names an invoice that is in the table, of the order asked about, and for an
\* amount that was asked for, through failed statements, lost replies and restarts.
THEOREM AnswersAreRight == Spec => []AnsweredInvoiceIsTheOrders
    BY AlwaysOrdersInv, PTL DEF OrdersInv

\* The check of invoice.Store.Create and its INSERT are not one step, and nothing in
\* the database makes them one: a second active invoice of an order is possible, but
\* only when neither request saw the other's row, or after a reopening.
THEOREM SecondActiveIsExplained == Spec => []SecondActiveNeedsOverlap
<1>1. OrdersInv => SecondActiveNeedsOverlap
    <2> SUFFICES ASSUME OrdersInv, NEW i \in Requests, NEW j \in Requests,
                        i # j, Active(i), Active(j),
                        invoices[i].order = invoices[j].order,
                        {i, j} \cap reopened = {}
                 PROVE  i \notin visible[j] /\ j \notin visible[i]
        BY DEF SecondActiveNeedsOverlap
    <2>1. Exists(i) /\ Exists(j)
        BY DEF Active, Exists
    <2>2. invoices[i].order = asked[i].order /\ invoices[j].order = asked[j].order
        BY <2>1 DEF OrdersInv, RowsInv
    <2>3. Alone(i) /\ Alone(j)
        BY <2>1 DEF OrdersInv, AloneInv
    <2> QED
        BY <2>2, <2>3 DEF Alone
<1> QED
    BY <1>1, AlwaysOrdersInv, PTL
=============================================================================
