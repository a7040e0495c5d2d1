--------------------------- MODULE WatcherRefinement ---------------------------
(***************************************************************************)
(* Watcher implements InvoiceLifecycle, for every instance with a callback *)
(* URL.  The refinement mapping reads the status column and the list of    *)
(* announced statuses off the two tables; what the goroutine holds between *)
(* its statements is not in it, so each of its steps is one abstract step  *)
(* or none.                                                                *)
(*                                                                         *)
(* The abstract guards speak of the status last announced.  That it is the *)
(* snapshot of the call in progress, whatever the sweep did to the row     *)
(* since, is NoticeInv.                                                    *)
(***************************************************************************)
EXTENDS WatcherProofs

\* The mapping's two variables, and a delivery table row as the mapping reads it.
statusBar == [i \in Invoices |-> invoices[i].status]
Told(q) == [k \in 1..Len(q) |-> q[k].status]
announcedBar == [i \in Invoices |-> Told(notices[i])]

LEMMA ToldSeq ==
    ASSUME NEW q \in Seq(Payload)
    PROVE  /\ Told(q) \in Seq(Status)
           /\ Len(Told(q)) = Len(q)
           /\ Told(q) = <<>> <=> q = <<>>
           /\ \A k \in 1..Len(q) : Told(q)[k] = q[k].status
<1>1. Len(q) \in Nat /\ \A k \in 1..Len(q) : q[k].status \in Status
    <2>1. Len(q) \in Nat /\ \A k \in 1..Len(q) : q[k] \in Payload
        BY LenProperties, ElementOfSeq
    <2> QED
        BY <2>1 DEF Payload
<1>2. Told(q) \in [1..Len(q) -> Status]
    BY <1>1 DEF Told
<1>3. Told(q) \in Seq(Status) /\ Len(Told(q)) = Len(q)
    BY <1>1, <1>2, SeqDef DEF Told
<1>4. Told(q) = <<>> <=> q = <<>>
    BY <1>3, EmptySeq
<1> QED
    BY <1>3, <1>4 DEF Told

LEMMA ToldAppend ==
    ASSUME NEW q \in Seq(Payload), NEW n \in Payload
    PROVE  Told(Append(q, n)) = Append(Told(q), n.status)
<1>1. n.status \in Status
    BY DEF Payload
<1>2. /\ Append(q, n) \in Seq(Payload) /\ Len(q) \in Nat
      /\ Len(Append(q, n)) = Len(q) + 1
      /\ \A k \in 1..Len(q) : Append(q, n)[k] = q[k]
      /\ Append(q, n)[Len(q) + 1] = n
    BY AppendProperties, LenProperties
<1>3. /\ Append(Told(q), n.status) \in Seq(Status)
      /\ Len(Append(Told(q), n.status)) = Len(q) + 1
      /\ \A k \in 1..Len(q) : Append(Told(q), n.status)[k] = q[k].status
      /\ Append(Told(q), n.status)[Len(q) + 1] = n.status
    BY <1>1, ToldSeq, AppendProperties
<1>4. /\ Told(Append(q, n)) \in Seq(Status)
      /\ Len(Told(Append(q, n))) = Len(q) + 1
      /\ \A k \in 1..(Len(q) + 1) :
             Told(Append(q, n))[k] = Append(q, n)[k].status
    BY <1>2, ToldSeq
<1>5. \A k \in 1..(Len(q) + 1) : Told(Append(q, n))[k] = Append(Told(q), n.status)[k]
    BY <1>2, <1>3, <1>4
<1> QED
    BY <1>3, <1>4, <1>5, SeqEqual

\* What the merchant believes is the status last announced.
LEMMA BelievedIsAnnounced ==
    ASSUME TypeOK, NEW i \in Invoices, NEW s, LastAnnounced(i, s)
    PROVE  Lifecycle!Believed(i) = s
<1>1. notices[i] \in Seq(Payload)
    BY DEF TypeOK
<1>2. Lifecycle!Believed(i) = IF Told(notices[i]) = <<>>
                                THEN "pending" ELSE Told(notices[i])[Len(Told(notices[i]))]
    BY DEF Lifecycle!Believed, Told
<1>3. CASE notices[i] = <<>>
    BY <1>1, <1>2, <1>3, ToldSeq DEF LastAnnounced
<1>4. CASE notices[i] # <<>>
    <2>1. Len(notices[i]) \in 1..Len(notices[i])
        BY <1>1, <1>4, EmptySeq
    <2>2. Lifecycle!Believed(i) = LastNotice(i).status
        BY <1>1, <1>2, <1>4, <2>1, ToldSeq DEF LastNotice
    <2> QED
        BY <1>4, <2>2 DEF LastAnnounced
<1> QED
    BY <1>3, <1>4

----------------------------------------------------------------------------
(* Step by step                                                            *)

LEMMA LifecycleInit == Init => Lifecycle!Init
<1> SUFFICES ASSUME Init PROVE Lifecycle!Init
    OBVIOUS
<1>1. statusBar = [i \in Invoices |-> "pending"]
    BY DEF Init, NewInvoice, statusBar
<1>2. \A i \in Invoices : notices[i] = <<>>
    BY DEF Init
<1>3. Told(<<>>) = <<>>
    BY EmptySeq, ToldSeq
<1>4. announcedBar = [i \in Invoices |-> <<>>]
    BY <1>2, <1>3 DEF announcedBar
<1> QED
    BY <1>1, <1>4 DEF Lifecycle!Init, statusBar, announcedBar, Told

\* A step that changes no status and adds no row.
LEMMA StutterStep ==
    ASSUME notices' = notices,
           \A i \in Invoices : invoices'[i].status = invoices[i].status
    PROVE  UNCHANGED <<statusBar, announcedBar>>
    BY DEF statusBar, announcedBar, Told

\* One row gets a status it may have, and the merchant is not told.
LEMMA SilentStep ==
    ASSUME TypeOK, NEW i \in Invoices, notices' = notices,
           NEW s, invoices'[i].status = s,
           \A j \in Invoices \ {i} : invoices'[j] = invoices[j]
    PROVE  /\ announcedBar' = announcedBar
           /\ statusBar' = [statusBar EXCEPT ![i] = s]
           /\ statusBar' = [j \in Invoices |-> IF j \in {i} THEN s ELSE statusBar[j]]
<1>1. \A j \in Invoices : invoices'[j].status = IF j = i THEN s ELSE invoices[j].status
    OBVIOUS
<1> QED
    BY <1>1 DEF statusBar, announcedBar, Told

LEMMA LifecycleNext ==
    ASSUME WebhookConfigured, LedgerInv, NoticeInv, [Next]_vars
    PROVE  Lifecycle!Next \/ UNCHANGED <<statusBar, announcedBar>>
<1>1. TypeOK /\ CallKnows
    BY DEF LedgerInv
<1>2. step \in {"add", "write"} =>
          theInvoice \in Invoices /\ Lifecycle!Believed(theInvoice) = job.prev
    BY <1>1, BelievedIsAnnounced DEF TypeOK, NoticeInv
<1>3. CASE Quiet \/ LookupFinds
    <2>1. notices' = notices /\ invoices' = invoices
        BY <1>3 DEF Quiet, LookupFinds, database
    <2> QED
        BY <2>1, StutterStep
<1>4. CASE AddReceivedAmount \/ AddReceivedAmountFails
    <2>1. step = "add" /\ notices' = notices /\ (AddToTotal \/ UNCHANGED invoices)
        BY <1>4 DEF AddReceivedAmount, AddReceivedAmountFails
    <2>2. \A i \in Invoices : invoices'[i].status = invoices[i].status
        BY <1>1, <2>1, AddedRow
    <2> QED
        BY <2>1, <2>2, StutterStep
<1>5. CASE ExpireLatePayment
    <2>0. PICK i \in Invoices : i = theInvoice
        BY <1>2, <1>5 DEF ExpireLatePayment
    <2>1. step = "write" /\ notices' = notices /\ updateStatus(i, "expired", FALSE)
        BY <1>5, <2>0 DEF ExpireLatePayment
    <2>2. /\ invoices'[i].status = "expired"
          /\ \A j \in Invoices \ {i} : invoices'[j] = invoices[j]
        BY <1>1, <1>2, <2>0, <2>1, UpdatedRow
    <2>3. /\ announcedBar' = announcedBar
          /\ statusBar' = [j \in Invoices |-> IF j \in {i} THEN "expired"
                                                                     ELSE statusBar[j]]
        BY <1>1, <1>2, <2>0, <2>1, <2>2, SilentStep
    <2>4. Lifecycle!Believed(i) \notin Lifecycle!Final
        BY <1>1, <1>2, <2>0, <2>1 DEF CallKnows, Lifecycle!Final
    <2>5. Lifecycle!Expire({i})
        BY <2>3, <2>4 DEF Lifecycle!Expire, statusBar, announcedBar, Told
    <2> QED
        BY <1>2, <2>0, <2>1, <2>5 DEF Lifecycle!Next
<1>6. CASE RewriteStatus
    <2>0. PICK i \in Invoices : i = theInvoice
        BY <1>2, <1>6 DEF RewriteStatus
    <2>1. /\ step = "write" /\ notices' = notices /\ job.new = job.prev
          /\ updateStatus(i, job.prev, job.confirmed)
        BY <1>6, <2>0 DEF RewriteStatus
    <2>2. /\ invoices'[i].status = job.prev
          /\ \A j \in Invoices \ {i} : invoices'[j] = invoices[j]
        BY <1>1, <1>2, <2>0, <2>1, UpdatedRow
    <2>3. /\ announcedBar' = announcedBar
          /\ statusBar' = [statusBar EXCEPT ![i] = job.prev]
        BY <1>1, <1>2, <2>0, <2>1, <2>2, SilentStep
    <2>4. Lifecycle!Believed(i) \in Lifecycle!Announceable \ Lifecycle!Final
        BY <1>1, <1>2, <2>0, <2>1 DEF CallKnows, Lifecycle!Announceable, Lifecycle!Final
    <2>5. Lifecycle!Restore(i)
        BY <1>2, <2>0, <2>1, <2>3, <2>4 DEF Lifecycle!Restore, statusBar, announcedBar, Told
    <2> QED
        BY <1>2, <2>0, <2>1, <2>5 DEF Lifecycle!Next
<1>7. CASE updateStatusAndCreateDelivery
    <2>0. PICK i \in Invoices, s \in Status : i = theInvoice /\ s = job.new
        BY <1>1, <1>2, <1>7 DEF updateStatusAndCreateDelivery, Transition, TypeOK, Job
    <2> DEFINE n == [status |-> s, event |-> job.event, received |-> job.total]
    <2>1. /\ step = "write" /\ s \notin {"expired", job.prev}
          /\ updateStatus(i, s, job.confirmed)
          /\ notices' = [notices EXCEPT ![i] = Append(@, n)]
        BY <1>7, <2>0 DEF updateStatusAndCreateDelivery, Transition
    <2>2. n \in Payload /\ n.status = s
        BY <2>0, <1>1, <2>1 DEF TypeOK, Job, Payload
    <2>3. /\ invoices'[i].status = s
          /\ \A j \in Invoices \ {i} : invoices'[j] = invoices[j]
        BY <1>1, <1>2, <2>0, <2>1, UpdatedRow
    <2>4. statusBar' = [statusBar EXCEPT ![i] = s]
        BY <1>2, <2>0, <2>1, <2>3 DEF statusBar
    <2>5. announcedBar' = [announcedBar EXCEPT ![i] = Append(@, s)]
        <3>1. Told(notices'[i]) = Append(Told(notices[i]), s)
            BY <1>1, <1>2, <2>0, <2>1, <2>2, ToldAppend DEF TypeOK
        <3>2. \A j \in Invoices \ {i} : notices'[j] = notices[j]
            BY <2>0, <1>1, <2>1 DEF TypeOK
        <3>3. announcedBar' = [j \in Invoices |-> Told(notices'[j])]
            BY DEF announcedBar, Told
        <3> QED
            BY <3>1, <3>2, <3>3 DEF announcedBar
    <2>6. /\ Lifecycle!Believed(i) \notin Lifecycle!Final
          /\ s # Lifecycle!Believed(i)
          /\ s \in Lifecycle!Announceable
        BY <1>1, <1>2, <2>0, <2>1 DEF CallKnows, Lifecycle!Final, Lifecycle!Announceable
    <2>7. Lifecycle!Announce(i, s)
        BY <2>4, <2>5, <2>6 DEF Lifecycle!Announce, statusBar, announcedBar, Told
    <2> QED
        BY <1>2, <2>0, <2>1, <2>6, <2>7 DEF Lifecycle!Next
<1>8. CASE UpdateWithoutWebhook
    BY <1>8 DEF UpdateWithoutWebhook
<1>9. CASE ExpireStale
    <2>0. PICK lapsed \in SUBSET Invoices : lapsed = {i \in Invoices : Stale(i)}
        OBVIOUS
    <2>1. /\ notices' = notices
          /\ \A i \in Invoices : invoices'[i].status =
                                   IF i \in lapsed THEN "expired" ELSE invoices[i].status
        BY <1>1, <1>9, <2>0 DEF ExpireStale, TypeOK, Invoice
    <2>2. ASSUME NEW i \in lapsed
          PROVE  Lifecycle!Believed(i) \notin Lifecycle!Final
        <3>1. invoices[i].status \in {"pending", "seen"}
            BY <2>0 DEF Stale
        <3>2. LastAnnounced(i, invoices[i].status)
            BY <3>1 DEF NoticeInv
        <3> QED
            BY <1>1, <3>1, <3>2, BelievedIsAnnounced DEF Lifecycle!Final
    <2>3. /\ announcedBar' = announcedBar
          /\ statusBar' = [i \in Invoices |-> IF i \in lapsed THEN "expired"
                                                              ELSE statusBar[i]]
        BY <2>1 DEF announcedBar, Told, statusBar
    <2>4. Lifecycle!Expire(lapsed)
        BY <2>2, <2>3 DEF Lifecycle!Expire, statusBar, announcedBar, Told
    <2> QED
        BY <2>4 DEF Lifecycle!Next
<1> QED
    BY <1>3, <1>4, <1>5, <1>6, <1>7, <1>8, <1>9, StepCases

----------------------------------------------------------------------------
(* The theorem                                                             *)

\* When a callback URL is configured, the watcher, the sweep and every failure of
\* either do to the two tables what the abstract lifecycle allows: each transition is
\* announced in the step that makes it, once and in order, nothing follows a verdict,
\* and no verdict is undone by an expiry.
THEOREM LifecycleIsImplemented ==
    ASSUME WebhookConfigured
    PROVE  Spec => ImplementsLifecycle
<1>1. LedgerInv /\ NoticeInv /\ [Next]_vars =>
          [Lifecycle!Next]_<<[i \in Invoices |-> invoices[i].status],
                             [i \in Invoices |->
                                [k \in 1..Len(notices[i]) |-> notices[i][k].status]]>>
    BY LifecycleNext DEF statusBar, announcedBar, Told
<1> QED
    BY <1>1, LifecycleInit, LedgerCorrect, NoticeCorrect, PTL
    DEF Spec, ImplementsLifecycle, Lifecycle!Spec
=============================================================================
