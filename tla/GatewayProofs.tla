----------------------------- MODULE GatewayProofs -----------------------------
(***************************************************************************)
(* Theorems about Gateway, for every set of invoices, of admin requests    *)
(* and of callback URLs, every cap and every bound.                        *)
(*                                                                         *)
(* The gateway's steps are steps of Delivery and of the invoice lifecycle, *)
(* so what DeliveryProofs knows of rows and workers is used here as it is. *)
(***************************************************************************)
EXTENDS Gateway, DeliveryProofs, SequenceTheorems

----------------------------------------------------------------------------
(* The two parts                                                           *)

\* Everything the gateway does to its webhooks, Delivery does.
LEMMA GatewayStepDelivers == [GatewayNext]_gatewayVars => [Next]_vars
<1>1. \A i \in Invoices, s \in Changes, d \in Rows : Announce(i, s, d) => Create(d)
    BY DEF Announce
<1>2. \A i \in Invoices, s \in Changes : AnnounceToNobody(i, s) => UNCHANGED vars
    BY DEF AnnounceToNobody
<1>3. \A lapsed \in SUBSET Invoices : ExpireStale(lapsed) => UNCHANGED vars
    BY DEF ExpireStale
<1>4. \A i \in Invoices : RewriteStatus(i) => UNCHANGED vars
    BY DEF RewriteStatus
<1>5. Deliveries => Deliver
    BY DEF Deliveries
<1>6. UNCHANGED gatewayVars => UNCHANGED vars
    BY DEF gatewayVars
<1> QED
    BY <1>1, <1>2, <1>3, <1>4, <1>5, <1>6 DEF GatewayNext, Next

\* The gateway's webhooks are Delivery's: all that is proved of Delivery holds in the
\* composition, whatever the invoices do.
THEOREM GatewayIsADelivery == GatewaySpec => Spec
    BY GatewayStepDelivers, PTL DEF GatewaySpec, GatewayInit, Spec

\* The statuses that change in the composition change as in InvoiceLifecycle, whether a
\* row is made for them or no callback URL is configured.
THEOREM GatewayKeepsTheLifecycle == GatewaySpec => Lifecycle!Spec
<1>1. GatewayInit => Lifecycle!Init
    BY DEF GatewayInit
<1>2. [GatewayNext]_gatewayVars => [Lifecycle!Next]_<<status, announced>>
    <2>1. \A i \in Invoices, s \in Changes :
              /\ s \in Lifecycle!Announceable
              /\ \A d \in Rows : Announce(i, s, d) => Lifecycle!Announce(i, s)
              /\ AnnounceToNobody(i, s) => Lifecycle!Announce(i, s)
        BY NewsAssumption DEF Announce, AnnounceToNobody, Lifecycle!Announceable
    <2>2. \A lapsed \in SUBSET Invoices : ExpireStale(lapsed) => Lifecycle!Expire(lapsed)
        BY DEF ExpireStale
    <2>3. \A i \in Invoices : RewriteStatus(i) => Lifecycle!Restore(i)
        BY DEF RewriteStatus
    <2>4. Deliveries \/ UNCHANGED gatewayVars => UNCHANGED <<status, announced>>
        BY DEF Deliveries, gatewayVars, invoiceVars
    <2> QED
        BY <2>1, <2>2, <2>3, <2>4 DEF GatewayNext, Lifecycle!Next
<1> QED
    BY <1>1, <1>2, PTL DEF GatewaySpec, Lifecycle!Spec

----------------------------------------------------------------------------
(* The inductive invariant                                                 *)

GatewayTypeOK ==
    /\ status \in [Invoices -> {"pending", "expired"} \cup Changes]
    /\ announced \in [Invoices -> Seq(Changes)]
    /\ news \in [Rows -> [invoice : Invoices \cup {0}, nth : Nat]]
    /\ unheard \in SUBSET Rows

\* A verdict is the last thing an invoice announces, and its status from then on.
VerdictsInv ==
    \A i \in Invoices : \A k \in 1..Len(announced[i]) :
        announced[i][k] \in Lifecycle!Final =>
            k = Len(announced[i]) /\ status[i] = announced[i][k]

There(d) == rows[d].status # "none"

\* The rows are made in order, and each says one of the statuses of its invoice.
NewsInv ==
    /\ \A d \in Rows : There(d) => /\ news[d].invoice \in Invoices
                                   /\ news[d].nth \in 1..Len(announced[news[d].invoice])
    /\ \A d, e \in Rows : d < e /\ There(e) => There(d)

\* While the watcher attempts a row, there is no later one.
LatestInv ==
    pc["watcher"] # "idle" => \A e \in Rows : There(e) => e <= target["watcher"].row

\* A row without trouble is in the watcher's hands, for its first attempt, or it is
\* delivered and in nobody's.
TroubleFree(d) == d \notin unheard \cup excused
UntroubledInv ==
    \A d \in Rows : There(d) /\ TroubleFree(d) =>
        Holds("watcher", d) \/ (rows[d].status = "delivered" /\ ~InHand(d))

GatewayInv ==
    /\ DeliveryInv
    /\ GatewayTypeOK /\ VerdictsInv /\ NewsInv /\ LatestInv /\ UntroubledInv
    /\ InOrderUnlessRetried

LEMMA GatewayTypeInit == GatewayInit => GatewayTypeOK
    BY DEF GatewayInit, Lifecycle!Init, GatewayTypeOK

\* A status that is announced, by whomever, is added to statuses that are no verdict.
LEMMA AnnouncedStep ==
    ASSUME GatewayTypeOK, VerdictsInv, NEW i \in Invoices, NEW s \in Changes,
           Lifecycle!Announce(i, s)
    PROVE  /\ status' \in [Invoices -> {"pending", "expired"} \cup Changes]
           /\ announced' \in [Invoices -> Seq(Changes)]
           /\ status'[i] = s
           /\ Len(announced[i]) \in Nat /\ Len(announced'[i]) = Len(announced[i]) + 1
           /\ announced'[i][Len(announced[i]) + 1] = s
           /\ \A k \in 1..Len(announced[i]) : /\ announced'[i][k] = announced[i][k]
                                              /\ announced[i][k] \notin Lifecycle!Final
           /\ \A j \in Invoices \ {i} : status'[j] = status[j] /\ announced'[j] = announced[j]
<1>1. announced[i] \in Seq(Changes)
    BY DEF GatewayTypeOK
<1>2. announced' = [announced EXCEPT ![i] = Append(announced[i], s)]
    BY DEF Lifecycle!Announce
<1>3. /\ Len(announced[i]) \in Nat
      /\ Append(announced[i], s) \in Seq(Changes)
      /\ Len(Append(announced[i], s)) = Len(announced[i]) + 1
      /\ Append(announced[i], s)[Len(announced[i]) + 1] = s
      /\ \A k \in 1..Len(announced[i]) : Append(announced[i], s)[k] = announced[i][k]
    BY <1>1, AppendProperties, LenProperties
<1>4. \A k \in 1..Len(announced[i]) : announced[i][k] \notin Lifecycle!Final
    <2>1. announced[i] # <<>> => announced[i][Len(announced[i])] \notin Lifecycle!Final
        BY DEF Lifecycle!Announce, Lifecycle!Believed
    <2>2. announced[i] = <<>> => Len(announced[i]) = 0
        OBVIOUS
    <2> QED
        BY <1>3, <2>1, <2>2 DEF VerdictsInv
<1>5. announced'[i] = Append(announced[i], s)
    BY <1>2 DEF GatewayTypeOK
<1>6. /\ announced' \in [Invoices -> Seq(Changes)]
      /\ \A j \in Invoices \ {i} : announced'[j] = announced[j]
    BY <1>2, <1>3 DEF GatewayTypeOK
<1>7. /\ status' \in [Invoices -> {"pending", "expired"} \cup Changes] /\ status'[i] = s
      /\ \A j \in Invoices \ {i} : status'[j] = status[j]
    BY DEF Lifecycle!Announce, GatewayTypeOK
<1> QED
    BY <1>3, <1>4, <1>5, <1>6, <1>7

\* Expiry and its undoing touch no invoice that has announced a verdict.
LEMMA UnannouncedStep ==
    ASSUME GatewayTypeOK, VerdictsInv,
           \/ \E lapsed \in SUBSET Invoices : Lifecycle!Expire(lapsed)
           \/ \E i \in Invoices : Lifecycle!Restore(i)
    PROVE  /\ announced' = announced
           /\ status' \in [Invoices -> {"pending", "expired"} \cup Changes]
           /\ \A i \in Invoices : \A k \in 1..Len(announced[i]) :
                  announced[i][k] \in Lifecycle!Final => status'[i] = status[i]
<1>1. ASSUME NEW i \in Invoices, NEW k \in 1..Len(announced[i]),
             announced[i][k] \in Lifecycle!Final
      PROVE  Lifecycle!Believed(i) \in Lifecycle!Final
    <2>1. k = Len(announced[i]) /\ announced[i] # <<>>
        BY <1>1 DEF VerdictsInv
    <2> QED
        BY <1>1, <2>1 DEF Lifecycle!Believed
<1>2. ASSUME NEW lapsed \in SUBSET Invoices, Lifecycle!Expire(lapsed)
      PROVE  /\ announced' = announced
             /\ status' \in [Invoices -> {"pending", "expired"} \cup Changes]
             /\ \A i \in Invoices : \A k \in 1..Len(announced[i]) :
                    announced[i][k] \in Lifecycle!Final => status'[i] = status[i]
    BY <1>1, <1>2 DEF Lifecycle!Expire, GatewayTypeOK
<1>3. ASSUME NEW j \in Invoices, Lifecycle!Restore(j)
      PROVE  /\ announced' = announced
             /\ status' \in [Invoices -> {"pending", "expired"} \cup Changes]
             /\ \A i \in Invoices : \A k \in 1..Len(announced[i]) :
                    announced[i][k] \in Lifecycle!Final => status'[i] = status[i]
    <2>1. announced[j] \in Seq(Changes) /\ Lifecycle!Believed(j) \in Lifecycle!Announceable
        BY <1>3 DEF GatewayTypeOK, Lifecycle!Restore
    <2>2. Lifecycle!Believed(j) \in Changes
        <3>1. announced[j] # <<>>
            BY <2>1 DEF Lifecycle!Believed, Lifecycle!Announceable
        <3>2. Len(announced[j]) \in 1..Len(announced[j])
            BY <2>1, <3>1, EmptySeq, LenProperties
        <3> QED
            BY <2>1, <3>1, <3>2, ElementOfSeq DEF Lifecycle!Believed
    <2>3. Lifecycle!Believed(j) \notin Lifecycle!Final
        BY <1>3 DEF Lifecycle!Restore
    <2>4. announced' = announced /\ status' = [status EXCEPT ![j] = Lifecycle!Believed(j)]
        BY <1>3 DEF Lifecycle!Restore
    <2>5. status' \in [Invoices -> {"pending", "expired"} \cup Changes]
        BY <2>2, <2>4 DEF GatewayTypeOK
    <2> QED
        BY <1>1, <2>3, <2>4, <2>5 DEF GatewayTypeOK
<1> QED
    BY <1>2, <1>3

\* Which part of the gateway takes a step.
LEMMA GatewayCases ==
    ASSUME [GatewayNext]_gatewayVars
    PROVE  \/ \E i \in Invoices, s \in Changes, d \in Rows : Announce(i, s, d)
           \/ \E i \in Invoices, s \in Changes : AnnounceToNobody(i, s)
           \/ /\ \/ \E lapsed \in SUBSET Invoices : Lifecycle!Expire(lapsed)
                 \/ \E i \in Invoices : Lifecycle!Restore(i)
              /\ UNCHANGED <<vars, news, heard, unheard>>
           \/ Deliveries
           \/ UNCHANGED gatewayVars
    BY DEF GatewayNext, ExpireStale, RewriteStatus

LEMMA VerdictsNext ==
    ASSUME GatewayTypeOK, VerdictsInv, [GatewayNext]_gatewayVars
    PROVE  VerdictsInv'
<1>1. ASSUME NEW i \in Invoices, NEW s \in Changes, Lifecycle!Announce(i, s)
      PROVE  VerdictsInv'
    <2> SUFFICES ASSUME NEW j \in Invoices, NEW k \in 1..Len(announced'[j]),
                        announced'[j][k] \in Lifecycle!Final
                 PROVE  k = Len(announced'[j]) /\ status'[j] = announced'[j][k]
        BY DEF VerdictsInv, Lifecycle!Final
    <2>1. CASE j = i
        <3>1. k \in 1..Len(announced[i]) \/ k = Len(announced[i]) + 1
            BY <1>1, <2>1, AnnouncedStep
        <3> QED
            BY <1>1, <2>1, <3>1, AnnouncedStep
    <2>2. CASE j # i
        BY <1>1, <2>2, AnnouncedStep DEF VerdictsInv
    <2> QED
        BY <2>1, <2>2
<1>2. CASE /\ \/ \E lapsed \in SUBSET Invoices : Lifecycle!Expire(lapsed)
              \/ \E i \in Invoices : Lifecycle!Restore(i)
           /\ UNCHANGED <<vars, news, heard, unheard>>
    BY <1>2, UnannouncedStep DEF VerdictsInv, Lifecycle!Final
<1>3. ASSUME UNCHANGED <<status, announced>>
      PROVE  VerdictsInv'
    BY <1>3 DEF VerdictsInv, Lifecycle!Final
<1>4. Deliveries \/ UNCHANGED gatewayVars => UNCHANGED <<status, announced>>
    BY DEF Deliveries, gatewayVars, invoiceVars
<1> QED
    BY <1>1, <1>2, <1>3, <1>4, GatewayCases DEF Announce, AnnounceToNobody

LEMMA GatewayTypeNext ==
    ASSUME DeliveryInv, GatewayTypeOK, VerdictsInv, [GatewayNext]_gatewayVars
    PROVE  GatewayTypeOK'
<1>1. ASSUME NEW i \in Invoices, NEW s \in Changes, NEW d \in Rows, Announce(i, s, d)
      PROVE  GatewayTypeOK'
    <2>1. Lifecycle!Announce(i, s) /\ UNCHANGED <<heard, unheard>>
        BY <1>1 DEF Announce
    <2>2. news' = [news EXCEPT ![d] = [invoice |-> i, nth |-> Len(announced[i]) + 1]]
        BY <1>1 DEF Announce
    <2>3. [invoice |-> i, nth |-> Len(announced[i]) + 1]
              \in [invoice : Invoices \cup {0}, nth : Nat]
        BY <2>1, AnnouncedStep
    <2>4. news' \in [Rows -> [invoice : Invoices \cup {0}, nth : Nat]]
        BY <2>2, <2>3 DEF GatewayTypeOK
    <2> QED
        BY <2>1, <2>4, AnnouncedStep DEF GatewayTypeOK
<1>2. ASSUME NEW i \in Invoices, NEW s \in Changes, AnnounceToNobody(i, s)
      PROVE  GatewayTypeOK'
    BY <1>2, AnnouncedStep DEF GatewayTypeOK, AnnounceToNobody
<1>3. CASE /\ \/ \E lapsed \in SUBSET Invoices : Lifecycle!Expire(lapsed)
              \/ \E i \in Invoices : Lifecycle!Restore(i)
           /\ UNCHANGED <<vars, news, heard, unheard>>
    BY <1>3, UnannouncedStep DEF GatewayTypeOK
<1>4. CASE Deliveries
    <2>1. EndsUnheard \subseteq Rows
        BY DEF EndsUnheard, DeliveryInv, TypeOK
    <2> QED
        BY <1>4, <2>1 DEF GatewayTypeOK, Deliveries, invoiceVars
<1>5. CASE UNCHANGED gatewayVars
    BY <1>5 DEF GatewayTypeOK, gatewayVars, invoiceVars
<1> QED
    BY <1>1, <1>2, <1>3, <1>4, <1>5, GatewayCases

----------------------------------------------------------------------------
(* The rows and the news                                                   *)

\* What is not the creation of a row, by who takes the step.
LEMMA DeliverCases ==
    ASSUME Deliver
    PROVE  \/ \E w \in Workers : Attempt(w)
           \/ \E d \in Rows : GrowOld(d)
           \/ RetryFailedDeliveries
           \/ \E t \in listed : RetryNext(t)
           \/ \E a \in Admins, d \in Rows : handleWebhookRetry(a, d)
           \/ \E url \in URLs \cup {NoURL} : Restart(url)
    BY DEF Deliver, retryLoop, Workers

LEMMA DeliverKeepsRows ==
    ASSUME DeliveryInv, Deliver, NEW d \in Rows
    PROVE  There(d)' <=> There(d)
<1>1. TypeOK /\ AnswersInv /\ RowsInv /\ rows[d] \in Row
    BY DEF DeliveryInv, TypeOK
<1>2. ASSUME NEW w \in Workers, Attempt(w)
      PROVE  There(d)' <=> There(d)
    <2>1. CASE target[w].row = d
        <3>1. There(d)
            BY <1>1, <1>2, <2>1, AttemptIsLocal DEF RowsInv, InHand, There
        <3>2. \/ rows'[d] = [rows[d] EXCEPT !.attempts = @ + 1]
              \/ rows'[d] = rows[d]
              \/ rows'[d] = [rows[d] EXCEPT !.status = "delivered", !.deliveredAt = TRUE]
              \/ rows'[d] = [rows[d] EXCEPT !.status = "failed"]
            BY <1>1, <1>2, <2>1, AttemptEffects
        <3> QED
            BY <1>1, <3>1, <3>2 DEF There, Row
    <2>2. CASE target[w].row # d
        BY <1>1, <1>2, <2>2, AttemptIsLocal DEF There
    <2> QED
        BY <2>1, <2>2
<1>3. ASSUME NEW e \in Rows, GrowOld(e)
      PROVE  There(d)' <=> There(d)
    BY <1>1, <1>3 DEF GrowOld, There, TypeOK, Row
<1>4. ASSUME rows' = rows
      PROVE  There(d)' <=> There(d)
    BY <1>4 DEF There
<1> QED
    BY <1>2, <1>3, <1>4, DeliverCases
    DEF RetryFailedDeliveries, RetryNext, handleWebhookRetry, Restart

\* Only the creation of a row makes the watcher busy.
LEMMA DeliverKeepsTarget ==
    ASSUME DeliveryInv, Deliver, pc'["watcher"] # "idle"
    PROVE  pc["watcher"] # "idle" /\ target'["watcher"].row = target["watcher"].row
<1>1. TypeOK /\ AnswersInv /\ "watcher" \in Workers
    BY DEF DeliveryInv, Workers
<1>2. ASSUME NEW w \in Workers, Attempt(w)
      PROVE  pc["watcher"] # "idle" /\ target'["watcher"].row = target["watcher"].row
    <2>1. CASE w = "watcher"
        BY <1>1, <1>2, <2>1, AttemptEffects
    <2>2. CASE w # "watcher"
        BY <1>1, <1>2, <2>2, AttemptIsLocal
    <2> QED
        BY <2>1, <2>2
<1>3. ASSUME NEW w \in Workers \ {"watcher"}, NEW d, NEW url, Begin(w, d, url)
      PROVE  pc["watcher"] # "idle" /\ target'["watcher"].row = target["watcher"].row
    BY <1>1, <1>3 DEF Begin, TypeOK
<1>4. ASSUME NEW t \in listed, RetryNext(t)
      PROVE  pc["watcher"] # "idle" /\ target'["watcher"].row = target["watcher"].row
    BY <1>3, <1>4 DEF RetryNext, Workers
<1>5. ASSUME NEW a \in Admins, NEW d \in Rows, handleWebhookRetry(a, d)
      PROVE  pc["watcher"] # "idle" /\ target'["watcher"].row = target["watcher"].row
    <2>1. a \in Workers \ {"watcher"}
        BY DeliveryAssumption DEF Workers
    <2> QED
        BY <1>3, <1>5, <2>1 DEF handleWebhookRetry
<1>6. ASSUME NEW url \in URLs \cup {NoURL}, Restart(url)
      PROVE  FALSE
    BY <1>1, <1>6 DEF Restart
<1>7. ASSUME UNCHANGED <<pc, target>>
      PROVE  pc["watcher"] # "idle" /\ target'["watcher"].row = target["watcher"].row
    BY <1>7
<1> QED
    BY <1>2, <1>4, <1>5, <1>6, <1>7, DeliverCases DEF GrowOld, RetryFailedDeliveries

\* A new row is the next one, and the watcher's alone.
LEMMA CreateStep ==
    ASSUME DeliveryInv, NEW d \in Rows, Create(d)
    PROVE  /\ ~There(d) /\ accepted[d] = 0 /\ pc["watcher"] = "idle"
           /\ \A e \in 1..(d - 1) : There(e)
           /\ rows'[d].status = "pending" /\ \A e \in Rows \ {d} : rows'[e] = rows[e]
           /\ \A e \in Rows : There(e)' <=> There(e) \/ e = d
           /\ pc'["watcher"] # "idle" /\ target'["watcher"].row = d
           /\ \A v \in Workers, e \in Rows :
                  Holds(v, e)' <=> Holds(v, e) \/ (v = "watcher" /\ e = d)
           /\ UNCHANGED <<listed, accepted, excused>>
<1>1. TypeOK /\ "watcher" \in Workers
    BY DEF DeliveryInv, Workers
<1>2. /\ ~There(d) /\ pc["watcher"] = "idle" /\ \A e \in 1..(d - 1) : There(e)
      /\ Begin("watcher", d, callbackURL)
      /\ rows' = [rows EXCEPT ![d].status = "pending", ![d].url = callbackURL]
      /\ UNCHANGED <<listed, accepted, excused>>
    BY DEF Create, There, histories
<1>3. accepted[d] = 0
    BY <1>2 DEF DeliveryInv, RowsInv, There
<1>4. rows'[d].status = "pending" /\ \A e \in Rows \ {d} : rows'[e] = rows[e]
    BY <1>1, <1>2 DEF TypeOK, Row
<1>5. pc'["watcher"] # "idle" /\ target'["watcher"].row = d
    BY <1>1, <1>2 DEF Begin, TypeOK
<1>6. \A v \in Workers, e \in Rows :
          Holds(v, e)' <=> Holds(v, e) \/ (v = "watcher" /\ e = d)
    BY <1>1, <1>2, BeginHands
<1>7. \A e \in Rows : There(e)' <=> There(e) \/ e = d
    BY <1>4 DEF There
<1> QED
    BY <1>2, <1>3, <1>4, <1>5, <1>6, <1>7

LEMMA LatestNext ==
    ASSUME DeliveryInv, NewsInv, LatestInv, [GatewayNext]_gatewayVars
    PROVE  LatestInv'
<1>1. ASSUME NEW d \in Rows, Create(d)
      PROVE  LatestInv'
    <2> SUFFICES ASSUME NEW e \in Rows, There(e)' PROVE e <= d
        BY <1>1, CreateStep DEF LatestInv
    <2>1. There(e) \/ e = d
        BY <1>1, CreateStep
    <2>2. d < e => ~There(e)
        BY <1>1, CreateStep DEF NewsInv
    <2> QED
        BY <2>1, <2>2 DEF Rows
<1>2. CASE Deliver
    <2> SUFFICES ASSUME pc'["watcher"] # "idle", NEW e \in Rows, There(e)'
                 PROVE  e <= target'["watcher"].row
        BY DEF LatestInv
    <2> QED
        BY <1>2, DeliverKeepsRows, DeliverKeepsTarget DEF LatestInv
<1>3. CASE UNCHANGED vars
    BY <1>3 DEF vars, LatestInv, There
<1> QED
    BY <1>1, <1>2, <1>3, GatewayStepDelivers DEF Next

LEMMA NewsNext ==
    ASSUME DeliveryInv, GatewayTypeOK, VerdictsInv, NewsInv, [GatewayNext]_gatewayVars
    PROVE  NewsInv'
<1>1. \A d, e \in Rows : d < e /\ There(e)' => There(d)'
    <2>1. ASSUME NEW c \in Rows, Create(c), NEW d \in Rows, NEW e \in Rows, d < e, There(e)'
          PROVE  There(d)'
        <3>1. There(e) => There(d)
            BY <2>1 DEF NewsInv
        <3>2. e = c => There(d)
            <4>1. e = c => d \in 1..(c - 1)
                BY <2>1 DEF Rows
            <4> QED
                BY <2>1, <4>1, CreateStep
        <3> QED
            BY <2>1, <3>1, <3>2, CreateStep
    <2>2. Deliver => \A d, e \in Rows : d < e /\ There(e)' => There(d)'
        BY DeliverKeepsRows DEF NewsInv
    <2>3. UNCHANGED vars => \A d, e \in Rows : d < e /\ There(e)' => There(d)'
        BY DEF vars, NewsInv, There
    <2> QED
        BY <2>1, <2>2, <2>3, GatewayStepDelivers DEF Next
<1> DEFINE Fits(d) == /\ news[d].invoice \in Invoices
                      /\ news[d].nth \in 1..Len(announced[news[d].invoice])
<1>2. ASSUME NEW i \in Invoices, NEW s \in Changes, Lifecycle!Announce(i, s),
             NEW d \in Rows, Fits(d), news'[d] = news[d]
      PROVE  Fits(d)'
    <2> DEFINE j == news[d].invoice
    <2>1. j \in Invoices /\ news[d].nth \in 1..Len(announced[j])
        BY <1>2
    <2>2. CASE j = i
        <3>1. /\ Len(announced[i]) \in Nat
              /\ Len(announced'[i]) = Len(announced[i]) + 1
            BY <1>2, AnnouncedStep
        <3> QED
            BY <1>2, <2>1, <2>2, <3>1
    <2>3. CASE j # i
        <3>1. announced'[j] = announced[j]
            BY <1>2, <2>1, <2>3, AnnouncedStep
        <3> QED
            BY <1>2, <2>1, <3>1
    <2> QED
        BY <2>2, <2>3
<1>3. \A d \in Rows : There(d)' => Fits(d)'
    <2>1. ASSUME NEW i \in Invoices, NEW s \in Changes, NEW c \in Rows, Announce(i, s, c),
                 NEW d \in Rows, There(d)'
          PROVE  Fits(d)'
        <3>1. /\ Lifecycle!Announce(i, s) /\ Create(c)
              /\ news' = [news EXCEPT ![c] = [invoice |-> i, nth |-> Len(announced[i]) + 1]]
            BY <2>1 DEF Announce
        <3>2. CASE d = c
            <4>1. news'[d] = [invoice |-> i, nth |-> Len(announced[i]) + 1]
                BY <3>1, <3>2 DEF GatewayTypeOK
            <4>2. Len(announced[i]) \in Nat /\ Len(announced'[i]) = Len(announced[i]) + 1
                BY <3>1, AnnouncedStep
            <4> QED
                BY <4>1, <4>2
        <3>3. CASE d # c
            <4>1. There(d) /\ news'[d] = news[d]
                BY <2>1, <3>1, <3>3, CreateStep DEF GatewayTypeOK
            <4>2. Fits(d)
                BY <4>1 DEF NewsInv
            <4> HIDE DEF Fits
            <4> QED
                BY <1>2, <3>1, <4>1, <4>2
        <3> QED
            BY <3>2, <3>3
    <2>2. ASSUME NEW i \in Invoices, NEW s \in Changes, AnnounceToNobody(i, s),
                 NEW d \in Rows, There(d)'
          PROVE  Fits(d)'
        <3>1. Lifecycle!Announce(i, s) /\ news' = news /\ There(d)
            BY <2>2 DEF AnnounceToNobody, vars, There
        <3>2. Fits(d)
            BY <3>1 DEF NewsInv
        <3> HIDE DEF Fits
        <3> QED
            BY <1>2, <3>1, <3>2
    <2>3. ASSUME UNCHANGED <<news, announced>>, UNCHANGED vars \/ Deliver,
                 NEW d \in Rows, There(d)'
          PROVE  Fits(d)'
        <3>1. There(d)
            BY <2>3, DeliverKeepsRows DEF vars, There
        <3> QED
            BY <2>3, <3>1 DEF NewsInv
    <2>4. CASE /\ \/ \E lapsed \in SUBSET Invoices : Lifecycle!Expire(lapsed)
                  \/ \E i \in Invoices : Lifecycle!Restore(i)
               /\ UNCHANGED <<vars, news, heard, unheard>>
        <3>1. UNCHANGED <<news, announced>> /\ UNCHANGED vars
            BY <2>4, UnannouncedStep
        <3> HIDE DEF Fits
        <3> QED
            BY <2>3, <3>1
    <2>5. CASE Deliveries \/ UNCHANGED gatewayVars
        <3>1. UNCHANGED <<news, announced>> /\ (UNCHANGED vars \/ Deliver)
            BY <2>5 DEF Deliveries, gatewayVars, invoiceVars
        <3> HIDE DEF Fits
        <3> QED
            BY <2>3, <3>1
    <2> HIDE DEF Fits
    <2> QED
        BY <2>1, <2>2, <2>4, <2>5, GatewayCases
<1> QED
    BY <1>1, <1>3 DEF NewsInv, There

----------------------------------------------------------------------------
(* The rows without trouble                                                *)

\* An attempt that ends unheard is noted, and trouble stays trouble.
LEMMA TroubleStays ==
    ASSUME DeliveryInv, Deliveries
    PROVE  /\ unheard \subseteq unheard' /\ excused \subseteq excused'
           /\ \A w \in Workers : pc[w] # "idle" /\ pc'[w] = "idle" /\ answer[w] # "2xx" =>
                  target[w].row \in unheard'
<1>1. TypeOK
    BY DEF DeliveryInv
<1>2. unheard \subseteq unheard' /\ EndsUnheard \subseteq unheard'
    BY DEF Deliveries
<1>3. excused \subseteq excused'
    <2>1. \A w \in Workers : Attempt(w) => excused \subseteq excused'
        BY <1>1, AttemptIsLocal
    <2> QED
        BY <2>1, DeliverCases
        DEF Deliveries, GrowOld, RetryFailedDeliveries, RetryNext, handleWebhookRetry, Restart
<1> QED
    BY <1>2, <1>3 DEF EndsUnheard

LEMMA UntroubledDelivers ==
    ASSUME DeliveryInv, UntroubledInv, Deliveries
    PROVE  UntroubledInv'
<1> SUFFICES ASSUME NEW d \in Rows, There(d)', d \notin unheard' \cup excused'
             PROVE  Holds("watcher", d)' \/ (rows'[d].status = "delivered" /\ ~InHand(d)')
    BY DEF UntroubledInv, TroubleFree
<1> DEFINE Hers == Holds("watcher", d)
           Done == rows[d].status = "delivered" /\ ~InHand(d)
<1>1. /\ TypeOK /\ AnswersInv /\ "watcher" \in Workers /\ rows[d] \in Row
      /\ Deliver /\ d \notin excused
    BY TroubleStays DEF DeliveryInv, Workers, Deliveries, TypeOK
<1>2. OneHand(d)
    BY <1>1 DEF DeliveryInv, HandsInv
<1>3. Hers \/ Done
    BY <1>1, TroubleStays, DeliverKeepsRows DEF UntroubledInv, TroubleFree
<1>4. Hers => \A w \in Workers : Holds(w, d) => w = "watcher"
    BY <1>1, <1>2 DEF OneHand
<1>5. Hers => InHand(d) /\ ~Listed(d)
    BY <1>1, <1>2, InHandCases DEF OneHand
<1>6. InHand(d)' <=> Listed(d)' \/ \E w \in Workers : Holds(w, d)'
    BY DEF InHand, Listed, Holds
<1>7. ASSUME NEW w \in Workers, Attempt(w)
      PROVE  Hers' \/ Done'
    <2>1. CASE target[w].row = d
        <3>1. w = "watcher" /\ Holds(w, d) /\ ~Listed(d)
            BY <1>1, <1>3, <1>4, <1>5, <1>7, <2>1, AttemptIsLocal, InHandCases DEF Holds
        <3>2. pc'[w] = "idle" => answer[w] = "2xx"
            BY <2>1, <3>1, TroubleStays DEF Holds
        <3>3. CASE pc'[w] # "idle"
            <4>1. target'[w] = target[w]
                BY <1>1, <1>7, <3>3, AttemptEffects
            <4> QED
                BY <2>1, <3>1, <3>3, <4>1 DEF Holds
        <3>4. CASE pc'[w] = "idle"
            <4>1. rows'[d] = [rows[d] EXCEPT !.status = "delivered", !.deliveredAt = TRUE]
                BY <1>1, <1>7, <2>1, <3>2, <3>4, AttemptEffects DEF AnswersInv
            <4>2. rows'[d].status = "delivered"
                BY <1>1, <4>1 DEF Row
            <4>3. ~Listed(d)'
                BY <1>1, <1>7, <3>1, AttemptIsLocal DEF Listed
            <4>4. \A v \in Workers : ~Holds(v, d)'
                <5>1. ~Holds(w, d)'
                    BY <3>4 DEF Holds
                <5>2. \A v \in Workers \ {w} : ~Holds(v, d)
                    BY <1>4, <3>1
                <5> QED
                    BY <1>1, <1>7, <5>1, <5>2, AttemptIsLocal DEF Holds
            <4> QED
                BY <1>6, <4>2, <4>3, <4>4
        <3> QED
            BY <3>3, <3>4
    <2>2. CASE target[w].row # d
        <3>1. \A v \in Workers : Holds(v, d)' <=> Holds(v, d)
            <4>1. ~Holds(w, d) /\ ~Holds(w, d)'
                BY <1>1, <1>7, <2>2, AttemptHands DEF Holds
            <4> QED
                BY <1>1, <1>7, <4>1, AttemptIsLocal DEF Holds
        <3>2. rows'[d] = rows[d] /\ (Listed(d)' <=> Listed(d))
            BY <1>1, <1>7, <2>2, AttemptIsLocal DEF Listed
        <3> QED
            BY <1>1, <1>3, <1>6, <3>1, <3>2, InHandCases
    <2> QED
        BY <2>1, <2>2
<1>8. ASSUME NEW e \in Rows, GrowOld(e)
      PROVE  Hers' \/ Done'
    <2>1. rows'[d].status = rows[d].status
        BY <1>1, <1>8 DEF GrowOld, TypeOK, Row
    <2> QED
        BY <1>3, <1>8, <2>1 DEF GrowOld, Holds, InHand
<1>9. CASE RetryFailedDeliveries
    <2>1. ~(Hers /\ d \in ListRetryable)
        BY <1>5, <1>9 DEF RetryFailedDeliveries
    <2>2. Done => d \notin ListRetryable
        BY DEF ListRetryable, Undelivered
    <2>3. Listed(d)' => d \in ListRetryable
        BY <1>9 DEF RetryFailedDeliveries, Listed
    <2>4. \A v \in Workers : Holds(v, d)' <=> Holds(v, d)
        BY <1>9 DEF RetryFailedDeliveries, Holds
    <2>5. rows' = rows
        BY <1>9 DEF RetryFailedDeliveries
    <2> QED
        BY <1>1, <1>3, <1>6, <2>1, <2>2, <2>3, <2>4, <2>5, InHandCases
<1>10. ASSUME NEW t \in listed, RetryNext(t)
       PROVE  Hers' \/ Done'
    <2>1. t.row # d
        BY <1>3, <1>5, InHandCases DEF Listed
    <2>2. \A v \in Workers : Holds(v, d)' <=> Holds(v, d)
        BY <1>1, <1>10, <2>1, BeginHands DEF RetryNext, Workers, TypeOK
    <2>3. rows' = rows /\ (Listed(d)' => Listed(d))
        BY <1>10 DEF RetryNext, Listed
    <2> QED
        BY <1>1, <1>3, <1>6, <2>2, <2>3, InHandCases
<1>11. ASSUME NEW a \in Admins, NEW e \in Rows, handleWebhookRetry(a, e)
       PROVE  Hers' \/ Done'
    <2>1. e # d
        BY <1>3, <1>5, <1>11 DEF handleWebhookRetry, Undelivered
    <2>2. \A v \in Workers : Holds(v, d)' <=> Holds(v, d)
        BY <1>1, <1>11, <2>1, BeginHands DEF handleWebhookRetry, Workers
    <2>3. rows' = rows /\ (Listed(d)' <=> Listed(d))
        BY <1>11 DEF handleWebhookRetry, Listed
    <2> QED
        BY <1>1, <1>3, <1>6, <2>2, <2>3, InHandCases
<1>12. ASSUME NEW url \in URLs \cup {NoURL}, Restart(url)
       PROVE  Hers' \/ Done'
    <2>1. pc'["watcher"] = "idle" /\ rows' = rows /\ ~InHand(d)'
        BY <1>1, <1>12 DEF Restart, InHand
    <2>2. ~Hers
        <3>1. Hers /\ answer["watcher"] = "2xx" => d \in excused'
            BY <1>1, <1>12 DEF Restart, Holds
        <3>2. Hers /\ answer["watcher"] # "2xx" => d \in unheard'
            BY <1>1, <2>1, TroubleStays DEF Holds
        <3> QED
            BY <3>1, <3>2
    <2> QED
        BY <1>3, <2>1, <2>2
<1> QED
    BY <1>1, <1>7, <1>8, <1>9, <1>10, <1>11, <1>12, DeliverCases

LEMMA UntroubledNext ==
    ASSUME DeliveryInv, UntroubledInv, [GatewayNext]_gatewayVars
    PROVE  UntroubledInv'
<1>1. ASSUME NEW i \in Invoices, NEW s \in Changes, NEW d \in Rows, Announce(i, s, d)
      PROVE  UntroubledInv'
    <2> SUFFICES ASSUME NEW e \in Rows, There(e)', e \notin unheard' \cup excused'
                 PROVE  Holds("watcher", e)' \/ (rows'[e].status = "delivered" /\ ~InHand(e)')
        BY DEF UntroubledInv, TroubleFree
    <2>1. Create(d) /\ unheard' = unheard /\ "watcher" \in Workers
        BY <1>1 DEF Announce, Workers
    <2>2. CASE e = d
        BY <2>1, <2>2, CreateStep
    <2>3. CASE e # d
        <3>1. /\ There(e) /\ TroubleFree(e) /\ rows'[e] = rows[e]
              /\ \A v \in Workers : Holds(v, e)' <=> Holds(v, e)
              /\ listed' = listed
            BY <2>1, <2>3, CreateStep DEF TroubleFree
        <3>2. Holds("watcher", e) \/ (rows[e].status = "delivered" /\ ~InHand(e))
            BY <3>1 DEF UntroubledInv
        <3>3. InHand(e)' => InHand(e)
            <4>1. InHand(e)' <=> Listed(e)' \/ \E w \in Workers : Holds(w, e)'
                BY DEF InHand, Listed, Holds
            <4> QED
                BY <3>1, <4>1, InHandCases DEF Listed
        <3> QED
            BY <2>1, <3>1, <3>2, <3>3
    <2> QED
        BY <2>2, <2>3
<1>2. ASSUME UNCHANGED <<vars, unheard>>
      PROVE  UntroubledInv'
    BY <1>2 DEF vars, UntroubledInv, TroubleFree, There, Holds, InHand
<1>3. Deliveries => UntroubledInv'
    BY UntroubledDelivers
<1> QED
    BY <1>1, <1>2, <1>3, GatewayCases DEF AnnounceToNobody, gatewayVars

\* The steps that are an answer of the merchant's: one row, accepted once more.
LEMMA AcceptingStep ==
    ASSUME DeliveryInv, Deliver
    PROVE  \/ accepted' = accepted
           \/ \E d \in Rows : /\ accepted'[d] = accepted[d] + 1 /\ InHand(d)
                              /\ \A e \in Rows \ {d} : accepted'[e] = accepted[e]
<1>1. TypeOK /\ AnswersInv
    BY DEF DeliveryInv
<1>2. ASSUME NEW w \in Workers, Attempt(w)
      PROVE  \/ accepted' = accepted
             \/ \E d \in Rows : /\ accepted'[d] = accepted[d] + 1 /\ InHand(d)
                                /\ \A e \in Rows \ {d} : accepted'[e] = accepted[e]
    <2>1. PICK d \in Rows : d = target[w].row /\ InHand(d)
        BY <1>1, <1>2, AttemptIsLocal DEF InHand
    <2>2. \A e \in Rows \ {d} : accepted'[e] = accepted[e]
        BY <1>1, <1>2, <2>1, AttemptIsLocal
    <2>3. accepted'[d] \in {accepted[d], accepted[d] + 1}
        BY <1>1, <1>2, <2>1, AttemptEffects DEF histories
    <2>4. accepted'[d] = accepted[d] => accepted' = accepted
        <3>1. accepted' \in [Rows -> Nat] /\ accepted \in [Rows -> Nat]
            BY <1>1, <1>2, AttemptTypes DEF TypeOK
        <3> QED
            BY <2>2, <3>1
    <2> QED
        BY <2>1, <2>2, <2>3, <2>4
<1> QED
    BY <1>2, DeliverCases
    DEF GrowOld, RetryFailedDeliveries, RetryNext, handleWebhookRetry, Restart, histories

LEMMA InOrderDelivers ==
    ASSUME DeliveryInv, DeliveryInv', NewsInv, LatestInv, UntroubledInv,
           InOrderUnlessRetried, Deliveries
    PROVE  InOrderUnlessRetried'
<1> SUFFICES ASSUME NEW i \in Invoices, NEW d \in Rows,
                    news'[d].invoice = i, accepted'[d] > 0, d > heard'[i]
             PROVE  heard'[i] \in unheard' \cup excused'
    BY DEF InOrderUnlessRetried, Told
<1> DEFINE new == {e \in Rows : accepted'[e] > accepted[e] /\ news[e].invoice = i}
<1>1. /\ heard'[i] = IF new = {} THEN heard[i] ELSE CHOOSE e \in new : TRUE
      /\ news' = news /\ Deliver
    BY DEF Deliveries, invoiceVars
<1>2. /\ unheard \subseteq unheard' /\ excused \subseteq excused'
      /\ accepted \in [Rows -> Nat]
    BY TroubleStays DEF DeliveryInv, TypeOK
<1>3. CASE new = {}
    <2>1. accepted[d] > 0
        <3>1. accepted'[d] \in Nat /\ accepted[d] \in Nat /\ ~(accepted'[d] > accepted[d])
            BY <1>1, <1>3 DEF DeliveryInv, TypeOK
        <3> QED
            BY <3>1
    <2>2. heard[i] \in unheard \cup excused
        BY <1>1, <1>3, <2>1 DEF InOrderUnlessRetried, Told
    <2> QED
        BY <1>1, <1>2, <1>3, <2>2
<1>4. CASE new # {}
    <2>1. PICK e \in Rows : /\ accepted'[e] = accepted[e] + 1 /\ InHand(e)
                            /\ \A f \in Rows \ {e} : accepted'[f] = accepted[f]
        <3>1. accepted' # accepted
            BY <1>2, <1>4
        <3> QED
            BY <1>1, <3>1, AcceptingStep
    <2>2. new = {e}
        <3>1. new \subseteq {e}
            BY <1>2, <2>1
        <3> QED
            BY <1>4, <3>1
    <2>3. heard'[i] = e
        BY <1>1, <2>2
    <2>4. e < d /\ accepted[d] > 0
        BY <2>1, <2>3 DEF Rows
    <2>5. There(d) /\ There(e)
        BY <2>1, <2>4 DEF DeliveryInv, RowsInv, There, NewsInv
    <2>6. ~Holds("watcher", e)
        BY <2>4, <2>5 DEF LatestInv, Holds, Rows
    <2>7. e \in unheard \cup excused
        BY <2>1, <2>5, <2>6 DEF UntroubledInv, TroubleFree
    <2> QED
        BY <1>2, <2>3, <2>7
<1> QED
    BY <1>3, <1>4

LEMMA InOrderNext ==
    ASSUME DeliveryInv, DeliveryInv', GatewayTypeOK, NewsInv, LatestInv, UntroubledInv,
           InOrderUnlessRetried, [GatewayNext]_gatewayVars
    PROVE  InOrderUnlessRetried'
<1>1. ASSUME NEW i \in Invoices, NEW s \in Changes, NEW d \in Rows, Announce(i, s, d)
      PROVE  InOrderUnlessRetried'
    <2>1. Create(d) /\ UNCHANGED <<heard, unheard>>
        BY <1>1 DEF Announce
    <2>2. \A e \in Rows \ {d} : news'[e] = news[e]
        BY <1>1 DEF Announce, GatewayTypeOK
    <2>3. accepted' = accepted /\ accepted[d] = 0 /\ excused' = excused
        BY <2>1, CreateStep
    <2> QED
        BY <2>1, <2>2, <2>3 DEF InOrderUnlessRetried, Told
<1>2. ASSUME UNCHANGED <<vars, news, heard, unheard>>
      PROVE  InOrderUnlessRetried'
    BY <1>2 DEF vars, histories, InOrderUnlessRetried, Told
<1>3. Deliveries => InOrderUnlessRetried'
    BY InOrderDelivers
<1> QED
    BY <1>1, <1>2, <1>3, GatewayCases DEF AnnounceToNobody, gatewayVars, invoiceVars

----------------------------------------------------------------------------
(* Theorems                                                                *)

LEMMA InitGatewayInv == GatewayInit => GatewayInv
<1> SUFFICES ASSUME GatewayInit PROVE GatewayInv
    OBVIOUS
<1>1. DeliveryInv
    BY InitDeliveryInv DEF GatewayInit
<1>2. GatewayTypeOK
    BY GatewayTypeInit
<1>3. VerdictsInv
    BY DEF GatewayInit, Lifecycle!Init, VerdictsInv
<1>4. NewsInv /\ LatestInv /\ UntroubledInv
    BY DEF GatewayInit, Init, NewsInv, LatestInv, UntroubledInv, There, Workers
<1>5. InOrderUnlessRetried
    BY DEF GatewayInit, Init, InOrderUnlessRetried, Told
<1> QED
    BY <1>1, <1>2, <1>3, <1>4, <1>5 DEF GatewayInv

LEMMA NextGatewayInv == GatewayInv /\ [GatewayNext]_gatewayVars => GatewayInv'
<1> SUFFICES ASSUME GatewayInv, [GatewayNext]_gatewayVars PROVE GatewayInv'
    OBVIOUS
<1>1. DeliveryInv'
    BY NextDeliveryInv, GatewayStepDelivers DEF GatewayInv
<1>2. GatewayTypeOK' /\ VerdictsInv'
    BY GatewayTypeNext, VerdictsNext DEF GatewayInv
<1>3. NewsInv' /\ LatestInv' /\ UntroubledInv'
    BY NewsNext, LatestNext, UntroubledNext DEF GatewayInv
<1>4. InOrderUnlessRetried'
    BY <1>1, InOrderNext DEF GatewayInv
<1> QED
    BY <1>1, <1>2, <1>3, <1>4 DEF GatewayInv

LEMMA AlwaysGatewayInv == GatewaySpec => []GatewayInv
    BY InitGatewayInv, NextGatewayInv, PTL DEF GatewaySpec

\* Rows outlive the process, are retried in any order and may be accepted long after
\* they were made; still no merchant ever accepts two verdicts on an invoice, and the
\* gateway keeps showing the one it did.
THEOREM VerdictsStand == GatewaySpec => []VerdictStands
<1>1. GatewayInv => VerdictStands
    <2> SUFFICES ASSUME GatewayInv PROVE VerdictStands
        OBVIOUS
    <2>1. \A i \in Invoices : \A d \in Told(i) :
              news[d].invoice = i /\ news[d].nth \in 1..Len(announced[i])
        <3>1. \A d \in Rows : accepted[d] > 0 => There(d)
            BY DEF GatewayInv, DeliveryInv, RowsInv, There
        <3> QED
            BY <3>1 DEF GatewayInv, NewsInv, Told
    <2> QED
        BY <2>1 DEF GatewayInv, VerdictsInv, VerdictStands, Says
<1> QED
    BY <1>1, AlwaysGatewayInv, PTL

\* The watcher makes the first attempt at a row before it handles another event, so a
\* merchant hears an older row after a newer one only if an attempt at the older one
\* went unheard, overlapped another, or lost its outcome.
THEOREM NewsComeInOrder == GatewaySpec => []InOrderUnlessRetried
<1>1. GatewayInv => InOrderUnlessRetried
    BY DEF GatewayInv
<1> QED
    BY <1>1, AlwaysGatewayInv, PTL
=============================================================================
