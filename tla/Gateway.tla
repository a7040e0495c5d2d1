------------------------------- MODULE Gateway -------------------------------
(***************************************************************************)
(* The gateway as its merchant sees it: invoices that change status (the   *)
(* abstract lifecycle, which Watcher is shown to implement) and the        *)
(* webhooks that tell of the changes (Delivery, with all its workers).     *)
(*                                                                         *)
(* The two meet in one step, the database transaction that writes a status *)
(* and its delivery row.  While no callback URL is configured, statuses    *)
(* change and no row is ever made for them.                                *)
(***************************************************************************)
EXTENDS Delivery, Sequences

CONSTANTS
    Invoices,
    Changes,    \* the statuses the wallet's events bring about
    MaxNews     \* bound on the statuses an invoice goes through

ASSUME NewsAssumption ==
    /\ MaxNews \in Nat
    /\ Changes \subseteq {"seen", "underpaid", "confirmed", "rejected"}

VARIABLES
    status,     \* the invoices table
    announced,  \* the statuses an invoice took, its expiries aside
    news,       \* what each delivery row says: the nth status of an invoice
    heard,      \* history: the row the merchant accepted last, per invoice
    unheard     \* history: rows an attempt at which ended with no 2xx answer

Lifecycle == INSTANCE InvoiceLifecycle

invoiceVars == <<status, announced, news>>
gatewayVars == <<vars, invoiceVars, heard, unheard>>

GatewayInit ==
    /\ Init
    /\ Lifecycle!Init
    /\ news = [d \in Rows |-> [invoice |-> 0, nth |-> 0]]
    /\ heard = [i \in Invoices |-> 0]
    /\ unheard = {}

\* The watcher handles one wallet event at a time, the first attempt at the row
\* it made included.
watcherIdle == pc["watcher"] = "idle"

\* updateStatusAndCreateDelivery, and then webhook.Attempt.
Announce(i, s, d) ==
    /\ Len(announced[i]) < MaxNews
    /\ Lifecycle!Announce(i, s)
    /\ Create(d)
    /\ news' = [news EXCEPT ![d] = [invoice |-> i, nth |-> Len(announced[i]) + 1]]
    /\ UNCHANGED <<heard, unheard>>

\* The same change in a process that has no callback URL.
AnnounceToNobody(i, s) ==
    /\ watcherIdle /\ callbackURL = NoURL
    /\ Len(announced[i]) < MaxNews
    /\ Lifecycle!Announce(i, s)
    /\ UNCHANGED <<vars, news, heard, unheard>>

\* The sweep, and an event that writes back the status it read.
ExpireStale(lapsed) ==
    /\ \E i \in lapsed : status[i] # "expired"
    /\ Lifecycle!Expire(lapsed)
    /\ UNCHANGED <<vars, news, heard, unheard>>

RewriteStatus(i) ==
    /\ watcherIdle
    /\ status[i] = "expired"
    /\ Lifecycle!Restore(i)
    /\ UNCHANGED <<vars, news, heard, unheard>>

\* The rows whose attempt, by whatever worker, ends in this step with no 2xx.
EndsUnheard ==
    {target[w].row : w \in {v \in Workers : /\ pc[v] # "idle" /\ pc'[v] = "idle"
                                            /\ answer[v] # "2xx"}}

\* Every other step is Delivery's.  The merchant takes note of what it accepts.
Deliveries ==
    /\ Deliver
    /\ heard' = [i \in Invoices |->
                   LET new == {d \in Rows : /\ accepted'[d] > accepted[d]
                                            /\ news[d].invoice = i}
                   IN IF new = {} THEN heard[i] ELSE CHOOSE d \in new : TRUE]
    /\ unheard' = unheard \cup EndsUnheard
    /\ UNCHANGED invoiceVars

GatewayNext ==
    \/ \E i \in Invoices, s \in Changes :
         \/ \E d \in Rows : Announce(i, s, d)
         \/ AnnounceToNobody(i, s)
    \/ \E lapsed \in SUBSET Invoices : ExpireStale(lapsed)
    \/ \E i \in Invoices : RewriteStatus(i)
    \/ Deliveries

GatewaySpec == GatewayInit /\ [][GatewayNext]_gatewayVars

\* Fairness as in Delivery: the retry loop's ticker, and nothing else.
GatewayFairSpec == GatewaySpec /\ WF_gatewayVars(Deliveries /\ retryLoop)

----------------------------------------------------------------------------
(* Properties                                                              *)

Says(d) == announced[news[d].invoice][news[d].nth]
Told(i) == {d \in Rows : news[d].invoice = i /\ accepted[d] > 0}

\* A verdict a merchant has accepted stands: GET /invoice shows it from then on,
\* and no other verdict is ever made known, whatever is swept, repeated, retried
\* or configured in between.  A merchant may act on the first verdict it hears.
VerdictStands ==
    \A i \in Invoices : \A d \in Told(i) :
        Says(d) \in Lifecycle!Final =>
          /\ status[i] = Says(d)
          /\ \A e \in Told(i) : Says(e) \in Lifecycle!Final => Says(e) = Says(d)

\* The payloads carry no number, so a merchant takes the last one it accepted to
\* be the news.  That one is older than another it accepted only after trouble
\* with the older row: an attempt at it that got no 2xx or was interrupted, two
\* attempts that overlapped, or an outcome that was lost.  Without trouble the
\* merchant hears of every change in the order the changes were made.
InOrderUnlessRetried ==
    \A i \in Invoices : \A d \in Told(i) :
        d > heard[i] => heard[i] \in unheard \cup excused
=============================================================================
