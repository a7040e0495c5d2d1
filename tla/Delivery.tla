------------------------------- MODULE Delivery -------------------------------
(***************************************************************************)
(* internal/webhook and everything that calls it: webhook_deliveries rows  *)
(* and the three kinds of goroutine that run webhook.Attempt on them       *)
(* without knowing of each other: the event watcher (a row it has just     *)
(* created), the automatic retry loop, and the admin UI's retry button.    *)
(*                                                                         *)
(* Attempt is three steps with the network between them: increment the     *)
(* counter, POST to the merchant, record the outcome.  Nothing claims a    *)
(* row, so any number of attempts at one row may be under way at once.     *)
(***************************************************************************)
EXTENDS Integers, FiniteSets

CONSTANTS
    MaxRows,        \* bound on the rows the watcher creates
    Admins,         \* concurrent requests to the retry route
    URLs,           \* the callback URLs the operator may configure
    NoURL,          \* TARIPAY_WEBHOOK_CALLBACK_URL is not set
    MaxAttempts,    \* DefaultRetryMaxAttempts
    MaxManual,      \* bound on uses of the retry button
    MaxFaults,      \* bound on failed database statements and lost replies
    MaxRestarts     \* bound on restarts of the process

ASSUME DeliveryAssumption ==
    /\ MaxRows \in Nat /\ MaxAttempts \in Nat \ {0}
    /\ MaxManual \in Nat /\ MaxFaults \in Nat /\ MaxRestarts \in Nat
    /\ NoURL \notin URLs
    /\ Admins \cap {"watcher", "retry"} = {} /\ IsFiniteSet(Admins)

Rows == 1..MaxRows      \* in the order of created_at
Workers == {"watcher", "retry"} \cup Admins

VARIABLES
    rows,        \* the table; a row that is not there yet has status "none"
    callbackURL, \* the process's configuration
    pc,          \* where each worker is in webhook.Attempt
    target,      \* the *Delivery it was given: which row, and where to send
    answer,      \* what its Send returned
    listed,      \* the retry loop's deliveries not yet attempted
    accepted,    \* history: 2xx answers the merchant gave, per row
    sent,        \* history: requests made, per row
    automatic,   \* history: attempts of the retry loop, per row
    excused,     \* history: rows whose outcome was lost, or shared by workers
    manual, faults, restarts

histories == <<accepted, sent, automatic>>
bounds == <<manual, faults, restarts>>
vars == <<rows, callbackURL, pc, target, answer, listed, histories, excused,
          bounds>>

Row == [status : {"none", "pending", "failed", "delivered"},
        attempts : Nat, deliveredAt : BOOLEAN, url : URLs \cup {NoURL},
        old : BOOLEAN]
Target == [row : Rows \cup {0}, url : URLs \cup {NoURL}]
NoTarget == [row |-> 0, url |-> NoURL]

Init ==
    /\ rows = [d \in Rows |-> [status |-> "none", attempts |-> 0,
                               deliveredAt |-> FALSE, url |-> NoURL,
                               old |-> FALSE]]
    /\ callbackURL \in URLs \cup {NoURL}
    /\ pc = [w \in Workers |-> "idle"]
    /\ target = [w \in Workers |-> NoTarget]
    /\ answer = [w \in Workers |-> "none"]
    /\ listed = {}
    /\ accepted = [d \in Rows |-> 0]
    /\ sent = [d \in Rows |-> 0]
    /\ automatic = [d \in Rows |-> 0]
    /\ excused = {}
    /\ manual = 0 /\ faults = 0 /\ restarts = 0

Fail == faults < MaxFaults /\ faults' = faults + 1

\* Some worker holds row d, or the retry loop is going to attempt it.
InHand(d) ==
    \/ \E w \in Workers : pc[w] # "idle" /\ target[w].row = d
    \/ \E t \in listed : t.row = d

Undelivered(d) == rows[d].status \in {"failed", "pending"}

----------------------------------------------------------------------------
(* webhook.Attempt                                                         *)

\* A worker calls Attempt with a row it read and the URL it is to use.
Begin(w, d, url) ==
    /\ pc' = [pc EXCEPT ![w] = "increment"]
    /\ target' = [target EXCEPT ![w] = [row |-> d, url |-> url]]

Return(w) ==
    /\ pc' = [pc EXCEPT ![w] = "idle"]
    /\ target' = [target EXCEPT ![w] = NoTarget]
    /\ answer' = [answer EXCEPT ![w] = "none"]

\* Mutant: the counter is bumped after the send, by MarkDelivered and
\* MarkFailed.
IncrementAttempts_Late(w) ==
    /\ pc[w] = "increment"
    /\ automatic' = IF w = "retry"
                      THEN [automatic EXCEPT ![target[w].row] = @ + 1]
                      ELSE automatic
    /\ pc' = [pc EXCEPT ![w] = "send"]
    /\ UNCHANGED <<rows, callbackURL, target, answer, listed, accepted, sent,
                   excused, bounds>>

IncrementAttempts(w) ==
    /\ pc[w] = "increment"
    /\ rows' = [rows EXCEPT ![target[w].row].attempts = @ + 1]
    /\ automatic' = IF w = "retry"
                      THEN [automatic EXCEPT ![target[w].row] = @ + 1]
                      ELSE automatic
    /\ pc' = [pc EXCEPT ![w] = "send"]
    /\ UNCHANGED <<callbackURL, target, answer, listed, accepted, sent,
                   excused, bounds>>

\* The statement fails, or its reply is lost after it committed: nothing is sent.
IncrementAttemptsFails(w) ==
    /\ pc[w] = "increment"
    /\ Fail
    /\ \/ UNCHANGED rows
       \/ rows' = [rows EXCEPT ![target[w].row].attempts = @ + 1]
    /\ Return(w)
    /\ UNCHANGED <<callbackURL, listed, histories, excused, manual, restarts>>

\* The merchant is asked.  A request to no URL never leaves the process.
Ask(w) ==
    /\ pc[w] = "send"
    /\ pc' = [pc EXCEPT ![w] = "mark"]
    /\ sent' = IF target[w].url = NoURL
                 THEN sent ELSE [sent EXCEPT ![target[w].row] = @ + 1]
    /\ UNCHANGED <<rows, callbackURL, target, listed, automatic, manual,
                   restarts>>

Accept(w) ==
    /\ target[w].url # NoURL
    /\ accepted' = [accepted EXCEPT ![target[w].row] = @ + 1]

SendSucceeds(w) ==
    /\ Ask(w)
    /\ Accept(w)
    /\ answer' = [answer EXCEPT ![w] = "2xx"]
    /\ UNCHANGED <<excused, faults>>

\* Refused, unreachable, or any answer that is not 2xx.
SendFails(w) ==
    /\ Ask(w)
    /\ answer' = [answer EXCEPT ![w] = "failed"]
    /\ UNCHANGED <<accepted, excused, faults>>

\* The merchant accepts, and its answer is lost or comes after the client's
\* 10 seconds.
SendTimesOut(w) ==
    /\ Ask(w)
    /\ Accept(w)
    /\ Fail
    /\ answer' = [answer EXCEPT ![w] = "failed"]
    /\ excused' = excused \cup {target[w].row}

\* Mutant: every answer counts as a delivery.
MarkDelivered_AnyAnswer(w) ==
    /\ pc[w] = "mark"
    /\ rows' = [rows EXCEPT ![target[w].row].status = "delivered",
                            ![target[w].row].deliveredAt = TRUE]
    /\ Return(w)
    /\ UNCHANGED <<callbackURL, listed, histories, excused, bounds>>

\* Mutant: delivered_at is set and the status forgotten.
MarkDelivered_DateOnly(w) ==
    /\ pc[w] = "mark" /\ answer[w] = "2xx"
    /\ rows' = [rows EXCEPT ![target[w].row].deliveredAt = TRUE]
    /\ Return(w)
    /\ UNCHANGED <<callbackURL, listed, histories, excused, bounds>>

MarkDelivered(w) ==
    /\ pc[w] = "mark" /\ answer[w] = "2xx"
    /\ rows' = [rows EXCEPT ![target[w].row].status = "delivered",
                            ![target[w].row].deliveredAt = TRUE]
    /\ Return(w)
    /\ UNCHANGED <<callbackURL, listed, histories, excused, bounds>>

\* Mutant: a status of its own for attempts that got an answer.
MarkFailed_NewStatus(w) ==
    /\ pc[w] = "mark" /\ answer[w] = "failed"
    /\ rows' = [rows EXCEPT ![target[w].row].status = "refused"]
    /\ Return(w)
    /\ UNCHANGED <<callbackURL, listed, histories, excused, bounds>>

\* delivered_at is not in the statement's SET list.
MarkFailed(w) ==
    /\ pc[w] = "mark" /\ answer[w] = "failed"
    /\ rows' = [rows EXCEPT ![target[w].row].status = "failed"]
    /\ Return(w)
    /\ UNCHANGED <<callbackURL, listed, histories, excused, bounds>>

\* Neither statement gets through: the row says nothing of this attempt.
MarkFails(w) ==
    /\ pc[w] = "mark"
    /\ Fail
    /\ Return(w)
    /\ excused' = IF answer[w] = "2xx" THEN excused \cup {target[w].row}
                                       ELSE excused
    /\ UNCHANGED <<rows, callbackURL, listed, histories, manual, restarts>>

Attempt(w) ==
    \/ IncrementAttempts(w) \/ IncrementAttemptsFails(w)
    \/ SendSucceeds(w) \/ SendFails(w) \/ SendTimesOut(w)
    \/ MarkDelivered(w) \/ MarkFailed(w) \/ MarkFails(w)

----------------------------------------------------------------------------
(* The callers                                                             *)

\* fireWebhook: the row is committed (with the invoice's status, see Watcher)
\* and attempted at once.  The watcher does one thing at a time.
Create(d) ==
    /\ callbackURL # NoURL
    /\ pc["watcher"] = "idle"
    /\ rows[d].status = "none" /\ \A e \in 1..(d - 1) : rows[e].status # "none"
    /\ rows' = [rows EXCEPT ![d].status = "pending", ![d].url = callbackURL]
    /\ Begin("watcher", d, callbackURL)
    /\ UNCHANGED <<callbackURL, answer, listed, histories, excused, bounds>>

\* Mutant: the cap is off by one.
ListRetryable_OneMore ==
    {d \in Rows : Undelivered(d) /\ ~rows[d].old /\ rows[d].attempts <= MaxAttempts}

\* Mutant: rows that were never attempted are left to the watcher.
ListRetryable_FailedOnly ==
    {d \in Rows : /\ rows[d].status = "failed"
                  /\ ~rows[d].old
                  /\ rows[d].attempts < MaxAttempts}

ListRetryable ==
    {d \in Rows : Undelivered(d) /\ ~rows[d].old /\ rows[d].attempts < MaxAttempts}

\* One tick of runWebhookRetryLoop: the rows, as they are now, are the list the
\* whole pass works through.  A failed query is a tick that does nothing.
RetryFailedDeliveries ==
    /\ pc["retry"] = "idle" /\ listed = {}
    /\ ListRetryable # {}
    /\ listed' = {[row |-> d, url |-> rows[d].url] : d \in ListRetryable}
    /\ excused' = excused \cup {d \in ListRetryable : InHand(d)}
    /\ UNCHANGED <<rows, callbackURL, pc, target, answer, histories, bounds>>

\* The next delivery of the pass, oldest first, with the URL the row was
\* created with.
RetryNext(t) ==
    /\ pc["retry"] = "idle"
    /\ t \in listed /\ \A u \in listed : t.row <= u.row
    /\ listed' = listed \ {t}
    /\ Begin("retry", t.row, t.url)
    /\ UNCHANGED <<rows, callbackURL, answer, histories, excused, bounds>>

\* Mutant: the button works on any row.
handleWebhookRetry_AnyStatus(a, d) ==
    /\ pc[a] = "idle" /\ manual < MaxManual
    /\ rows[d].status # "none"
    /\ Begin(a, d, callbackURL)
    /\ manual' = manual + 1
    /\ excused' = IF InHand(d) THEN excused \cup {d} ELSE excused
    /\ UNCHANGED <<rows, callbackURL, answer, listed, histories, faults,
                   restarts>>

\* The retry button: a row that is not pending or failed is answered 409; the
\* request goes to the URL configured now.
handleWebhookRetry(a, d) ==
    /\ pc[a] = "idle" /\ manual < MaxManual
    /\ Undelivered(d)
    /\ Begin(a, d, callbackURL)
    /\ manual' = manual + 1
    /\ excused' = IF InHand(d) THEN excused \cup {d} ELSE excused
    /\ UNCHANGED <<rows, callbackURL, answer, listed, histories, faults,
                   restarts>>

----------------------------------------------------------------------------
(* The environment                                                         *)

\* DefaultRetryMaxAge passes since the row was created.
GrowOld(d) ==
    /\ rows[d].status # "none" /\ ~rows[d].old
    /\ rows' = [rows EXCEPT ![d].old = TRUE]
    /\ UNCHANGED <<callbackURL, pc, target, answer, listed, histories, excused,
                   bounds>>

\* The process stops, whatever its workers are doing, and comes back with the
\* configuration the operator wants now.
Restart(url) ==
    /\ restarts < MaxRestarts
    /\ restarts' = restarts + 1
    /\ callbackURL' = url
    /\ pc' = [w \in Workers |-> "idle"]
    /\ target' = [w \in Workers |-> NoTarget]
    /\ answer' = [w \in Workers |-> "none"]
    /\ listed' = {}
    /\ excused' = excused \cup {d \in Rows : \E w \in Workers :
                                  answer[w] = "2xx" /\ target[w].row = d}
    /\ UNCHANGED <<rows, histories, manual, faults>>

retryLoop ==
    \/ RetryFailedDeliveries
    \/ \E t \in listed : RetryNext(t)
    \/ Attempt("retry")

\* Everything but the creation of rows.
Deliver ==
    \/ \E w \in Workers \ {"retry"} : Attempt(w)
    \/ retryLoop
    \/ \E d \in Rows : GrowOld(d)
    \/ \E a \in Admins, d \in Rows : handleWebhookRetry(a, d)
    \/ \E url \in URLs \cup {NoURL} : Restart(url)

Next == Deliver \/ \E d \in Rows : Create(d)

Spec == Init /\ [][Next]_vars

\* The retry loop is driven by a ticker and every Send ends within the client's
\* timeout.  Nothing is assumed of the other workers or of the merchant.
FairSpec == Spec /\ WF_vars(retryLoop)

----------------------------------------------------------------------------
(* Properties                                                              *)

\* Every variable has its type; a worker inside Attempt has a row that exists.
TypeOK ==
    /\ rows \in [Rows -> Row]
    /\ callbackURL \in URLs \cup {NoURL}
    /\ pc \in [Workers -> {"idle", "increment", "send", "mark"}]
    /\ target \in [Workers -> Target]
    /\ answer \in [Workers -> {"none", "2xx", "failed"}]
    /\ listed \in SUBSET Target
    /\ \A w \in Workers : pc[w] # "idle" => target[w].row \in Rows
    /\ \A t \in listed : t.row \in Rows
    /\ accepted \in [Rows -> Nat] /\ sent \in [Rows -> Nat]
    /\ automatic \in [Rows -> Nat]
    /\ excused \in SUBSET Rows
    /\ manual \in Nat /\ faults \in Nat /\ restarts \in Nat

\* A row says delivered, or has a delivery date, only if the merchant really
\* accepted it, whichever of the concurrent attempts wrote the row last.
DeliveredIsTrue ==
    \A d \in Rows :
        rows[d].status = "delivered" \/ rows[d].deliveredAt => accepted[d] > 0

\* The attempts counter covers every request that was made or is being made,
\* with any number of attempts at the row under way and with crashes between
\* the three steps: no increment is lost.
AttemptsCoverSends ==
    \A d \in Rows :
        sent[d] + Cardinality({w \in Workers : pc[w] = "send"
                                               /\ target[w].row = d})
            <= rows[d].attempts

\* DefaultRetryMaxAttempts: the retry loop, on a list that may be stale by the
\* time it is worked through, never attempts a row more often than the cap.
AutomaticAttemptsCapped == \A d \in Rows : automatic[d] <= MaxAttempts

\* The merchant gets a webhook twice only when two attempts at its row
\* overlapped or the outcome of one was lost; one attempt after the other,
\* with the outcomes recorded, delivers at most once.
DuplicatesNeedOverlapOrLoss == \A d \in Rows : accepted[d] > 1 => d \in excused

Resolved(d) ==
    \/ rows[d].status = "delivered"
    \/ rows[d].attempts >= MaxAttempts
    \/ rows[d].old

\* No row is forgotten: whatever the watcher and the operator do to it, a row is
\* eventually delivered, attempted to the cap, or too old.
EveryRowIsResolved == \A d \in Rows : Undelivered(d) ~> Resolved(d)
=============================================================================
