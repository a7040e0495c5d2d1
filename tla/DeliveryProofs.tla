----------------------------- MODULE DeliveryProofs -----------------------------
(***************************************************************************)
(* Theorems about Delivery, for any number of rows, of concurrent uses of  *)
(* the retry button, of faults and restarts, and for every cap.            *)
(*                                                                         *)
(* Nobody claims a row, so the invariant says of each row what follows     *)
(* from who holds it: the attempts under way are counted, the retry loop   *)
(* has it once per pass, and a row that only one worker ever held at a     *)
(* time was accepted at most once.                                         *)
(***************************************************************************)
EXTENDS Delivery, FiniteSetTheorems, TLAPS

----------------------------------------------------------------------------
(* Types                                                                   *)

LEMMA DeliveryTypeInit == Init => TypeOK
    BY DeliveryAssumption DEF Init, TypeOK, Row, Target, NoTarget

\* What the UPDATEs and the INSERT make of a row.
LEMMA RowTypes ==
    ASSUME NEW r \in Row
    PROVE  /\ [r EXCEPT !.attempts = @ + 1] \in Row
           /\ [r EXCEPT !.status = "delivered", !.deliveredAt = TRUE] \in Row
           /\ [r EXCEPT !.status = "failed"] \in Row
           /\ [r EXCEPT !.old = TRUE] \in Row
           /\ \A url \in URLs \cup {NoURL} :
                  [r EXCEPT !.status = "pending", !.url = url] \in Row
<1>1. [r EXCEPT !.attempts = @ + 1] \in Row
    BY DEF Row
<1>2. [r EXCEPT !.status = "delivered", !.deliveredAt = TRUE] \in Row
    BY DEF Row
<1>3. [r EXCEPT !.status = "failed"] \in Row
    BY DEF Row
<1>4. [r EXCEPT !.old = TRUE] \in Row
    BY DEF Row
<1>5. ASSUME NEW url \in URLs \cup {NoURL}
      PROVE  [r EXCEPT !.status = "pending", !.url = url] \in Row
    BY DEF Row
<1> QED
    BY <1>1, <1>2, <1>3, <1>4, <1>5

\* What Begin and Return do to the worker's variables.
LEMMA WorkerTypes ==
    ASSUME TypeOK, NEW w \in Workers
    PROVE  /\ \A d \in Rows, url \in URLs \cup {NoURL} : Begin(w, d, url) =>
                  /\ pc' \in [Workers -> {"idle", "increment", "send", "mark"}]
                  /\ target' \in [Workers -> Target]
                  /\ \A v \in Workers : pc'[v] # "idle" => target'[v].row \in Rows
           /\ Return(w) =>
                  /\ pc' \in [Workers -> {"idle", "increment", "send", "mark"}]
                  /\ target' \in [Workers -> Target]
                  /\ answer' \in [Workers -> {"none", "2xx", "failed"}]
                  /\ \A v \in Workers : pc'[v] # "idle" => target'[v].row \in Rows
           /\ pc[w] # "idle" =>
                  /\ target[w].row \in Rows /\ rows[target[w].row] \in Row
                  /\ accepted[target[w].row] \in Nat /\ sent[target[w].row] \in Nat
                  /\ automatic[target[w].row] \in Nat
<1>1. ASSUME NEW d \in Rows, NEW url \in URLs \cup {NoURL}, Begin(w, d, url)
      PROVE  /\ pc' \in [Workers -> {"idle", "increment", "send", "mark"}]
             /\ target' \in [Workers -> Target]
             /\ \A v \in Workers : pc'[v] # "idle" => target'[v].row \in Rows
    BY <1>1 DEF Begin, TypeOK, Target
<1>2. ASSUME Return(w)
      PROVE  /\ pc' \in [Workers -> {"idle", "increment", "send", "mark"}]
             /\ target' \in [Workers -> Target]
             /\ answer' \in [Workers -> {"none", "2xx", "failed"}]
             /\ \A v \in Workers : pc'[v] # "idle" => target'[v].row \in Rows
    BY <1>2 DEF Return, TypeOK, Target, NoTarget
<1>3. pc[w] # "idle" =>
          /\ target[w].row \in Rows /\ rows[target[w].row] \in Row
          /\ accepted[target[w].row] \in Nat /\ sent[target[w].row] \in Nat
          /\ automatic[target[w].row] \in Nat
    BY DEF TypeOK
<1> QED
    BY <1>1, <1>2, <1>3

\* The steps of Attempt.
LEMMA AttemptTypes ==
    ASSUME TypeOK, NEW w \in Workers, Attempt(w)
    PROVE  TypeOK'
<1> DEFINE d == target[w].row
<1> USE WorkerTypes DEF histories, bounds
<1>1. CASE IncrementAttempts(w)
    <2>1. d \in Rows /\ rows[d] \in Row /\ automatic[d] \in Nat
        BY <1>1 DEF IncrementAttempts
    <2>2. rows' \in [Rows -> Row]
        BY <1>1, <2>1, RowTypes DEF IncrementAttempts, TypeOK
    <2> QED
        BY <1>1, <2>1, <2>2 DEF IncrementAttempts, TypeOK
<1>2. CASE IncrementAttemptsFails(w)
    <2>1. d \in Rows /\ rows[d] \in Row
        BY <1>2 DEF IncrementAttemptsFails
    <2>2. rows' \in [Rows -> Row]
        BY <1>2, <2>1, RowTypes DEF IncrementAttemptsFails, TypeOK
    <2> QED
        BY <1>2, <2>2 DEF IncrementAttemptsFails, Fail, TypeOK
<1>3. CASE SendSucceeds(w) \/ SendFails(w) \/ SendTimesOut(w)
    <2>1. Ask(w) /\ pc[w] = "send"
        BY <1>3 DEF SendSucceeds, SendFails, SendTimesOut, Ask
    <2>2. d \in Rows /\ sent[d] \in Nat /\ accepted[d] \in Nat
        BY <2>1
    <2>3. /\ accepted' \in [Rows -> Nat]
          /\ answer' \in [Workers -> {"none", "2xx", "failed"}]
          /\ excused' \in SUBSET Rows /\ faults' \in Nat
        BY <1>3, <2>2 DEF SendSucceeds, SendFails, SendTimesOut, Accept, Fail, TypeOK
    <2>4. sent' \in [Rows -> Nat] /\ pc' \in [Workers -> {"idle", "increment", "send", "mark"}]
        BY <2>1, <2>2 DEF Ask, TypeOK
    <2> QED
        BY <2>1, <2>2, <2>3, <2>4 DEF Ask, TypeOK
<1>4. CASE MarkDelivered(w)
    <2>1. d \in Rows /\ rows[d] \in Row
        BY <1>4 DEF MarkDelivered
    <2>2. rows' \in [Rows -> Row]
        BY <1>4, <2>1, RowTypes DEF MarkDelivered, TypeOK
    <2> QED
        BY <1>4, <2>2 DEF MarkDelivered, TypeOK
<1>5. CASE MarkFailed(w)
    <2>1. d \in Rows /\ rows[d] \in Row
        BY <1>5 DEF MarkFailed
    <2>2. rows' \in [Rows -> Row]
        BY <1>5, <2>1, RowTypes DEF MarkFailed, TypeOK
    <2> QED
        BY <1>5, <2>2 DEF MarkFailed, TypeOK
<1>6. CASE MarkFails(w)
    <2>1. d \in Rows
        BY <1>6 DEF MarkFails
    <2> QED
        BY <1>6, <2>1 DEF MarkFails, Fail, TypeOK
<1> QED
    BY <1>1, <1>2, <1>3, <1>4, <1>5, <1>6 DEF Attempt

\* The other steps.
LEMMA CallersTypes ==
    ASSUME TypeOK,
           \/ \E d \in Rows : Create(d) \/ GrowOld(d)
           \/ RetryFailedDeliveries
           \/ \E t \in listed : RetryNext(t)
           \/ \E a \in Admins, d \in Rows : handleWebhookRetry(a, d)
           \/ \E url \in URLs \cup {NoURL} : Restart(url)
    PROVE  TypeOK'
<1> USE WorkerTypes DEF histories, bounds, Workers
<1>1. ASSUME NEW d \in Rows, Create(d)
      PROVE  TypeOK'
    <2>1. rows' \in [Rows -> Row]
        BY <1>1, RowTypes DEF Create, TypeOK
    <2> QED
        BY <1>1, <2>1 DEF Create, TypeOK
<1>2. ASSUME NEW d \in Rows, GrowOld(d)
      PROVE  TypeOK'
    <2>1. rows' \in [Rows -> Row]
        BY <1>2, RowTypes DEF GrowOld, TypeOK
    <2> QED
        BY <1>2, <2>1 DEF GrowOld, TypeOK
<1>3. CASE RetryFailedDeliveries
    <2>1. ListRetryable \subseteq Rows
        BY DEF ListRetryable
    <2>2. /\ listed' \in SUBSET Target /\ \A t \in listed' : t.row \in Rows
          /\ excused' \in SUBSET Rows
        BY <1>3, <2>1 DEF RetryFailedDeliveries, TypeOK, Target, Row
    <2> QED
        BY <1>3, <2>2 DEF RetryFailedDeliveries, TypeOK
<1>4. ASSUME NEW t \in listed, RetryNext(t)
      PROVE  TypeOK'
    <2>1. t.row \in Rows /\ t.url \in URLs \cup {NoURL}
        BY DEF TypeOK, Target
    <2> QED
        BY <1>4, <2>1 DEF RetryNext, TypeOK
<1>5. ASSUME NEW a \in Admins, NEW d \in Rows, handleWebhookRetry(a, d)
      PROVE  TypeOK'
    <2>1. a \in Workers /\ callbackURL \in URLs \cup {NoURL}
        BY DEF TypeOK
    <2>2. excused' \in SUBSET Rows /\ manual' \in Nat
        BY <1>5 DEF handleWebhookRetry, TypeOK
    <2>3. Begin(a, d, callbackURL)
        BY <1>5 DEF handleWebhookRetry
    <2> HIDE DEF Workers
    <2> QED
        BY <1>5, <2>1, <2>2, <2>3 DEF handleWebhookRetry, TypeOK
<1>6. ASSUME NEW url \in URLs \cup {NoURL}, Restart(url)
      PROVE  TypeOK'
    BY <1>6 DEF Restart, TypeOK, Target, NoTarget
<1> QED
    BY <1>1, <1>2, <1>3, <1>4, <1>5, <1>6

\* The actions of Next, sorted by who takes them.
LEMMA NextCases ==
    ASSUME [Next]_vars
    PROVE  \/ UNCHANGED vars
           \/ \E w \in Workers : Attempt(w)
           \/ \E d \in Rows : Create(d) \/ GrowOld(d)
           \/ RetryFailedDeliveries
           \/ \E t \in listed : RetryNext(t)
           \/ \E a \in Admins, d \in Rows : handleWebhookRetry(a, d)
           \/ \E url \in URLs \cup {NoURL} : Restart(url)
    BY DEF Next, Deliver, retryLoop, Workers

LEMMA DeliveryTypeNext == TypeOK /\ [Next]_vars => TypeOK'
<1>1. TypeOK /\ UNCHANGED vars => TypeOK'
    BY DEF TypeOK, vars, histories, bounds
<1> QED
    BY <1>1, NextCases, AttemptTypes, CallersTypes

----------------------------------------------------------------------------
(* What is known of a worker, a row and a pass                             *)

Holds(w, d) == pc[w] # "idle" /\ target[w].row = d
Listed(d) == \E t \in listed : t.row = d

\* Only a worker about to record an outcome has one, and a 2xx it has got counts.
AnswersInv ==
    \A w \in Workers :
        /\ pc[w] = "mark" => answer[w] \in {"2xx", "failed"}
        /\ pc[w] # "mark" => answer[w] = "none"
        /\ answer[w] = "2xx" => accepted[target[w].row] > 0

\* A row that is not there has no history.
RowsInv == \A d \in Rows : rows[d].status = "none" => ~InHand(d) /\ accepted[d] = 0

\* The retry loop is still going to attempt the row in this pass.
Awaits(d) == Listed(d) \/ (pc["retry"] = "increment" /\ target["retry"].row = d)

\* A pass has a row once, and only if it had not reached the cap when it was listed.
PassInv ==
    /\ \A t, u \in listed : t.row = u.row => t = u
    /\ pc["retry"] = "increment" => ~Listed(target["retry"].row)
    /\ \A d \in Rows : /\ automatic[d] <= rows[d].attempts
                       /\ automatic[d] <= MaxAttempts
                       /\ Awaits(d) => automatic[d] < MaxAttempts

\* A row that was never in two hands, and no outcome of which was lost: once it is
\* accepted, the one who holds it knows, or else the row says so.
OneHand(d) ==
    /\ \A v, w \in Workers : Holds(v, d) /\ Holds(w, d) => v = w
    /\ Listed(d) => \A w \in Workers : ~Holds(w, d)
    /\ accepted[d] <= 1
    /\ accepted[d] = 1 =>
           \/ rows[d].status = "delivered" /\ ~InHand(d)
           \/ \E w \in Workers : Holds(w, d) /\ answer[w] = "2xx"

HandsInv == \A d \in Rows \ excused : OneHand(d)

DeliveryInv ==
    /\ TypeOK
    /\ AnswersInv /\ RowsInv /\ PassInv /\ HandsInv
    /\ DeliveredIsTrue /\ AttemptsCoverSends

LEMMA InHandCases ==
    ASSUME NEW d
    PROVE  InHand(d) <=> Listed(d) \/ \E w \in Workers : Holds(w, d)
    BY DEF InHand, Listed, Holds

\* A worker in Attempt leaves the other workers, the other rows and the list of
\* the pass alone.
LEMMA AttemptIsLocal ==
    ASSUME TypeOK, NEW w \in Workers, Attempt(w)
    PROVE  /\ pc[w] # "idle" /\ target[w].row \in Rows
           /\ listed' = listed /\ callbackURL' = callbackURL
           /\ \A v \in Workers \ {w} :
                  pc'[v] = pc[v] /\ target'[v] = target[v] /\ answer'[v] = answer[v]
           /\ \A d \in Rows \ {target[w].row} :
                  /\ rows'[d] = rows[d]
                  /\ accepted'[d] = accepted[d] /\ sent'[d] = sent[d]
                  /\ automatic'[d] = automatic[d]
           /\ excused \subseteq excused' /\ excused' \subseteq excused \cup {target[w].row}
<1> USE WorkerTypes DEF histories, bounds, TypeOK
<1>1. CASE IncrementAttempts(w)
    BY <1>1 DEF IncrementAttempts
<1>2. CASE IncrementAttemptsFails(w)
    BY <1>2 DEF IncrementAttemptsFails, Return
<1>3. CASE SendSucceeds(w)
    BY <1>3 DEF SendSucceeds, Ask, Accept
<1>4. CASE SendFails(w)
    BY <1>4 DEF SendFails, Ask
<1>5. CASE SendTimesOut(w)
    BY <1>5 DEF SendTimesOut, Ask, Accept
<1>6. CASE MarkDelivered(w)
    BY <1>6 DEF MarkDelivered, Return
<1>7. CASE MarkFailed(w)
    BY <1>7 DEF MarkFailed, Return
<1>8. CASE MarkFails(w)
    BY <1>8 DEF MarkFails, Return
<1> QED
    BY <1>1, <1>2, <1>3, <1>4, <1>5, <1>6, <1>7, <1>8 DEF Attempt

\* What each step of Attempt does to its worker and to its row.
LEMMA AttemptEffects ==
    ASSUME TypeOK, AnswersInv, NEW w \in Workers, Attempt(w)
    PROVE  LET d == target[w].row IN
           \/ /\ pc[w] = "increment" /\ pc'[w] = "send"
              /\ target'[w] = target[w] /\ answer'[w] = "none"
              /\ rows'[d] = [rows[d] EXCEPT !.attempts = @ + 1]
              /\ accepted'[d] = accepted[d] /\ sent'[d] = sent[d]
              /\ automatic'[d] = IF w = "retry" THEN automatic[d] + 1 ELSE automatic[d]
           \/ /\ pc[w] = "increment" /\ pc'[w] = "idle" /\ answer'[w] = "none"
              /\ UNCHANGED histories
              /\ rows' = rows \/ rows'[d] = [rows[d] EXCEPT !.attempts = @ + 1]
           \/ /\ pc[w] = "send" /\ pc'[w] = "mark" /\ target'[w] = target[w]
              /\ rows' = rows /\ automatic' = automatic
              /\ sent'[d] \in {sent[d], sent[d] + 1}
              /\ \/ answer'[w] = "2xx" /\ accepted'[d] = accepted[d] + 1
                 \/ answer'[w] = "failed" /\ accepted'[d] = accepted[d]
                 \/ answer'[w] = "failed" /\ accepted'[d] = accepted[d] + 1
                    /\ d \in excused'
           \/ /\ pc[w] = "mark" /\ pc'[w] = "idle" /\ answer'[w] = "none"
              /\ UNCHANGED histories
              /\ \/ /\ answer[w] = "2xx"
                    /\ rows'[d] = [rows[d] EXCEPT !.status = "delivered",
                                                  !.deliveredAt = TRUE]
                 \/ /\ answer[w] = "failed"
                    /\ rows'[d] = [rows[d] EXCEPT !.status = "failed"]
                 \/ rows' = rows /\ (answer[w] = "2xx" => d \in excused')
<1> USE WorkerTypes DEF histories, bounds, TypeOK
<1>1. CASE IncrementAttempts(w)
    BY <1>1 DEF IncrementAttempts, AnswersInv
<1>2. CASE IncrementAttemptsFails(w)
    BY <1>2 DEF IncrementAttemptsFails, Return
<1>3. CASE SendSucceeds(w)
    BY <1>3 DEF SendSucceeds, Ask, Accept
<1>4. CASE SendFails(w)
    BY <1>4 DEF SendFails, Ask
<1>5. CASE SendTimesOut(w)
    BY <1>5 DEF SendTimesOut, Ask, Accept
<1>6. CASE MarkDelivered(w)
    BY <1>6 DEF MarkDelivered, Return
<1>7. CASE MarkFailed(w)
    BY <1>7 DEF MarkFailed, Return
<1>8. CASE MarkFails(w)
    BY <1>8 DEF MarkFails, Return
<1> QED
    BY <1>1, <1>2, <1>3, <1>4, <1>5, <1>6, <1>7, <1>8 DEF Attempt
----------------------------------------------------------------------------
(* The invariant                                                           *)

LEMMA InitDeliveryInv == Init => DeliveryInv
<1> SUFFICES ASSUME Init PROVE DeliveryInv
    OBVIOUS
<1>1. TypeOK
    BY DeliveryTypeInit
<1>2. AnswersInv /\ RowsInv /\ PassInv /\ HandsInv /\ DeliveredIsTrue
    BY DeliveryAssumption
    DEF Init, AnswersInv, RowsInv, PassInv, HandsInv, OneHand, Holds, Listed, Awaits,
        InHand, DeliveredIsTrue, Workers
<1>3. AttemptsCoverSends
    <2> SUFFICES ASSUME NEW d \in Rows
                 PROVE  sent[d] + Cardinality({w \in Workers : pc[w] = "send" /\ target[w].row = d})
                            <= rows[d].attempts
        BY DEF AttemptsCoverSends
    <2>1. {w \in Workers : pc[w] = "send" /\ target[w].row = d} = {}
        BY DEF Init
    <2>2. Cardinality({w \in Workers : pc[w] = "send" /\ target[w].row = d}) = 0
        BY <2>1, FS_EmptySet
    <2> QED
        BY <2>2 DEF Init
<1> QED
    BY <1>1, <1>2, <1>3 DEF DeliveryInv

\* Nothing takes back what the merchant accepted, or an attempt.
LEMMA AcceptedGrows ==
    ASSUME TypeOK, TypeOK', AnswersInv, [Next]_vars
    PROVE  \A d \in Rows : accepted[d] <= accepted'[d]
<1>1. ASSUME NEW w \in Workers, Attempt(w), NEW d \in Rows
      PROVE  accepted[d] <= accepted'[d]
    <2>1. d # target[w].row => accepted'[d] = accepted[d]
        BY <1>1, AttemptIsLocal
    <2>2. accepted'[target[w].row] \in
              {accepted[target[w].row], accepted[target[w].row] + 1}
        BY <1>1, AttemptEffects DEF histories
    <2> QED
        BY <2>1, <2>2 DEF TypeOK
<1>2. ~(\E w \in Workers : Attempt(w)) => accepted' = accepted
    BY NextCases
    DEF vars, histories, Create, GrowOld, RetryFailedDeliveries, RetryNext,
        handleWebhookRetry, Restart
<1> QED
    BY <1>1, <1>2 DEF TypeOK

LEMMA AnswersNext ==
    ASSUME TypeOK, TypeOK', AnswersInv, [Next]_vars
    PROVE  AnswersInv'
<1>1. ASSUME NEW w \in Workers, Attempt(w)
      PROVE  AnswersInv'
    <2>1. ASSUME NEW v \in Workers \ {w}
          PROVE  /\ pc'[v] = "mark" => answer'[v] \in {"2xx", "failed"}
                 /\ pc'[v] # "mark" => answer'[v] = "none"
                 /\ answer'[v] = "2xx" => accepted'[target'[v].row] > 0
        <3>1. pc'[v] = pc[v] /\ target'[v] = target[v] /\ answer'[v] = answer[v]
            BY <1>1, AttemptIsLocal
        <3>2. answer[v] = "2xx" => target[v].row \in Rows
            BY DEF TypeOK, AnswersInv
        <3> QED
            BY <3>1, <3>2, AcceptedGrows DEF TypeOK, AnswersInv
    <2>2. /\ pc'[w] = "mark" => answer'[w] \in {"2xx", "failed"}
          /\ pc'[w] # "mark" => answer'[w] = "none"
          /\ answer'[w] = "2xx" => accepted'[target'[w].row] > 0
        <3>1. target[w].row \in Rows /\ accepted[target[w].row] \in Nat
            BY <1>1, AttemptIsLocal DEF TypeOK
        <3>2. \/ pc'[w] \in {"send", "idle"} /\ answer'[w] = "none"
              \/ /\ pc'[w] = "mark" /\ target'[w] = target[w]
                 /\ \/ answer'[w] = "failed"
                    \/ /\ answer'[w] = "2xx"
                       /\ accepted'[target[w].row] = accepted[target[w].row] + 1
            BY <1>1, AttemptEffects
        <3> QED
            BY <3>1, <3>2
    <2> QED
        BY <2>1, <2>2 DEF AnswersInv
<1>2. ASSUME NEW d \in Rows, Create(d)
      PROVE  AnswersInv'
    BY <1>2 DEF Create, Begin, AnswersInv, histories, Workers, TypeOK
<1>3. ASSUME NEW d \in Rows, GrowOld(d)
      PROVE  AnswersInv'
    BY <1>3 DEF GrowOld, AnswersInv, histories
<1>4. CASE RetryFailedDeliveries
    BY <1>4 DEF RetryFailedDeliveries, AnswersInv, histories
<1>5. ASSUME NEW t \in listed, RetryNext(t)
      PROVE  AnswersInv'
    BY <1>5 DEF RetryNext, Begin, AnswersInv, histories, Workers, TypeOK
<1>6. ASSUME NEW a \in Admins, NEW d \in Rows, handleWebhookRetry(a, d)
      PROVE  AnswersInv'
    BY <1>6 DEF handleWebhookRetry, Begin, AnswersInv, histories, Workers, TypeOK
<1>7. ASSUME NEW url \in URLs \cup {NoURL}, Restart(url)
      PROVE  AnswersInv'
    BY <1>7 DEF Restart, AnswersInv
<1>8. CASE UNCHANGED vars
    BY <1>8 DEF vars, histories, AnswersInv
<1> QED
    BY <1>1, <1>2, <1>3, <1>4, <1>5, <1>6, <1>7, <1>8, NextCases

\* What a step that is not of Attempt may do to a row.
LEMMA OtherRowChanges ==
    ASSUME TypeOK, [Next]_vars, ~\E w \in Workers : Attempt(w), NEW d \in Rows
    PROVE  \/ rows'[d] = rows[d]
           \/ rows[d].status = "none"
              /\ rows'[d] = [rows[d] EXCEPT !.status = "pending", !.url = callbackURL]
           \/ rows'[d] = [rows[d] EXCEPT !.old = TRUE]
<1>1. ASSUME NEW e \in Rows, Create(e)
      PROVE  \/ rows'[d] = rows[d]
             \/ rows[d].status = "none"
                /\ rows'[d] = [rows[d] EXCEPT !.status = "pending", !.url = callbackURL]
    <2>1. rows' = [rows EXCEPT ![e] = [rows[e] EXCEPT !.status = "pending",
                                                      !.url = callbackURL]]
        BY <1>1 DEF Create, TypeOK
    <2> QED
        BY <1>1, <2>1 DEF Create, TypeOK
<1>2. ASSUME NEW e \in Rows, GrowOld(e)
      PROVE  rows'[d] = rows[d] \/ rows'[d] = [rows[d] EXCEPT !.old = TRUE]
    BY <1>2 DEF GrowOld, TypeOK
<1>3. (~\E e \in Rows : Create(e) \/ GrowOld(e)) => rows' = rows
    BY NextCases DEF vars, RetryFailedDeliveries, RetryNext, handleWebhookRetry, Restart
<1> QED
    BY <1>1, <1>2, <1>3

\* A date or the status "delivered" is written by a worker with a 2xx.
LEMMA DeliveredNext ==
    ASSUME TypeOK, TypeOK', AnswersInv, DeliveredIsTrue, [Next]_vars
    PROVE  DeliveredIsTrue'
<1> SUFFICES ASSUME NEW d \in Rows, rows'[d].status = "delivered" \/ rows'[d].deliveredAt
             PROVE  accepted'[d] > 0
    BY DEF DeliveredIsTrue
<1>1. accepted[d] > 0 => accepted'[d] > 0
    BY AcceptedGrows DEF TypeOK
<1>2. rows[d] \in Row
    BY DEF TypeOK
<1>3. ASSUME NEW w \in Workers, Attempt(w)
      PROVE  accepted[d] > 0
    <2>1. CASE target[w].row # d
        BY <1>3, <2>1, AttemptIsLocal DEF DeliveredIsTrue
    <2>2. CASE target[w].row = d /\ answer[w] = "2xx"
        BY <2>2 DEF AnswersInv
    <2>3. CASE target[w].row = d /\ answer[w] # "2xx"
        <3>1. \/ rows'[d] = [rows[d] EXCEPT !.attempts = @ + 1]
              \/ rows'[d] = rows[d]
              \/ rows'[d] = [rows[d] EXCEPT !.status = "failed"]
            BY <1>3, <2>3, AttemptEffects
        <3> QED
            BY <1>2, <3>1 DEF DeliveredIsTrue, Row
    <2> QED
        BY <2>1, <2>2, <2>3
<1>4. ASSUME ~\E w \in Workers : Attempt(w)
      PROVE  accepted[d] > 0
    <2>1. \/ rows'[d] = rows[d]
          \/ rows'[d] = [rows[d] EXCEPT !.status = "pending", !.url = callbackURL]
          \/ rows'[d] = [rows[d] EXCEPT !.old = TRUE]
        BY <1>4, OtherRowChanges
    <2> QED
        BY <1>2, <2>1 DEF DeliveredIsTrue, Row
<1> QED
    BY <1>1, <1>3, <1>4
\* Attempt takes a row in nobody's hands, and out of them only as it ends.
LEMMA AttemptHands ==
    ASSUME TypeOK, AnswersInv, NEW w \in Workers, Attempt(w), NEW d
    PROVE  /\ Holds(w, target[w].row)
           /\ \A v \in Workers : Holds(v, d)' => Holds(v, d)
           /\ \A v \in Workers \ {w} : Holds(v, d)' <=> Holds(v, d)
           /\ Listed(d)' <=> Listed(d)
           /\ InHand(d)' => InHand(d)
<1>1. pc[w] # "idle" /\ Listed(d)' = Listed(d)
    BY AttemptIsLocal DEF Listed
<1>2. pc'[w] # "idle" => target'[w] = target[w]
    BY AttemptEffects
<1>3. \A v \in Workers \ {w} : pc'[v] = pc[v] /\ target'[v] = target[v]
    BY AttemptIsLocal
<1>4. \A v \in Workers : Holds(v, d)' => Holds(v, d)
    BY <1>1, <1>2, <1>3 DEF Holds
<1>5. InHand(d)' => InHand(d)
    BY <1>1, <1>4 DEF Holds, Listed, InHand
<1> QED
    BY <1>1, <1>3, <1>4, <1>5 DEF Holds

----------------------------------------------------------------------------
(* The counter                                                             *)

Sending(d) == {w \in Workers : pc[w] = "send" /\ target[w].row = d}

LEMMA SendingIsFinite ==
    ASSUME NEW d
    PROVE  IsFiniteSet(Sending(d)) /\ Cardinality(Sending(d)) \in Nat
<1>1. IsFiniteSet(Workers)
    <2>1. IsFiniteSet({"watcher", "retry"})
        <3>1. IsFiniteSet({"watcher"})
            BY FS_Singleton
        <3>2. IsFiniteSet({"watcher"} \cup {"retry"})
            BY <3>1, FS_AddElement
        <3>3. {"watcher", "retry"} = {"watcher"} \cup {"retry"}
            OBVIOUS
        <3> QED
            BY <3>2, <3>3
    <2> QED
        BY <2>1, FS_Union, DeliveryAssumption DEF Workers
<1>2. Sending(d) \subseteq Workers
    BY DEF Sending
<1> QED
    BY <1>1, <1>2, FS_Subset, FS_CardinalityType

\* The counter goes up with the worker that is about to send, before it sends; a
\* send takes the worker from one side of the sum to the other.
LEMMA AttemptCovers ==
    ASSUME TypeOK, TypeOK', AnswersInv, AttemptsCoverSends,
           NEW w \in Workers, Attempt(w)
    PROVE  AttemptsCoverSends'
<1> SUFFICES ASSUME NEW d \in Rows
             PROVE  sent'[d] + Cardinality(Sending(d)') <= rows'[d].attempts
    BY DEF AttemptsCoverSends, Sending
<1> DEFINE n == Cardinality(Sending(d))
<1>1. /\ sent[d] \in Nat /\ rows[d] \in Row /\ rows[d].attempts \in Nat
      /\ n \in Nat /\ sent[d] + n <= rows[d].attempts
    BY SendingIsFinite DEF TypeOK, Row, AttemptsCoverSends, Sending
<1>2. \A v \in Workers \ {w} : pc'[v] = pc[v] /\ target'[v] = target[v]
    BY AttemptIsLocal
<1>3. CASE target[w].row # d
    <2>1. sent'[d] = sent[d] /\ rows'[d] = rows[d]
        BY <1>3, AttemptIsLocal
    <2>2. pc'[w] # "idle" => target'[w] = target[w]
        BY AttemptEffects
    <2>3. Sending(d)' = Sending(d)
        BY <1>2, <1>3, <2>2 DEF Sending
    <2> QED
        BY <1>1, <2>1, <2>3
<1>4. CASE target[w].row = d
    <2>1. \/ /\ pc[w] = "increment" /\ pc'[w] = "send" /\ target'[w] = target[w]
             /\ rows'[d] = [rows[d] EXCEPT !.attempts = @ + 1] /\ sent'[d] = sent[d]
          \/ /\ pc[w] = "send" /\ pc'[w] = "mark"
             /\ rows' = rows /\ sent'[d] \in {sent[d], sent[d] + 1}
          \/ /\ pc[w] \in {"increment", "mark"} /\ pc'[w] = "idle"
             /\ \/ rows'[d] = rows[d]
                \/ rows'[d] = [rows[d] EXCEPT !.status = "delivered", !.deliveredAt = TRUE]
                \/ rows'[d] = [rows[d] EXCEPT !.status = "failed"]
                \/ rows'[d] = [rows[d] EXCEPT !.attempts = @ + 1]
             /\ sent'[d] = sent[d]
        BY <1>4, AttemptEffects DEF histories
    <2>2. CASE pc[w] = "increment" /\ pc'[w] = "send"
        <3>1. Sending(d)' = Sending(d) \cup {w} /\ w \notin Sending(d)
            BY <1>2, <1>4, <2>1, <2>2 DEF Sending
        <3>2. Cardinality(Sending(d)') = n + 1
            BY <3>1, SendingIsFinite, FS_AddElement
        <3>3. rows'[d].attempts = rows[d].attempts + 1 /\ sent'[d] = sent[d]
            BY <1>1, <2>1, <2>2 DEF Row
        <3> QED
            BY <1>1, <3>2, <3>3
    <2>3. CASE pc[w] = "send"
        <3>1. Sending(d)' = Sending(d) \ {w} /\ w \in Sending(d)
            BY <1>2, <1>4, <2>1, <2>3 DEF Sending
        <3>2. Cardinality(Sending(d)') = n - 1
            BY <3>1, SendingIsFinite, FS_RemoveElement
        <3> QED
            BY <1>1, <2>1, <2>3, <3>2
    <2>4. CASE pc[w] \in {"increment", "mark"} /\ pc'[w] = "idle"
        <3>1. Sending(d)' = Sending(d)
            BY <1>2, <2>4 DEF Sending
        <3>2. rows'[d].attempts \in {rows[d].attempts, rows[d].attempts + 1} /\ sent'[d] = sent[d]
            BY <1>1, <2>1, <2>4 DEF Row
        <3> QED
            BY <1>1, <3>1, <3>2
    <2> QED
        BY <2>1, <2>2, <2>3, <2>4
<1> QED
    BY <1>3, <1>4

LEMMA CoversNext ==
    ASSUME TypeOK, TypeOK', AnswersInv, AttemptsCoverSends, [Next]_vars
    PROVE  AttemptsCoverSends'
<1>1. CASE \E w \in Workers : Attempt(w)
    BY <1>1, AttemptCovers
<1>2. CASE ~\E w \in Workers : Attempt(w)
    <2> SUFFICES ASSUME NEW d \in Rows
                 PROVE  sent'[d] + Cardinality(Sending(d)') <= rows'[d].attempts
        BY DEF AttemptsCoverSends, Sending
    <2>1. /\ sent[d] \in Nat /\ rows[d] \in Row /\ rows[d].attempts \in Nat
          /\ Cardinality(Sending(d)) \in Nat
          /\ sent[d] + Cardinality(Sending(d)) <= rows[d].attempts
        BY SendingIsFinite DEF TypeOK, Row, AttemptsCoverSends, Sending
    <2>2. sent' = sent
        BY <1>2, NextCases
        DEF vars, histories, Create, GrowOld, RetryFailedDeliveries, RetryNext,
            handleWebhookRetry, Restart
    <2>3. rows'[d].attempts = rows[d].attempts
        BY <1>2, <2>1, OtherRowChanges DEF Row
    <2>4. Sending(d)' \subseteq Sending(d)
        <3>1. ASSUME NEW w \in Workers, NEW e \in Rows, NEW url, pc[w] = "idle",
                     Begin(w, e, url)
              PROVE  Sending(d)' = Sending(d)
            BY <3>1 DEF Begin, Sending, TypeOK
        <3>2. CASE \E url \in URLs \cup {NoURL} : Restart(url)
            BY <3>2 DEF Restart, Sending
        <3>3. ASSUME NEW e \in Rows, Create(e)
              PROVE  Sending(d)' = Sending(d)
            BY <3>1, <3>3 DEF Create, Workers
        <3>4. ASSUME NEW t \in listed, RetryNext(t)
              PROVE  Sending(d)' = Sending(d)
            BY <3>1, <3>4 DEF RetryNext, Workers, TypeOK
        <3>5. ASSUME NEW a \in Admins, NEW e \in Rows, handleWebhookRetry(a, e)
              PROVE  Sending(d)' = Sending(d)
            BY <3>1, <3>5 DEF handleWebhookRetry, Workers
        <3>6. ASSUME \/ UNCHANGED vars \/ RetryFailedDeliveries
                     \/ \E e \in Rows : GrowOld(e)
              PROVE  Sending(d)' = Sending(d)
            BY <3>6 DEF vars, RetryFailedDeliveries, GrowOld, Sending
        <3> QED
            BY <1>2, <3>2, <3>3, <3>4, <3>5, <3>6, NextCases
    <2>5. Cardinality(Sending(d)') <= Cardinality(Sending(d)) /\ Cardinality(Sending(d)') \in Nat
        BY <2>4, SendingIsFinite, FS_Subset, FS_CardinalityType
    <2> QED
        BY <2>1, <2>2, <2>3, <2>5
<1> QED
    BY <1>1, <1>2
----------------------------------------------------------------------------
(* Rows and passes                                                         *)

\* Begin puts a row in the hands of its worker and changes nobody else's.
LEMMA BeginHands ==
    ASSUME TypeOK, NEW w \in Workers, pc[w] = "idle", NEW e \in Rows, NEW url,
           Begin(w, e, url), NEW d
    PROVE  \A v \in Workers : Holds(v, d)' <=> Holds(v, d) \/ (v = w /\ d = e)
    BY DEF Begin, Holds, TypeOK

LEMMA RowsNext ==
    ASSUME TypeOK, TypeOK', AnswersInv, RowsInv, [Next]_vars
    PROVE  RowsInv'
<1> SUFFICES ASSUME NEW d \in Rows, rows'[d].status = "none"
             PROVE  ~InHand(d)' /\ accepted'[d] = 0
    BY DEF RowsInv
<1>0. rows[d] \in Row
    BY DEF TypeOK
<1> DEFINE Absent == rows[d].status = "none" /\ ~Listed(d) /\ accepted[d] = 0
                     /\ \A v \in Workers : ~Holds(v, d)
<1>1. rows[d].status = "none" => Absent
    BY InHandCases DEF RowsInv
<1>2. (\E v \in Workers : Holds(v, d)') \/ Listed(d)' <=> InHand(d)'
    BY DEF Holds, Listed, InHand
<1>3. ASSUME NEW w \in Workers, Attempt(w)
      PROVE  ~InHand(d)' /\ accepted'[d] = 0
    <2>1. CASE target[w].row = d
        <3>1. rows[d].status # "none"
            BY <1>1, <1>3, <2>1, AttemptHands
        <3>2. \/ rows'[d] = [rows[d] EXCEPT !.attempts = @ + 1]
              \/ rows'[d] = rows[d]
              \/ rows'[d] = [rows[d] EXCEPT !.status = "delivered", !.deliveredAt = TRUE]
              \/ rows'[d] = [rows[d] EXCEPT !.status = "failed"]
            BY <1>3, <2>1, AttemptEffects
        <3>3. rows'[d].status # "none"
            BY <1>0, <3>1, <3>2 DEF Row
        <3> QED
            BY <3>3
    <2>2. CASE target[w].row # d
        <3>1. rows'[d] = rows[d] /\ accepted'[d] = accepted[d]
            BY <1>3, <2>2, AttemptIsLocal
        <3> QED
            BY <1>3, <3>1, AttemptHands DEF RowsInv
    <2> QED
        BY <2>1, <2>2
<1>4. ASSUME NEW e \in Rows, Create(e)
      PROVE  ~InHand(d)' /\ accepted'[d] = 0
    <2>1. rows' = [rows EXCEPT ![e] = [rows[e] EXCEPT !.status = "pending",
                                                      !.url = callbackURL]]
        BY <1>4 DEF Create, TypeOK
    <2>2. d # e /\ rows'[d] = rows[d]
        BY <2>1 DEF TypeOK, Row
    <2>3. \A v \in Workers : ~Holds(v, d)'
        BY <1>1, <1>4, <2>2, BeginHands DEF Create, Workers
    <2> QED
        BY <1>1, <1>2, <1>4, <2>2, <2>3 DEF Create, Listed, histories
<1>5. ASSUME NEW e \in Rows, GrowOld(e)
      PROVE  ~InHand(d)' /\ accepted'[d] = 0
    <2>1. rows'[d].status = rows[d].status
        BY <1>0, <1>5 DEF GrowOld, TypeOK, Row
    <2> QED
        BY <1>1, <1>2, <1>5, <2>1 DEF GrowOld, Listed, Holds, histories
<1>6. CASE RetryFailedDeliveries
    <2>1. d \notin ListRetryable
        BY <1>6 DEF RetryFailedDeliveries, ListRetryable, Undelivered
    <2>2. ~Listed(d)'
        BY <1>6, <2>1 DEF RetryFailedDeliveries, Listed
    <2> QED
        BY <1>1, <1>2, <1>6, <2>2 DEF RetryFailedDeliveries, Holds, histories
<1>7. ASSUME NEW t \in listed, RetryNext(t)
      PROVE  ~InHand(d)' /\ accepted'[d] = 0
    <2>1. Absent /\ t.row \in Rows /\ t.row # d
        BY <1>1, <1>7 DEF RetryNext, Listed, TypeOK
    <2>2. \A v \in Workers : ~Holds(v, d)'
        BY <1>7, <2>1, BeginHands DEF RetryNext, Workers
    <2> QED
        BY <1>2, <1>7, <2>1, <2>2 DEF RetryNext, Listed, histories
<1>8. ASSUME NEW a \in Admins, NEW e \in Rows, handleWebhookRetry(a, e)
      PROVE  ~InHand(d)' /\ accepted'[d] = 0
    <2>1. Absent /\ e # d
        BY <1>1, <1>8 DEF handleWebhookRetry, Undelivered
    <2>2. \A v \in Workers : ~Holds(v, d)'
        BY <1>8, <2>1, BeginHands DEF handleWebhookRetry, Workers
    <2> QED
        BY <1>2, <1>8, <2>1, <2>2 DEF handleWebhookRetry, Listed, histories
<1>9. ASSUME NEW url \in URLs \cup {NoURL}, Restart(url)
      PROVE  ~InHand(d)' /\ accepted'[d] = 0
    BY <1>1, <1>9 DEF Restart, InHand, histories
<1>10. CASE UNCHANGED vars
    BY <1>1, <1>2, <1>10 DEF vars, histories, Listed, Holds
<1> QED
    BY <1>3, <1>4, <1>5, <1>6, <1>7, <1>8, <1>9, <1>10, NextCases

\* Only the retry loop's increment counts as an automatic attempt, and it takes
\* the row out of the pass.
LEMMA PassNext ==
    ASSUME TypeOK, TypeOK', AnswersInv, PassInv, [Next]_vars
    PROVE  PassInv'
<1> DEFINE Counted(d) == /\ automatic'[d] <= rows'[d].attempts
                         /\ automatic'[d] <= MaxAttempts
                         /\ Awaits(d)' => automatic'[d] < MaxAttempts
           Once == /\ \A t, u \in listed' : t.row = u.row => t = u
                   /\ pc'["retry"] = "increment" => ~Listed(target["retry"].row)'
<1>0. \A d \in Rows : /\ rows[d] \in Row /\ rows[d].attempts \in Nat
                      /\ automatic[d] \in Nat /\ MaxAttempts \in Nat
    BY DeliveryAssumption DEF TypeOK, Row
<1>1. ASSUME NEW w \in Workers, Attempt(w)
      PROVE  Once /\ \A d \in Rows : Counted(d)
    <2>0. PICK e \in Rows : e = target[w].row
        BY <1>1, AttemptIsLocal
    <2>1. listed' = listed
        BY <1>1, AttemptIsLocal
    <2>2. pc'["retry"] = "increment" =>
              w # "retry" /\ pc["retry"] = "increment" /\ target'["retry"] = target["retry"]
        BY <1>1, AttemptIsLocal, AttemptEffects DEF Workers
    <2>3. \A d : Awaits(d)' => Awaits(d)
        BY <2>1, <2>2 DEF Awaits, Listed
    <2>4. Once
        BY <2>1, <2>2 DEF PassInv, Listed
    <2>5. ASSUME NEW d \in Rows, d # e
          PROVE  Counted(d)
        BY <1>1, <2>0, <2>3, <2>5, AttemptIsLocal DEF PassInv
    <2>6. Counted(e)
        <3>1. \/ /\ pc[w] = "increment" /\ pc'[w] = "send"
                 /\ rows'[e].attempts = rows[e].attempts + 1
                 /\ automatic'[e] = IF w = "retry" THEN automatic[e] + 1 ELSE automatic[e]
              \/ /\ rows'[e].attempts \in {rows[e].attempts, rows[e].attempts + 1}
                 /\ automatic'[e] = automatic[e]
            <4>1. \/ /\ pc[w] = "increment" /\ pc'[w] = "send"
                     /\ rows'[e] = [rows[e] EXCEPT !.attempts = @ + 1]
                     /\ automatic'[e] = IF w = "retry" THEN automatic[e] + 1 ELSE automatic[e]
                  \/ /\ automatic'[e] = automatic[e]
                     /\ \/ rows'[e] = rows[e]
                        \/ rows'[e] = [rows[e] EXCEPT !.status = "delivered",
                                                      !.deliveredAt = TRUE]
                        \/ rows'[e] = [rows[e] EXCEPT !.status = "failed"]
                        \/ rows'[e] = [rows[e] EXCEPT !.attempts = @ + 1]
                BY <1>1, <2>0, AttemptEffects DEF histories
            <4> QED
                BY <1>0, <4>1 DEF Row
        <3>2. CASE w = "retry" /\ pc[w] = "increment" /\ pc'[w] = "send"
            <4>1. Awaits(e) /\ ~Listed(e)
                BY <2>0, <3>2 DEF Awaits, PassInv
            <4>2. automatic[e] <= rows[e].attempts /\ automatic[e] < MaxAttempts
                BY <2>1, <4>1 DEF PassInv
            <4>3. ~Awaits(e)'
                BY <2>1, <3>2, <4>1 DEF Awaits, Listed
            <4>4. automatic'[e] \in {automatic[e], automatic[e] + 1}
                BY <3>1
            <4>5. automatic'[e] <= rows'[e].attempts
                BY <1>0, <2>1, <3>1, <4>2
            <4> QED
                BY <1>0, <2>1, <4>2, <4>3, <4>4, <4>5
        <3>3. CASE ~(w = "retry" /\ pc[w] = "increment" /\ pc'[w] = "send")
            <4>1. /\ automatic'[e] = automatic[e]
                  /\ rows'[e].attempts \in {rows[e].attempts, rows[e].attempts + 1}
                BY <3>1, <3>3
            <4>2. automatic[e] <= rows[e].attempts /\ automatic[e] <= MaxAttempts
                  /\ (Awaits(e) => automatic[e] < MaxAttempts)
                BY <2>1 DEF PassInv
            <4> QED
                BY <1>0, <2>1, <2>3, <4>1, <4>2
        <3> QED
            BY <3>2, <3>3
    <2> QED
        BY <2>4, <2>5, <2>6
<1>2. ASSUME ~\E w \in Workers : Attempt(w)
      PROVE  Once /\ \A d \in Rows : Counted(d)
    <2>1. automatic' = automatic
        BY <1>2, NextCases
        DEF vars, histories, Create, GrowOld, RetryFailedDeliveries, RetryNext,
            handleWebhookRetry, Restart
    <2>2. \A d \in Rows : rows'[d].attempts = rows[d].attempts
        BY <1>0, <1>2, OtherRowChanges DEF Row
    <2>3. SUFFICES Once /\ \A d \in Rows : Awaits(d)' => automatic[d] < MaxAttempts
        BY <1>0, <2>1, <2>2 DEF PassInv
    <2>4. ASSUME listed' = listed,
                 pc'["retry"] = pc["retry"], target'["retry"] = target["retry"]
          PROVE  Once /\ \A d \in Rows : Awaits(d)' => automatic[d] < MaxAttempts
        <3>1. \A d : Awaits(d)' = Awaits(d) /\ Listed(d)' = Listed(d)
            BY <2>4 DEF Awaits, Listed
        <3> QED
            BY <2>4, <3>1 DEF PassInv
    <2>5. ASSUME NEW d \in Rows, Create(d)
          PROVE  Once /\ \A c \in Rows : Awaits(c)' => automatic[c] < MaxAttempts
        BY <2>4, <2>5 DEF Create, Begin, Workers, TypeOK
    <2>6. ASSUME NEW d \in Rows, GrowOld(d)
          PROVE  Once /\ \A c \in Rows : Awaits(c)' => automatic[c] < MaxAttempts
        BY <2>4, <2>6 DEF GrowOld
    <2>7. CASE RetryFailedDeliveries
        <3>1. listed' = {[row |-> d, url |-> rows[d].url] : d \in ListRetryable}
              /\ pc' = pc /\ pc["retry"] = "idle"
            BY <2>7 DEF RetryFailedDeliveries
        <3>2. ASSUME NEW d \in Rows, Awaits(d)'
              PROVE  automatic[d] < MaxAttempts
            <4>1. Listed(d)'
                BY <3>1, <3>2 DEF Awaits
            <4>2. d \in ListRetryable
                BY <3>1, <4>1 DEF Listed
            <4>3. rows[d].attempts < MaxAttempts /\ automatic[d] <= rows[d].attempts
                BY <4>2 DEF ListRetryable, PassInv
            <4> QED
                BY <1>0, <4>3
        <3>3. Once
            BY <3>1
        <3> QED
            BY <3>2, <3>3
    <2>8. ASSUME NEW t \in listed, RetryNext(t)
          PROVE  Once /\ \A c \in Rows : Awaits(c)' => automatic[c] < MaxAttempts
        <3>1. /\ listed' = listed \ {t}
              /\ pc'["retry"] = "increment" /\ target'["retry"] = [row |-> t.row, url |-> t.url]
            BY <2>8 DEF RetryNext, Begin, Workers, TypeOK
        <3>2. target'["retry"].row = t.row
            BY <3>1
        <3>3. \A u \in listed' : u.row # t.row
            BY <3>1 DEF PassInv
        <3>4. Once
            BY <3>1, <3>2, <3>3 DEF PassInv, Listed
        <3>5. \A c : Awaits(c)' => Awaits(c)
            BY <3>1, <3>2 DEF Awaits, Listed
        <3> QED
            BY <3>4, <3>5 DEF PassInv
    <2>9. ASSUME NEW a \in Admins, NEW d \in Rows, handleWebhookRetry(a, d)
          PROVE  Once /\ \A c \in Rows : Awaits(c)' => automatic[c] < MaxAttempts
        <3>1. a # "retry"
            BY DeliveryAssumption
        <3> QED
            BY <2>4, <2>9, <3>1 DEF handleWebhookRetry, Begin, Workers, TypeOK
    <2>10. ASSUME NEW url \in URLs \cup {NoURL}, Restart(url)
           PROVE  Once /\ \A c \in Rows : Awaits(c)' => automatic[c] < MaxAttempts
        BY <2>10 DEF Restart, Awaits, Listed, Workers
    <2>11. CASE UNCHANGED vars
        BY <2>4, <2>11 DEF vars
    <2> QED
        BY <1>2, <2>5, <2>6, <2>7, <2>8, <2>9, <2>10, <2>11, NextCases
<1> QED
    BY <1>1, <1>2 DEF PassInv
----------------------------------------------------------------------------
(* Who holds a row                                                         *)

LEMMA NotAcceptedYet ==
    ASSUME TypeOK, NEW d \in Rows, OneHand(d),
           rows[d].status # "delivered" \/ InHand(d),
           \A w \in Workers : Holds(w, d) => answer[w] # "2xx"
    PROVE  accepted[d] = 0
    BY DEF TypeOK, OneHand

\* A step that is about other rows, or takes the row off the list.
LEMMA OneHandKept ==
    ASSUME NEW d \in Rows, OneHand(d),
           accepted'[d] = accepted[d], rows'[d].status = rows[d].status,
           Listed(d)' => Listed(d),
           \A v \in Workers : Holds(v, d)' <=> Holds(v, d),
           \A v \in Workers : Holds(v, d) => answer'[v] = answer[v]
    PROVE  OneHand(d)'
<1>1. InHand(d)' => InHand(d)
    BY DEF Holds, Listed, InHand
<1> QED
    BY <1>1 DEF OneHand

\* A row nobody has, not accepted so far, goes to one worker.
LEMMA OneHandTaken ==
    ASSUME NEW d \in Rows, accepted'[d] = 0, NEW w \in Workers,
           ~Listed(d)', \A v \in Workers \ {w} : ~Holds(v, d)'
    PROVE  OneHand(d)'
    BY DEF OneHand

LEMMA AttemptOneHand ==
    ASSUME TypeOK, TypeOK', AnswersInv, HandsInv, NEW w \in Workers, Attempt(w),
           NEW d \in Rows \ excused'
    PROVE  OneHand(d)'
<1>1. d \notin excused /\ OneHand(d)
    BY AttemptIsLocal DEF HandsInv
<1>2. CASE d # target[w].row
    <2>1. ~Holds(w, d) /\ ~Holds(w, d)'
        BY <1>2, AttemptHands DEF Holds
    <2> QED
        BY <1>1, <1>2, <2>1, AttemptHands, AttemptIsLocal, OneHandKept
<1>3. CASE d = target[w].row
    <2>1. /\ Holds(w, d) /\ InHand(d) /\ ~Listed(d) /\ ~Listed(d)'
          /\ \A v \in Workers \ {w} : ~Holds(v, d) /\ ~Holds(v, d)'
        BY <1>1, <1>3, AttemptHands, InHandCases DEF OneHand
    <2>2. answer[w] # "2xx" => accepted[d] = 0
        BY <1>1, <2>1, NotAcceptedYet
    <2>3. pc[w] # "mark" => answer[w] # "2xx"
        BY DEF AnswersInv
    <2>4. \/ accepted'[d] = accepted[d] /\ answer[w] # "2xx"
          \/ /\ pc[w] = "send" /\ pc'[w] = "mark" /\ target'[w] = target[w]
             /\ answer'[w] = "2xx" /\ accepted'[d] = accepted[d] + 1
          \/ /\ pc'[w] = "idle" /\ accepted'[d] = accepted[d]
             /\ rows'[d] = [rows[d] EXCEPT !.status = "delivered", !.deliveredAt = TRUE]
        BY <1>3, <2>3, AttemptEffects DEF histories
    <2>5. CASE accepted'[d] = accepted[d] /\ answer[w] # "2xx"
        BY <2>1, <2>2, <2>5, OneHandTaken
    <2>6. CASE /\ pc[w] = "send" /\ pc'[w] = "mark" /\ target'[w] = target[w]
               /\ answer'[w] = "2xx" /\ accepted'[d] = accepted[d] + 1
        <3>1. accepted'[d] = 1
            BY <2>2, <2>3, <2>6
        <3>2. Holds(w, d)'
            BY <1>3, <2>6 DEF Holds
        <3> QED
            BY <2>1, <2>6, <3>1, <3>2 DEF OneHand
    <2>7. CASE /\ pc'[w] = "idle" /\ accepted'[d] = accepted[d]
               /\ rows'[d] = [rows[d] EXCEPT !.status = "delivered", !.deliveredAt = TRUE]
        <3>1. rows'[d].status = "delivered"
            BY <2>7 DEF TypeOK, Row
        <3>2. ~Holds(w, d)'
            BY <2>7 DEF Holds
        <3>3. ~InHand(d)'
            BY <2>1, <3>2 DEF InHand, Listed, Holds
        <3>4. accepted'[d] <= 1
            BY <1>1, <2>7 DEF OneHand
        <3> QED
            BY <2>1, <3>1, <3>2, <3>3, <3>4 DEF OneHand
    <2> QED
        BY <2>4, <2>5, <2>6, <2>7
<1> QED
    BY <1>2, <1>3

\* The callers take rows that are undelivered and in nobody's hands, or excuse them.
LEMMA HandsNext ==
    ASSUME TypeOK, TypeOK', AnswersInv, RowsInv, PassInv, HandsInv, [Next]_vars
    PROVE  HandsInv'
<1> SUFFICES ASSUME NEW d \in Rows \ excused'
             PROVE  OneHand(d)'
    BY DEF HandsInv
<1>1. CASE \E w \in Workers : Attempt(w)
    BY <1>1, AttemptOneHand
<1>2. CASE ~\E w \in Workers : Attempt(w)
    <2>1. excused \subseteq excused' /\ accepted' = accepted
        BY <1>2, NextCases
        DEF vars, histories, Create, GrowOld, RetryFailedDeliveries, RetryNext,
            handleWebhookRetry, Restart
    <2>2. OneHand(d) /\ d \in Rows
        BY <2>1 DEF HandsInv
    <2>3. rows'[d].status = rows[d].status \/ rows[d].status = "none"
        <3>1. rows[d] \in Row
            BY DEF TypeOK
        <3>2. \/ rows'[d] = rows[d] \/ rows[d].status = "none"
              \/ rows'[d] = [rows[d] EXCEPT !.old = TRUE]
            BY <1>2, OtherRowChanges
        <3> QED
            BY <3>1, <3>2 DEF Row
    <2>4. ASSUME NEW e \in Rows, Create(e)
          PROVE  OneHand(d)'
        <3>1. /\ listed' = listed /\ answer' = answer /\ rows[e].status = "none"
              /\ \A v \in Workers : Holds(v, d)' <=> Holds(v, d) \/ (v = "watcher" /\ d = e)
            BY <2>4, BeginHands DEF Create, Workers
        <3>2. CASE d = e
            <4>1. accepted[d] = 0 /\ ~Listed(d) /\ \A v \in Workers : ~Holds(v, d)
                BY <3>1, <3>2, InHandCases DEF RowsInv
            <4> QED
                BY <2>1, <3>1, <4>1, OneHandTaken DEF Listed, Workers
        <3>3. CASE d # e
            <4>1. rows'[d] = rows[d]
                BY <2>4, <3>3 DEF Create, TypeOK
            <4> QED
                BY <2>1, <2>2, <3>1, <3>3, <4>1, OneHandKept DEF Listed
        <3> QED
            BY <3>2, <3>3
    <2>5. ASSUME NEW e \in Rows, GrowOld(e)
          PROVE  OneHand(d)'
        <3>1. rows'[d].status = rows[d].status
            BY <2>5 DEF GrowOld, TypeOK, Row
        <3> QED
            BY <2>1, <2>2, <2>5, <3>1, OneHandKept DEF GrowOld, Holds, Listed
    <2>6. CASE RetryFailedDeliveries
        <3>1. /\ rows' = rows /\ answer' = answer
              /\ \A v \in Workers : Holds(v, d)' <=> Holds(v, d)
              /\ Listed(d)' => d \in ListRetryable
            BY <2>6 DEF RetryFailedDeliveries, Holds, Listed
        <3>2. CASE d \in ListRetryable
            <4>1. ~InHand(d) /\ rows[d].status # "delivered"
                BY <2>6, <3>2 DEF RetryFailedDeliveries, ListRetryable, Undelivered
            <4>2. \A v \in Workers : ~Holds(v, d)
                BY <4>1, InHandCases
            <4>3. accepted[d] = 0
                BY <2>2, <4>1, <4>2, NotAcceptedYet
            <4> QED
                BY <2>1, <3>1, <4>2, <4>3 DEF OneHand
        <3>3. CASE d \notin ListRetryable
            BY <2>1, <2>2, <3>1, <3>3, OneHandKept
        <3> QED
            BY <3>2, <3>3
    <2>7. ASSUME NEW t \in listed, RetryNext(t)
          PROVE  OneHand(d)'
        <3>1. /\ rows' = rows /\ answer' = answer /\ listed' = listed \ {t}
              /\ \A v \in Workers : Holds(v, d)' <=> Holds(v, d) \/ (v = "retry" /\ d = t.row)
            BY <2>7, BeginHands DEF RetryNext, Workers, TypeOK
        <3>2. CASE d = t.row
            <4>1. Listed(d) /\ InHand(d) /\ \A v \in Workers : ~Holds(v, d)
                BY <2>2, <3>2, InHandCases DEF Listed, OneHand
            <4>2. ~Listed(d)'
                BY <3>1, <3>2 DEF Listed, PassInv
            <4>3. accepted[d] = 0
                BY <2>2, <4>1, NotAcceptedYet
            <4> QED
                BY <2>1, <3>1, <4>1, <4>2, <4>3, OneHandTaken DEF Workers
        <3>3. CASE d # t.row
            BY <2>1, <2>2, <3>1, <3>3, OneHandKept DEF Listed
        <3> QED
            BY <3>2, <3>3
    <2>8. ASSUME NEW a \in Admins, NEW e \in Rows, handleWebhookRetry(a, e)
          PROVE  OneHand(d)'
        <3>1. /\ rows' = rows /\ answer' = answer /\ listed' = listed /\ a \in Workers
              /\ \A v \in Workers : Holds(v, d)' <=> Holds(v, d) \/ (v = a /\ d = e)
            BY <2>8, BeginHands DEF handleWebhookRetry, Workers
        <3>2. CASE d = e
            <4>1. ~InHand(d) /\ rows[d].status # "delivered"
                BY <2>8, <3>2 DEF handleWebhookRetry, Undelivered
            <4>2. ~Listed(d) /\ \A v \in Workers : ~Holds(v, d)
                BY <4>1, InHandCases
            <4>3. accepted[d] = 0
                BY <2>2, <4>1, <4>2, NotAcceptedYet
            <4> QED
                BY <2>1, <3>1, <4>2, <4>3, OneHandTaken DEF Listed
        <3>3. CASE d # e
            BY <2>1, <2>2, <3>1, <3>3, OneHandKept DEF Listed
        <3> QED
            BY <3>2, <3>3
    <2>9. ASSUME NEW url \in URLs \cup {NoURL}, Restart(url)
          PROVE  OneHand(d)'
        <3>1. /\ rows' = rows /\ ~Listed(d)' /\ ~InHand(d)'
              /\ \A v \in Workers : ~Holds(v, d)'
            BY <2>9 DEF Restart, Listed, Holds, InHand
        <3>2. \A v \in Workers : Holds(v, d) => answer[v] # "2xx"
            BY <2>9 DEF Restart, Holds
        <3> QED
            BY <2>1, <2>2, <3>1, <3>2 DEF OneHand
    <2>10. CASE UNCHANGED vars
        BY <2>1, <2>2, <2>10, OneHandKept DEF vars, Holds, Listed
    <2> QED
        BY <1>2, <2>4, <2>5, <2>6, <2>7, <2>8, <2>9, <2>10, NextCases
<1> QED
    BY <1>1, <1>2

----------------------------------------------------------------------------
(* Theorems                                                                *)

LEMMA NextDeliveryInv == DeliveryInv /\ [Next]_vars => DeliveryInv'
<1> SUFFICES ASSUME DeliveryInv, [Next]_vars PROVE DeliveryInv'
    OBVIOUS
<1>1. TypeOK'
    BY DeliveryTypeNext DEF DeliveryInv
<1>2. AnswersInv' /\ RowsInv' /\ PassInv' /\ HandsInv'
    BY <1>1, AnswersNext, RowsNext, PassNext, HandsNext DEF DeliveryInv
<1>3. DeliveredIsTrue' /\ AttemptsCoverSends'
    BY <1>1, DeliveredNext, CoversNext DEF DeliveryInv
<1> QED
    BY <1>1, <1>2, <1>3 DEF DeliveryInv

LEMMA AlwaysDeliveryInv == Spec => []DeliveryInv
    BY InitDeliveryInv, NextDeliveryInv, PTL DEF Spec

\* Every variable keeps its type, and a worker inside webhook.Attempt always has a
\* row that exists.
THEOREM DeliveryTypeCorrect == Spec => []TypeOK
    BY AlwaysDeliveryInv, PTL DEF DeliveryInv

\* MarkDelivered is reached only with a 2xx in hand and nothing takes an acceptance
\* back: with any number of attempts at a row overlapping, the row never says
\* delivered, or carries a date, of a webhook the merchant did not accept.
THEOREM DeliveredIsAlwaysTrue == Spec => []DeliveredIsTrue
    BY AlwaysDeliveryInv, PTL DEF DeliveryInv

\* The UPDATE of IncrementAttempts is relative and comes before the request: however
\* many attempts at a row are under way, and wherever the process is stopped, the
\* counter covers the requests made and those about to be made.
THEOREM CounterCoversSends == Spec => []AttemptsCoverSends
    BY AlwaysDeliveryInv, PTL DEF DeliveryInv

\* ListRetryable filters on the counter when the pass begins and a pass has a row
\* once, so its list may be stale and the retry loop still keeps to
\* DefaultRetryMaxAttempts.
THEOREM RetriesAreCapped == Spec => []AutomaticAttemptsCapped
<1>1. DeliveryInv => AutomaticAttemptsCapped
    BY DEF DeliveryInv, PassInv, AutomaticAttemptsCapped
<1> QED
    BY <1>1, AlwaysDeliveryInv, PTL

\* The queries and the retry route pick undelivered rows: a merchant gets a webhook
\* twice only if two attempts at its row overlapped, or the outcome of one was lost.
THEOREM DuplicatesAreExplained == Spec => []DuplicatesNeedOverlapOrLoss
<1>1. DeliveryInv => DuplicatesNeedOverlapOrLoss
    BY DEF DeliveryInv, TypeOK, HandsInv, OneHand, DuplicatesNeedOverlapOrLoss
<1> QED
    BY <1>1, AlwaysDeliveryInv, PTL
=============================================================================
