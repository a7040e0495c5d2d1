------------------------------ MODULE Supervisor ------------------------------
(***************************************************************************)
(* runEventWatcherWithBackoff and the select of Watcher.Run: how the event *)
(* watcher goroutine is kept alive, and what becomes of the wallet's       *)
(* reports while it is not listening.                                      *)
(*                                                                         *)
(* The supervisor asks the wallet about one invoice after the other        *)
(* (Reconcile), opens an event stream (Run), waits, and starts over.  The  *)
(* wallet may leave a call of Reconcile unanswered, and that call takes no *)
(* context.  The stream is two channels fed by a goroutine of the wallet   *)
(* library; Run's select takes whichever is ready.  What handleTransaction *)
(* makes of a report is the business of Watcher: here a report is handled  *)
(* or it is not.                                                           *)
(***************************************************************************)
EXTENDS Integers, Sequences

CONSTANTS
    Invoices,        \* the non-terminal invoices
    About,           \* the invoice that each report is about
    InitialBackoff,  \* eventWatcherInitialBackoff, in seconds
    MaxBackoff,      \* eventWatcherMaxBackoff
    MaxReports,      \* bound on what the wallet reports
    MaxFaults,       \* bound on queries of Reconcile that fail
    MaxHangs,        \* bound on how often the wallet stops answering
    MaxStreams       \* bound on the streams that break or end

ASSUME BackoffAssumption ==
    /\ InitialBackoff \in Nat \ {0} /\ MaxBackoff \in Nat
    /\ InitialBackoff <= MaxBackoff

ASSUME SupervisorBounds ==
    MaxReports \in Nat /\ MaxFaults \in Nat /\ MaxHangs \in Nat /\ MaxStreams \in Nat

Reports == 1..MaxReports    \* in the order the wallet makes them

ASSUME AboutAssumption == About \in [Reports -> Invoices]

VARIABLES
    pc,         \* where the goroutine is
    backoff,    \* its local variable
    result,     \* what Run returned
    cancelled,  \* the shutdown context is done
    pending,    \* the invoices Reconcile has not asked the wallet about yet
    wallet,     \* whether the wallet answers calls
    wire,       \* the wallet's side of the stream
    eventsCh,   \* the events sent and not yet received
    eventsDone, \* eventsCh is closed
    errCh,      \* the error channel: empty, holding an error, or closed
    reported,   \* how many reports the wallet has made
    handled,    \* the reports that reached handleTransaction
    gap,        \* history: reports made after Reconcile asked about their invoice
                \* and before the stream
    broke,      \* history: the current stream ended with an error
    faults, hangs, streams

goroutine == <<pc, backoff, result, pending>>
calls == <<wallet, hangs>>
channels == <<wire, eventsCh, eventsDone, errCh, broke, streams>>
reports == <<reported, handled, gap>>
vars == <<goroutine, cancelled, calls, channels, reports, faults>>

Reported == 1..reported
Buffered == {eventsCh[k] : k \in 1..Len(eventsCh)}

Init ==
    /\ pc = "head" /\ backoff = InitialBackoff /\ result = "none"
    /\ pending = {} /\ cancelled = FALSE
    /\ wallet = "answers" /\ hangs = 0
    /\ wire = "none" /\ eventsCh = <<>> /\ eventsDone = FALSE /\ errCh = "empty"
    /\ reported = 0 /\ handled = {} /\ gap = {}
    /\ broke = FALSE /\ faults = 0 /\ streams = 0

----------------------------------------------------------------------------
(* The wallet and its library, and the signal                              *)

\* Reconcile has asked about invoice i, and the stream is not open yet.
Missed(i) == pc \in {"loop", "query", "reconciled", "open"} /\ i \notin pending

\* A transaction changes.  An open stream carries the report.
WalletReports ==
    /\ reported < MaxReports
    /\ reported' = reported + 1
    /\ eventsCh' = IF wire = "up" THEN Append(eventsCh, reported') ELSE eventsCh
    /\ gap' = IF Missed(About[reported']) THEN gap \cup {reported'} ELSE gap
    /\ UNCHANGED <<goroutine, cancelled, calls, wire, eventsDone, errCh, handled, broke,
                   faults, streams>>

\* The wallet keeps its connections and answers no call ...
WalletHangs ==
    /\ wallet = "answers" /\ hangs < MaxHangs
    /\ wallet' = "hung" /\ hangs' = hangs + 1
    /\ UNCHANGED <<goroutine, cancelled, channels, reports, faults>>

\* ... until it does again, if ever.
WalletRecovers ==
    /\ wallet = "hung" /\ wallet' = "answers"
    /\ UNCHANGED <<goroutine, cancelled, hangs, channels, reports, faults>>

\* The connection breaks, and the library's goroutine sends the error ...
StreamBreaks ==
    /\ wire = "up" /\ streams < MaxStreams
    /\ wire' = "closing" /\ errCh' = "error" /\ broke' = TRUE
    /\ streams' = streams + 1
    /\ UNCHANGED <<goroutine, cancelled, calls, eventsCh, eventsDone, reports, faults>>

\* ... or the stream ends, which closes the error channel, with no error in it ...
StreamEnds ==
    /\ wire = "up" /\ (streams < MaxStreams \/ cancelled)
    /\ wire' = "closing" /\ errCh' = "closed"
    /\ streams' = IF cancelled THEN streams ELSE streams + 1
    /\ UNCHANGED <<goroutine, cancelled, calls, eventsCh, eventsDone, broke, reports, faults>>

\* ... and then the events channel.
CloseEvents ==
    /\ wire = "closing"
    /\ wire' = "none" /\ eventsDone' = TRUE
    /\ UNCHANGED <<goroutine, cancelled, calls, eventsCh, errCh, broke, streams, reports,
                   faults>>

\* SIGTERM.
Cancel ==
    /\ ~cancelled /\ cancelled' = TRUE
    /\ UNCHANGED <<goroutine, calls, channels, reports, faults>>

----------------------------------------------------------------------------
(* runEventWatcherWithBackoff and Reconcile                                *)

\* What follows each look at the context.
After == [head |-> "reconcile", reconciled |-> "open", returned |-> "wait"]

\* if ctx.Err() != nil { return }: at the loop's head, after Reconcile, after Run.
CheckContext ==
    /\ pc \in DOMAIN After
    /\ pc' = IF cancelled THEN "done" ELSE After[pc]
    /\ UNCHANGED <<backoff, result, pending, cancelled, calls, channels, reports, faults>>

\* The query fails: the stream is opened all the same.
ListNonTerminalFails ==
    /\ pc = "reconcile" /\ pc' = "reconciled"
    /\ faults < MaxFaults /\ faults' = faults + 1
    /\ UNCHANGED <<backoff, result, pending, cancelled, calls, channels, reports>>

ListNonTerminal ==
    /\ pc = "reconcile" /\ pc' = "loop" /\ pending' = Invoices
    /\ UNCHANGED <<backoff, result, cancelled, calls, channels, reports, faults>>

\* The head of Reconcile's loop: it looks at the context before each invoice.
ReconcileLoop ==
    /\ pc = "loop"
    /\ pc' = IF cancelled \/ pending = {} THEN "reconciled" ELSE "query"
    /\ UNCHANGED <<backoff, result, pending, cancelled, calls, channels, reports, faults>>

\* Mutant: the invoices after the first are left for the next time.
GetCompletedByPaymentID_FirstOnly(i) ==
    /\ pc = "query" /\ wallet = "answers" /\ i \in pending
    /\ pc' = "loop" /\ pending' = {}
    /\ handled' = handled \cup {r \in Reported : About[r] = i}
    /\ gap' = {r \in gap : About[r] # i}
    /\ UNCHANGED <<backoff, result, cancelled, calls, channels, reported, faults>>

\* getCompletedByPaymentID answers, and everything the wallet knows of the invoice by
\* now is handled.  The call takes no context: it ends when the wallet answers.
GetCompletedByPaymentID(i) ==
    /\ pc = "query" /\ wallet = "answers" /\ i \in pending
    /\ pc' = "loop" /\ pending' = pending \ {i}
    /\ handled' = handled \cup {r \in Reported : About[r] = i}
    /\ gap' = {r \in gap : About[r] # i}
    /\ UNCHANGED <<backoff, result, cancelled, calls, channels, reported, faults>>

\* The call fails, and the invoice is skipped.
GetCompletedByPaymentIDFails(i) ==
    /\ pc = "query" /\ wallet = "answers" /\ i \in pending
    /\ pc' = "loop" /\ pending' = pending \ {i}
    /\ faults < MaxFaults /\ faults' = faults + 1
    /\ UNCHANGED <<backoff, result, cancelled, calls, channels, reports>>

Reconcile ==
    \/ ListNonTerminal \/ ListNonTerminalFails \/ ReconcileLoop
    \/ \E i \in Invoices : GetCompletedByPaymentID(i) \/ GetCompletedByPaymentIDFails(i)

----------------------------------------------------------------------------
(* Watcher.Run                                                             *)

\* Two new channels; nothing older than this moment is on them.
OpenStream ==
    /\ pc = "open"
    /\ pc' = "run" /\ wire' = "up"
    /\ eventsCh' = <<>> /\ eventsDone' = FALSE /\ errCh' = "empty"
    /\ broke' = FALSE
    /\ UNCHANGED <<backoff, result, pending, cancelled, calls, reports, faults, streams>>

\* Run returns to the supervisor, which forgets the channels.
RunReturns(r) ==
    /\ pc' = "returned" /\ result' = r
    /\ UNCHANGED <<backoff, pending, cancelled, calls, channels, reports, faults>>

\* The cases of the select.  It picks any that is ready.

\* Mutant: Run leaves it to the library to notice the shutdown.
SelectDone_WaitsForTheEnd ==
    pc = "run" /\ cancelled /\ eventsDone /\ RunReturns("cancelled")

SelectDone == pc = "run" /\ cancelled /\ RunReturns("cancelled")

SelectError == pc = "run" /\ errCh = "error" /\ RunReturns("error")

\* Mutant: a closed error channel is taken for the end of the stream.
SelectEvents_TrustsErrCh ==
    \/ /\ pc = "run" /\ errCh = "closed" /\ RunReturns("clean")
    \/ /\ pc = "run" /\ eventsCh # <<>>
       /\ eventsCh' = Tail(eventsCh)
       /\ handled' = handled \cup {Head(eventsCh)}
       /\ UNCHANGED <<goroutine, cancelled, calls, wire, eventsDone, errCh, broke, streams,
                      reported, gap, faults>>

\* Reading a closed errCh changes nothing and is no case of its own here.
SelectEvents ==
    /\ pc = "run" /\ eventsCh # <<>>
    /\ eventsCh' = Tail(eventsCh)
    /\ handled' = handled \cup {Head(eventsCh)}
    /\ UNCHANGED <<goroutine, cancelled, calls, wire, eventsDone, errCh, broke, streams,
                   reported, gap, faults>>

\* Mutant: the events channel's end is believed without a last look.
SelectEnd_NoLastLook ==
    pc = "run" /\ eventsCh = <<>> /\ eventsDone /\ RunReturns("clean")

\* The events channel is closed and empty: one last look for an error.
SelectEnd ==
    /\ pc = "run" /\ eventsCh = <<>> /\ eventsDone
    /\ RunReturns(IF errCh = "error" THEN "error" ELSE "clean")

Run == SelectDone \/ SelectError \/ SelectEvents \/ SelectEnd

----------------------------------------------------------------------------
(* The wait                                                                *)

WaitCancelled ==
    /\ pc = "wait" /\ cancelled /\ pc' = "done"
    /\ UNCHANGED <<backoff, result, pending, cancelled, calls, channels, reports, faults>>

\* Mutant: doubling without the cap.
nextBackoff_Uncapped == 2 * backoff

nextBackoff == IF 2 * backoff > MaxBackoff THEN MaxBackoff ELSE 2 * backoff

\* Mutant: Reconcile is for startup only.
WaitElapses_NoReconcile ==
    /\ pc = "wait" /\ pc' = "open"
    /\ backoff' = nextBackoff
    /\ UNCHANGED <<result, pending, cancelled, calls, channels, reports, faults>>

\* time.After(backoff); the loop starts over.
WaitElapses ==
    /\ pc = "wait" /\ pc' = "head"
    /\ backoff' = nextBackoff
    /\ UNCHANGED <<result, pending, cancelled, calls, channels, reports, faults>>

----------------------------------------------------------------------------
supervisor ==
    \/ CheckContext \/ Reconcile \/ OpenStream
    \/ Run \/ WaitCancelled \/ WaitElapses

Next ==
    \/ supervisor
    \/ WalletReports \/ WalletHangs \/ WalletRecovers
    \/ StreamBreaks \/ StreamEnds \/ CloseEvents
    \/ Cancel

Spec == Init /\ [][Next]_vars

\* The goroutine runs whenever something is ready, the select does not overlook
\* a ready case for ever (it picks at random), and the library's goroutine
\* closes both channels.  Nothing is assumed of the operator or of the wallet: one that
\* hangs may do so for ever, and keeps the goroutine in a call of Reconcile meanwhile.
FairSpec ==
    /\ Spec
    /\ WF_vars(supervisor) /\ WF_vars(CloseEvents) /\ WF_vars(SelectDone)

----------------------------------------------------------------------------
(* Properties                                                              *)

\* Every variable has its type, and the waits stay between the first and the
\* cap: a wait that grew on would end up negative and not wait at all.
TypeOK ==
    /\ pc \in {"head", "reconcile", "loop", "query", "reconciled", "open", "run",
             "returned", "wait", "done"}
    /\ backoff \in InitialBackoff..MaxBackoff
    /\ result \in {"none", "cancelled", "error", "clean"}
    /\ pending \subseteq Invoices
    /\ cancelled \in BOOLEAN
    /\ wallet \in {"answers", "hung"} /\ hangs \in 0..MaxHangs
    /\ wire \in {"none", "up", "closing"}
    /\ eventsCh \in Seq(Reports)
    /\ eventsDone \in BOOLEAN
    /\ errCh \in {"empty", "error", "closed"}
    /\ reported \in 0..MaxReports
    /\ handled \subseteq Reported /\ gap \subseteq Reported
    /\ broke \in BOOLEAN
    /\ faults \in 0..MaxFaults /\ streams \in 0..MaxStreams

\* While the stream is up, a report the gateway neither handled nor has buffered
\* was made after Reconcile asked about its invoice and before the stream opened,
\* unless a query of Reconcile failed: whatever an outage or a dropped buffer lost, the
\* Reconcile before the stream has brought back.
OnlyTheGapIsMissed ==
    wire = "up" /\ faults = 0 => Reported \subseteq handled \cup Buffered \cup gap

\* Which of two ready channels the select picks may drop events, but only when
\* the stream broke or the process stops: a stream that ends cleanly is read to
\* its end, although the error channel closes first.
CleanEndDropsNothing == pc \in {"returned", "wait"} /\ result = "clean" => eventsCh = <<>>

\* A broken stream is never reported as a clean end, whichever channel Run looked
\* at first, and a clean end never as an error.
ErrorIsReported ==
    pc \in {"returned", "wait"} /\ result # "cancelled" => (result = "error" <=> broke)

\* The goroutine is in a call that the wallet does not answer.
InWalletCall == pc = "query" /\ wallet = "hung"

\* The wallet's reports reach the handler, if not from the stream then from the
\* Reconcile after it.  A report in the gap may have to wait for that stream to
\* end, but no longer.  Excepted are a stop, a failed query, and a wallet that never
\* answers the call Reconcile is in.
ReportIsHandled ==
    \A r \in Reports :
        /\ r \in Reported
             ~> (r \in handled \/ r \in gap \/ cancelled \/ faults > 0 \/ []InWalletCall)
        /\ (r \in gap /\ pc = "returned")
             ~> (r \in handled \/ cancelled \/ faults > 0 \/ []InWalletCall)

\* After SIGTERM the goroutine returns wherever it is: in a wait, with a stream that is
\* up and a buffer that is never empty, with one that just broke, or among the invoices
\* of a Reconcile.  One thing can keep it, a call of the wallet that is never answered;
\* with an answer, however late, it returns.
StopsWhenCancelled == cancelled ~> (pc = "done" \/ []InWalletCall)
=============================================================================
