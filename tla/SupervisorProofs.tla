---------------------------- MODULE SupervisorProofs ----------------------------
(***************************************************************************)
(* Theorems about Supervisor, for every backoff and every number of        *)
(* invoices, reports, faults, streams and unanswered calls.                *)
(*                                                                         *)
(* What Run returned can be trusted because of what it says about the two  *)
(* channels it leaves behind; what Reconcile and the stream miss between   *)
(* them, because of what is known when the stream is opened.               *)
(***************************************************************************)
EXTENDS Supervisor, SequenceTheorems, TLAPS

\* The library's side: the error channel is untouched while the stream is up,
\* holds an error exactly when the stream broke, and is settled before the
\* events channel closes.
ChannelsInv ==
    /\ broke <=> errCh = "error"
    /\ wire = "up" => errCh = "empty" /\ ~eventsDone
    /\ eventsDone => wire = "none"

\* A stream outlives its Run only when the process stops.
StreamInv ==
    /\ wire = "up" => pc \in {"run", "returned", "done"}
    /\ pc = "returned" => /\ result # "none"
                          /\ result = "cancelled" => cancelled
                          /\ wire = "up" => result = "cancelled"
    /\ pc = "wait" => result \in {"error", "clean"}

\* What Run returned is what the channels say.
ResultInv ==
    pc \in {"returned", "wait"} =>
        /\ result = "error" => errCh = "error"
        /\ result = "clean" => eventsDone /\ errCh # "error" /\ eventsCh = <<>>

\* From the start of Reconcile until the stream opens, whatever was not handled is
\* about an invoice still to be asked about, or was reported after that; only a stop
\* leaves invoices out.
GapInv ==
    faults = 0 =>
        /\ pc \in {"loop", "query", "reconciled", "open"} =>
               \A r \in Reported : r \in handled \cup gap \/ About[r] \in pending
        /\ pc = "reconciled" => pending = {} \/ cancelled
        /\ pc = "open" => pending = {}

SupervisorInv ==
    /\ TypeOK
    /\ eventsCh \in Seq(Reported)
    /\ ChannelsInv /\ StreamInv /\ ResultInv /\ GapInv
    /\ OnlyTheGapIsMissed

----------------------------------------------------------------------------
(* Lemmas                                                                  *)

\* The labels a look at the context leads from and to.
LEMMA AfterValues ==
    /\ DOMAIN After = {"head", "reconciled", "returned"}
    /\ After["head"] = "reconcile" /\ After["reconciled"] = "open"
    /\ After["returned"] = "wait"
    BY DEF After

\* What is in the buffer after an event is sent.
LEMMA BufferedAppend ==
    ASSUME NEW S, NEW s \in Seq(S), NEW r \in S
    PROVE  {Append(s, r)[k] : k \in 1..Len(Append(s, r))} =
               {s[k] : k \in 1..Len(s)} \cup {r}
<1>1. /\ Len(Append(s, r)) = Len(s) + 1 /\ Len(s) \in Nat
      /\ \A k \in 1..(Len(s) + 1) :
             Append(s, r)[k] = IF k = Len(s) + 1 THEN r ELSE s[k]
    OBVIOUS
<1> QED
    BY <1>1

\* What is in it after one is received.
LEMMA BufferedTail ==
    ASSUME NEW S, NEW s \in Seq(S), s # <<>>
    PROVE  /\ Head(s) \in S /\ Tail(s) \in Seq(S)
           /\ {s[k] : k \in 1..Len(s)} \subseteq
                  {Tail(s)[k] : k \in 1..Len(Tail(s))} \cup {Head(s)}
<1>1. /\ Len(s) \in Nat /\ Len(s) > 0
      /\ Head(s) = s[1] /\ Head(s) \in S /\ Tail(s) \in Seq(S)
      /\ Len(Tail(s)) = Len(s) - 1
      /\ \A k \in 1..(Len(s) - 1) : Tail(s)[k] = s[k + 1]
    OBVIOUS
<1>2. ASSUME NEW k \in 1..Len(s)
      PROVE  s[k] \in {Tail(s)[j] : j \in 1..Len(Tail(s))} \cup {Head(s)}
    <2>1. CASE k = 1
        BY <1>1, <2>1
    <2>2. CASE k # 1
        <3>1. k - 1 \in 1..Len(Tail(s)) /\ Tail(s)[k - 1] = s[k]
            BY <1>1, <2>2
        <3> QED
            BY <3>1
    <2> QED
        BY <2>1, <2>2
<1> QED
    BY <1>1, <1>2

\* A longer report list.
LEMMA MoreReports ==
    ASSUME NEW m \in Nat, NEW n \in Nat, m <= n, NEW s \in Seq(1..m)
    PROVE  s \in Seq(1..n)
<1>1. 1..m \subseteq 1..n
    OBVIOUS
<1> QED
    BY <1>1, SeqMonotonic, Zenon

----------------------------------------------------------------------------
(* The invariant                                                           *)

LEMMA InitSupervisorInv == Init => SupervisorInv
<1> SUFFICES ASSUME Init PROVE SupervisorInv
    OBVIOUS
<1>1. TypeOK /\ eventsCh \in Seq(Reported)
    <2>1. <<>> \in Seq(Reported) /\ <<>> \in Seq(Reports)
        OBVIOUS
    <2>2. InitialBackoff \in InitialBackoff..MaxBackoff
        BY BackoffAssumption
    <2>3. 0 \in 0..MaxReports /\ 0 \in 0..MaxFaults /\ 0 \in 0..MaxHangs /\ 0 \in 0..MaxStreams
        BY SupervisorBounds
    <2> QED
        BY <2>1, <2>2, <2>3 DEF Init, TypeOK
<1> QED
    BY <1>1 DEF Init, SupervisorInv, ChannelsInv, StreamInv, ResultInv, GapInv,
        OnlyTheGapIsMissed

\* The wallet reports once more: the report is handled later, buffered, or in the
\* gap, unless the stream is down.
LEMMA WalletReportsKeepsInv ==
    ASSUME SupervisorInv, WalletReports
    PROVE  SupervisorInv'
<1>1. /\ reported \in Nat /\ reported' = reported + 1 /\ reported' \in 0..MaxReports
      /\ eventsCh \in Seq(Reported)
    BY SupervisorBounds DEF SupervisorInv, TypeOK, WalletReports
<1>2. Reported' = Reported \cup {reported'} /\ reported' \in Reported'
    BY <1>1 DEF Reported
<1>3. eventsCh \in Seq(Reported')
    BY <1>1, MoreReports DEF Reported
<1>4. eventsCh' \in Seq(Reported') /\ eventsCh' \in Seq(Reports)
    <2>1. eventsCh' \in Seq(Reported')
        BY <1>2, <1>3 DEF WalletReports
    <2> QED
        BY <1>1, <2>1, MoreReports, SupervisorBounds DEF Reported, Reports
<1>5. TypeOK'
    BY <1>1, <1>2, <1>4 DEF SupervisorInv, TypeOK, WalletReports, goroutine, calls
<1>6. ChannelsInv' /\ StreamInv' /\ ResultInv'
    BY DEF SupervisorInv, WalletReports, goroutine, ChannelsInv, StreamInv, ResultInv
<1>7. GapInv'
    BY <1>2 DEF SupervisorInv, WalletReports, goroutine, Missed, GapInv
<1>8. OnlyTheGapIsMissed'
    <2> SUFFICES ASSUME wire' = "up", faults' = 0
                 PROVE  Reported' \subseteq (handled \cup Buffered \cup gap)'
        BY DEF OnlyTheGapIsMissed
    <2>1. Reported \subseteq handled \cup Buffered \cup gap
        BY DEF SupervisorInv, OnlyTheGapIsMissed, WalletReports
    <2>2. Buffered' = Buffered \cup {reported'}
        BY <1>2, <1>3, BufferedAppend DEF WalletReports, Buffered
    <2> QED
        BY <1>2, <2>1, <2>2 DEF WalletReports
<1> QED
    BY <1>4, <1>5, <1>6, <1>7, <1>8 DEF SupervisorInv

\* Run receives an event: what leaves the buffer is handled.
LEMMA SelectEventsKeepsInv ==
    ASSUME SupervisorInv, SelectEvents
    PROVE  SupervisorInv'
<1>1. /\ eventsCh \in Seq(Reported) /\ eventsCh # <<>>
      /\ Reported' = Reported /\ handled' = handled \cup {Head(eventsCh)}
      /\ eventsCh' = Tail(eventsCh)
    BY DEF SupervisorInv, SelectEvents, Reported
<1>2. Head(eventsCh) \in Reported /\ eventsCh' \in Seq(Reported)
    BY <1>1, BufferedTail
<1>3. eventsCh' \in Seq(Reports)
    BY <1>2, MoreReports, SupervisorBounds DEF Reported, Reports, SupervisorInv, TypeOK
<1>4. TypeOK'
    BY <1>1, <1>2, <1>3 DEF SupervisorInv, TypeOK, SelectEvents, goroutine, calls
<1>5. ChannelsInv' /\ StreamInv' /\ ResultInv' /\ GapInv'
    BY DEF SupervisorInv, SelectEvents, goroutine, ChannelsInv, StreamInv, ResultInv,
           GapInv, Reported
<1>6. OnlyTheGapIsMissed'
    <2>1. Buffered \subseteq Buffered' \cup {Head(eventsCh)}
        BY <1>1, BufferedTail DEF Buffered
    <2> QED
        BY <1>1, <2>1 DEF SupervisorInv, SelectEvents, OnlyTheGapIsMissed
<1> QED
    BY <1>1, <1>2, <1>4, <1>5, <1>6 DEF SupervisorInv

\* Run returns with an answer the channels bear out.
LEMMA RunReturnsKeepsInv ==
    ASSUME SupervisorInv, NEW r \in {"cancelled", "error", "clean"}, RunReturns(r),
           r = "cancelled" => cancelled,
           r = "error" => errCh = "error",
           r = "clean" => eventsDone /\ errCh # "error" /\ eventsCh = <<>>
    PROVE  SupervisorInv'
<1> USE DEF SupervisorInv, RunReturns, calls, channels, reports
<1>1. TypeOK' /\ (eventsCh \in Seq(Reported))'
    BY DEF TypeOK, Reported
<1>2. ChannelsInv' /\ GapInv'
    BY DEF ChannelsInv, GapInv, Reported
<1>3. StreamInv' /\ ResultInv'
    BY DEF ChannelsInv, StreamInv, ResultInv
<1>4. OnlyTheGapIsMissed'
    BY DEF OnlyTheGapIsMissed, Reported, Buffered
<1> QED
    BY <1>1, <1>2, <1>3, <1>4

\* The steps that concern neither the reports nor what is buffered of them.
LEMMA OthersKeepInv ==
    ASSUME SupervisorInv,
           \/ CheckContext \/ WaitCancelled \/ WaitElapses \/ Cancel
           \/ WalletHangs \/ WalletRecovers
           \/ StreamBreaks \/ StreamEnds \/ CloseEvents
    PROVE  SupervisorInv'
<1> USE DEF SupervisorInv, goroutine, calls, channels, reports
<1>1. /\ Reported' = Reported /\ Buffered' = Buffered
      /\ eventsCh' = eventsCh /\ handled' = handled /\ gap' = gap /\ faults' = faults
    BY DEF CheckContext, WaitCancelled, WaitElapses, Cancel, WalletHangs, WalletRecovers,
           StreamBreaks, StreamEnds, CloseEvents, Reported, Buffered
<1>2. CASE CheckContext
    <2>1. TypeOK'
        BY <1>1, <1>2, AfterValues DEF CheckContext, TypeOK
    <2>2. \/ pc' = "done"
          \/ pc = "head" /\ pc' = "reconcile" /\ ~cancelled
          \/ pc = "reconciled" /\ pc' = "open" /\ ~cancelled
          \/ pc = "returned" /\ pc' = "wait" /\ ~cancelled
        BY <1>2, AfterValues DEF CheckContext
    <2>3. ChannelsInv' /\ StreamInv' /\ ResultInv' /\ GapInv' /\ OnlyTheGapIsMissed'
        BY <1>1, <1>2, <2>2
        DEF CheckContext, TypeOK, ChannelsInv, StreamInv, ResultInv, GapInv,
            OnlyTheGapIsMissed
    <2> QED
        BY <1>1, <2>1, <2>3
<1>3. CASE WaitCancelled
    BY <1>1, <1>3
    DEF WaitCancelled, TypeOK, ChannelsInv, StreamInv, ResultInv, GapInv, OnlyTheGapIsMissed
<1>4. CASE WaitElapses
    <2>1. nextBackoff \in InitialBackoff..MaxBackoff
        BY BackoffAssumption DEF TypeOK, nextBackoff
    <2> QED
        BY <1>1, <1>4, <2>1
        DEF WaitElapses, TypeOK, ChannelsInv, StreamInv, ResultInv, GapInv,
            OnlyTheGapIsMissed
<1>5. CASE Cancel
    BY <1>1, <1>5
    DEF Cancel, TypeOK, ChannelsInv, StreamInv, ResultInv, GapInv, OnlyTheGapIsMissed
<1>6. CASE StreamBreaks
    BY <1>1, <1>6, SupervisorBounds
    DEF StreamBreaks, TypeOK, ChannelsInv, StreamInv, ResultInv, GapInv, OnlyTheGapIsMissed
<1>7. CASE StreamEnds
    BY <1>1, <1>7, SupervisorBounds
    DEF StreamEnds, TypeOK, ChannelsInv, StreamInv, ResultInv, GapInv, OnlyTheGapIsMissed
<1>8. CASE CloseEvents
    BY <1>1, <1>8
    DEF CloseEvents, TypeOK, ChannelsInv, StreamInv, ResultInv, GapInv, OnlyTheGapIsMissed
<1>9. CASE WalletHangs \/ WalletRecovers
    BY <1>1, <1>9, SupervisorBounds
    DEF WalletHangs, WalletRecovers, TypeOK, ChannelsInv, StreamInv, ResultInv, GapInv,
        OnlyTheGapIsMissed
<1> QED
    BY <1>2, <1>3, <1>4, <1>5, <1>6, <1>7, <1>8, <1>9

\* Reconcile, whether or not its queries get through.  No stream is up during it.
LEMMA ReconcileKeepsInv ==
    ASSUME SupervisorInv, Reconcile
    PROVE  SupervisorInv'
<1> USE DEF SupervisorInv, calls, channels, reports
<1>1. /\ pc \in {"reconcile", "loop", "query"} /\ pc' \in {"loop", "query", "reconciled"}
      /\ UNCHANGED <<backoff, result, cancelled, calls, channels, reported>>
      /\ Reported' = Reported
    BY DEF Reconcile, ListNonTerminal, ListNonTerminalFails, ReconcileLoop,
           GetCompletedByPaymentID, GetCompletedByPaymentIDFails, Reported
<1>2. /\ ChannelsInv' /\ StreamInv' /\ ResultInv' /\ OnlyTheGapIsMissed'
      /\ eventsCh' \in Seq(Reported')
    BY <1>1 DEF ChannelsInv, StreamInv, ResultInv, OnlyTheGapIsMissed
<1>3. CASE ListNonTerminal
    BY <1>1, <1>2, <1>3, AboutAssumption, SupervisorBounds
    DEF ListNonTerminal, TypeOK, GapInv, Reported, Reports
<1>4. CASE ReconcileLoop
    BY <1>1, <1>2, <1>4 DEF ReconcileLoop, TypeOK, GapInv
<1>5. ASSUME NEW i \in Invoices, GetCompletedByPaymentID(i)
      PROVE  SupervisorInv'
    BY <1>1, <1>2, <1>5 DEF GetCompletedByPaymentID, TypeOK, GapInv
<1>6. ASSUME ListNonTerminalFails \/ \E i \in Invoices : GetCompletedByPaymentIDFails(i)
      PROVE  SupervisorInv'
    <2>1. /\ faults' = faults + 1 /\ faults < MaxFaults /\ pending' \subseteq pending
          /\ UNCHANGED <<handled, gap>>
        BY <1>6 DEF ListNonTerminalFails, GetCompletedByPaymentIDFails
    <2>2. TypeOK' /\ faults' # 0
        BY <1>1, <2>1, SupervisorBounds DEF TypeOK
    <2> QED
        BY <1>2, <2>2 DEF GapInv
<1> QED
    BY <1>3, <1>4, <1>5, <1>6 DEF Reconcile

\* The stream that is opened after it.
LEMMA OpenStreamKeepsInv ==
    ASSUME SupervisorInv, OpenStream
    PROVE  SupervisorInv'
<1> USE DEF SupervisorInv, calls, channels, reports
<1>1. Reported' = Reported /\ reported' = reported
    BY DEF OpenStream, Reported
<1>2. <<>> \in Seq(Reported') /\ <<>> \in Seq(Reports)
    OBVIOUS
<1>3. TypeOK' /\ eventsCh' \in Seq(Reported')
    BY <1>1, <1>2 DEF OpenStream, TypeOK
<1> QED
    BY <1>1, <1>3
    DEF OpenStream, ChannelsInv, StreamInv, ResultInv, GapInv, OnlyTheGapIsMissed

LEMMA NextSupervisorInv == SupervisorInv /\ [Next]_vars => SupervisorInv'
<1> SUFFICES ASSUME SupervisorInv, [Next]_vars PROVE SupervisorInv'
    OBVIOUS
<1>1. CASE UNCHANGED vars
    BY <1>1
    DEF vars, goroutine, calls, channels, reports, SupervisorInv, TypeOK, Reported, Buffered, ChannelsInv,
        StreamInv, ResultInv, GapInv, OnlyTheGapIsMissed
<1>2. CASE Run
    <2>1. CASE SelectDone
        BY <2>1, RunReturnsKeepsInv DEF SelectDone
    <2>2. CASE SelectError
        BY <2>2, RunReturnsKeepsInv DEF SelectError
    <2>3. CASE SelectEnd
        BY <2>3, RunReturnsKeepsInv DEF SelectEnd
    <2> QED
        BY <1>2, <2>1, <2>2, <2>3, SelectEventsKeepsInv DEF Run
<1> QED
    BY <1>1, <1>2, WalletReportsKeepsInv, OthersKeepInv, ReconcileKeepsInv,
       OpenStreamKeepsInv
    DEF Next, supervisor

LEMMA AlwaysSupervisorInv == Spec => []SupervisorInv
    BY InitSupervisorInv, NextSupervisorInv, PTL DEF Spec

----------------------------------------------------------------------------
(* The theorems                                                            *)

\* The types, and with them that the backoff stays between its first value and
\* its cap however often it doubles.
THEOREM SupervisorTypeCorrect == Spec => []TypeOK
<1>1. SupervisorInv => TypeOK
    BY DEF SupervisorInv
<1> QED
    BY <1>1, AlwaysSupervisorInv, PTL

\* While the stream is up, what is neither handled nor buffered was reported between
\* Reconcile's query about its invoice and the stream, however often the stream broke
\* or the wallet kept Reconcile waiting before.
THEOREM MissedIsInTheGap == Spec => []OnlyTheGapIsMissed
<1>1. SupervisorInv => OnlyTheGapIsMissed
    BY DEF SupervisorInv
<1> QED
    BY <1>1, AlwaysSupervisorInv, PTL

\* Whatever the select picks, a stream that ends cleanly was read to its end.
THEOREM CleanEndIsComplete == Spec => []CleanEndDropsNothing
<1>1. SupervisorInv => CleanEndDropsNothing
    BY DEF SupervisorInv, ResultInv, CleanEndDropsNothing
<1> QED
    BY <1>1, AlwaysSupervisorInv, PTL

\* Whatever the select picks, Run returns an error exactly when the stream broke.
THEOREM BrokenIsReported == Spec => []ErrorIsReported
<1>1. SupervisorInv => ErrorIsReported
    BY DEF SupervisorInv, TypeOK, ChannelsInv, StreamInv, ResultInv, ErrorIsReported
<1> QED
    BY <1>1, AlwaysSupervisorInv, PTL
=============================================================================
