------------------------------ MODULE StatusMap ------------------------------
(***************************************************************************)
(* The wallet's vocabulary of transaction statuses, the text the gateway   *)
(* reads for each of them, and the verdict eventwatcher.mapStatus draws    *)
(* from that text.                                                         *)
(*                                                                         *)
(* A text is the sequence of its upper-cased words: mapStatus upper-cases  *)
(* its input and looks for phrases of whole words, so words are the finest *)
(* grain its answer depends on.  "One-Sided" is one word: the hyphen is    *)
(* what keeps the two wire formats apart.                                  *)
(***************************************************************************)
EXTENDS Integers, Sequences

\* tari_generated.TransactionStatus, as the names of its values without their
\* TRANSACTION_STATUS_ prefix; FUTURE is a value added to the wallet's proto
\* after this gateway was built.
TransactionStatus ==
    {"COMPLETED", "BROADCAST", "MINED_UNCONFIRMED", "IMPORTED", "PENDING",
     "COINBASE", "MINED_CONFIRMED", "REJECTED", "ONE_SIDED_UNCONFIRMED",
     "ONE_SIDED_CONFIRMED", "QUEUED", "NOT_FOUND", "COINBASE_UNCONFIRMED",
     "COINBASE_CONFIRMED", "COINBASE_NOT_IN_BLOCK_CHAIN", "FUTURE"}

\* The short text of a status.  Reconcile obtains it with this table, and the
\* stream carries it already in this form; both reach mapStatus.
transactionInfoStatusText(s) ==
    CASE s = "COMPLETED"             -> <<"COMPLETED">>
      [] s = "BROADCAST"             -> <<"BROADCAST">>
      [] s = "MINED_UNCONFIRMED"     -> <<"MINED", "UNCONFIRMED">>
      [] s = "IMPORTED"              -> <<"IMPORTED">>
      [] s = "PENDING"               -> <<"PENDING">>
      [] s = "COINBASE"              -> <<"COINBASE">>
      [] s = "MINED_CONFIRMED"       -> <<"MINED", "CONFIRMED">>
      [] s = "REJECTED"              -> <<"REJECTED">>
      [] s = "ONE_SIDED_UNCONFIRMED" -> <<"ONE-SIDED", "UNCONFIRMED">>
      [] s = "ONE_SIDED_CONFIRMED"   -> <<"ONE-SIDED", "CONFIRMED">>
      [] s = "QUEUED"                -> <<"QUEUED">>
      [] s = "NOT_FOUND"             -> <<"NOT", "FOUND">>
      [] s = "COINBASE_UNCONFIRMED"  -> <<"COINBASE", "UNCONFIRMED">>
      [] s = "COINBASE_CONFIRMED"    -> <<"COINBASE", "CONFIRMED">>
      [] s = "COINBASE_NOT_IN_BLOCK_CHAIN"
            -> <<"COINBASE", "NOT", "IN", "BLOCK", "CHAIN">>
      [] OTHER                       -> <<"(enum number)">>

\* strings.Contains over whole words.
Contains(text, phrase) ==
    \E from \in 1..(Len(text) - Len(phrase) + 1) :
        SubSeq(text, from, from + Len(phrase) - 1) = phrase

ContainsAny(text, phrases) == \E p \in phrases : Contains(text, p)

MapsToConfirmed == {<<"MINED", "CONFIRMED">>, <<"ONE-SIDED", "CONFIRMED">>}

\* Mutant: the S5/AI-06 bug, in-progress statuses fall into the default case.
MapsToSeen_S5 ==
    {<<"BROADCAST">>, <<"PENDING">>, <<"MINED", "UNCONFIRMED">>,
     <<"ONE-SIDED", "UNCONFIRMED">>}

MapsToSeen ==
    {<<"BROADCAST">>, <<"PENDING">>, <<"MINED", "UNCONFIRMED">>,
     <<"ONE-SIDED", "UNCONFIRMED">>, <<"COMPLETED">>, <<"QUEUED">>,
     <<"IMPORTED">>, <<"COINBASE">>}

\* The cases of the switch in their order: the confirmed phrases win, and
\* whatever matches nothing is a rejection.
mapStatus(text) ==
    IF ContainsAny(text, MapsToConfirmed)
      THEN [status |-> "confirmed", event |-> "payment.confirmed"]
    ELSE IF ContainsAny(text, MapsToSeen)
      THEN [status |-> "seen", event |-> "payment.seen"]
    ELSE [status |-> "rejected", event |-> "payment.rejected"]

\* The verdict on a wallet status, whichever way it reached the gateway.
Verdict(s) == mapStatus(transactionInfoStatusText(s))
=============================================================================
