--------------------------- MODULE InvoiceLifecycle ---------------------------
(***************************************************************************)
(* What a merchant can rely on: an abstract invoice has a status and the   *)
(* list of statuses announced for it, one webhook delivery row each.  No   *)
(* wallet, no totals, no steps inside a transition.                        *)
(*                                                                         *)
(* Every status but "pending" and "expired" is announced in the step that  *)
(* takes it, once; "confirmed" and "rejected" are the end.  Expiry is      *)
(* silent, and it is not final: a wallet event that was being handled when *)
(* the invoice expired still takes effect.                                 *)
(***************************************************************************)
EXTENDS Integers, Sequences

CONSTANT Invoices

VARIABLES status, announced

Announceable == {"seen", "underpaid", "confirmed", "rejected"}
Final == {"confirmed", "rejected"}

\* The status the merchant believes the invoice has.
Believed(i) == IF announced[i] = <<>> THEN "pending"
                                      ELSE announced[i][Len(announced[i])]

Init ==
    /\ status = [i \in Invoices |-> "pending"]
    /\ announced = [i \in Invoices |-> <<>>]

\* A wallet event moves the invoice on, and the merchant will be told.
Announce(i, s) ==
    /\ Believed(i) \notin Final
    /\ s # Believed(i)
    /\ status' = [status EXCEPT ![i] = s]
    /\ announced' = [announced EXCEPT ![i] = Append(@, s)]

\* Mutant: a sweep that takes every invoice past its date.
Expire_Any(lapsed) ==
    /\ status' = [i \in Invoices |-> IF i \in lapsed THEN "expired"
                                                     ELSE status[i]]
    /\ UNCHANGED announced

\* Invoices lapse; those that are announced final never do.
Expire(lapsed) ==
    /\ \A i \in lapsed : Believed(i) \notin Final
    /\ status' = [i \in Invoices |-> IF i \in lapsed THEN "expired"
                                                     ELSE status[i]]
    /\ UNCHANGED announced

\* An event that repeats the status an expired invoice had undoes the expiry.
Restore(i) ==
    /\ Believed(i) \in Announceable \ Final
    /\ status' = [status EXCEPT ![i] = Believed(i)]
    /\ UNCHANGED announced

Next ==
    \/ \E i \in Invoices, s \in Announceable : Announce(i, s)
    \/ \E lapsed \in SUBSET Invoices : Expire(lapsed)
    \/ \E i \in Invoices : Restore(i)

Spec == Init /\ [][Next]_<<status, announced>>
=============================================================================
