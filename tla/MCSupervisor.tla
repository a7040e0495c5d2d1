----------------------------- MODULE MCSupervisor -----------------------------
(***************************************************************************)
(* Reports about two invoices in turn, so that a report may come between   *)
(* the calls Reconcile makes about its invoice and about the other one.    *)
(***************************************************************************)
EXTENDS Supervisor

InTurn == [r \in Reports |-> IF r % 2 = 1 THEN "i1" ELSE "i2"]
=============================================================================
