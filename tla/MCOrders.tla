------------------------------- MODULE MCOrders -------------------------------
(***************************************************************************)
(* Three requests for two orders.                                          *)
(***************************************************************************)
EXTENDS Orders, TLC

\* Requests and order references are interchangeable.
Symmetry == Permutations(Requests) \cup Permutations(OrderRefs)
=============================================================================
