------------------------ MODULE MCPerformanceBilling ------------------------
(* Small instances of PerformanceBilling for TLC.                           *)
EXTENDS PerformanceBilling, TLC

MCProfits == <<10, 10>>

\* Webhook requests are interchangeable, and so are checkout requests.
Symmetry == Permutations(Deliverers) \union Permutations(Customers)
=============================================================================
