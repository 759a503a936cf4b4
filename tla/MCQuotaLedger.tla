---------------------------- MODULE MCQuotaLedger ----------------------------
(* The instance of QuotaLedger that TLC checks. *)
EXTENDS QuotaLedger, TLC

\* Two of the weights of ROUTE_WEIGHTS.
MCWeight == [r \in Routes |-> IF r = "scan" THEN 5 ELSE 2]

\* Users and workers are interchangeable.
Symmetry == Permutations(Users) \cup Permutations(Workers)
=============================================================================
