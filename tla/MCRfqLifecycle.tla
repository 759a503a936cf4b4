---------------------------- MODULE MCRfqLifecycle ----------------------------
(* The instances of RfqLifecycle that TLC checks. *)
EXTENDS RfqLifecycle, TLC

\* The suppliers of a request are interchangeable.
Symmetry == Permutations(Suppliers)
=============================================================================
