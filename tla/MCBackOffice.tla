---------------------------- MODULE MCBackOffice ----------------------------
(* The instance of BackOffice that TLC checks. *)
EXTENDS BackOffice

\* The rates of an ordinary contract, in per cents; rates that make every
\* component of a claim fall between two dong; and rates that are accepted but
\* take every amount below zero.
MCRates == {[vat |-> 8, retention |-> 5, tndn |-> 1], [vat |-> 10, retention |-> 7, tndn |-> 3],
            [vat |-> -5, retention |-> 5, tndn |-> 1]}

\* One warranty is in two windows, one only in the shorter.
MCExpiry == [w \in Warranties |-> IF w = "roof" THEN 3 ELSE 2]

\* Two incidents of one day, one of the day before.
MCDateOf == [i \in Incidents |-> IF i = 1 THEN 1 ELSE 2]
=============================================================================
