----------------------------- MODULE MCMembership -----------------------------
(* The instances of Membership that TLC checks. *)
EXTENDS Membership, TLC

\* People, invitations and requests are interchangeable.
Symmetry ==
    Permutations(People) \cup Permutations(Invites)
        \cup Permutations(Editors) \cup Permutations(Visitors)
=============================================================================
