----------------------------- MODULE MCMembership -----------------------------
(***************************************************************************)
(* Two owners and an outsider, two commands at a time, one invitation.     *)
(***************************************************************************)
EXTENDS Membership, TLC

CONSTANTS olga, omar, sam, t1, t2

Symmetry == Permutations({olga, omar}) \cup Permutations({t1, t2})
=============================================================================
