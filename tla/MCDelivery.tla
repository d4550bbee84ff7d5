----------------------------- MODULE MCDelivery -----------------------------
(***************************************************************************)
(* Two deliveries of one invitation (the second by a resend) and two       *)
(* overlapping drains.                                                     *)
(***************************************************************************)
EXTENDS CredentialDelivery

CONSTANTS d1, d2, inv, w1, w2

Resent == [d \in {d1, d2} |-> inv]
=============================================================================
