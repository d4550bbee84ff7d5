--------------------------- MODULE MCLoginSessions ---------------------------
(***************************************************************************)
(* One browser with two tabs on one cookie: its pages refresh, are left    *)
(* and come back, log out and in again, while a password reset arrives by  *)
(* mail.                                                                   *)
(***************************************************************************)
EXTENDS LoginSessions

CONSTANTS b1, t1, t2
=============================================================================
