------------------------------- MODULE Totals -------------------------------
(***************************************************************************)
(* Sums over finite sets.                                                  *)
(***************************************************************************)
EXTENDS Integers, FiniteSetsExt

\* The sum of the values of a function.
Total(f) == MapThenSumSet(LAMBDA x : f[x], DOMAIN f)
=============================================================================
