------------------------ MODULE SettlementArithmetic ------------------------
(***************************************************************************)
(* The integer arithmetic of settlements, shared by the customer's side    *)
(* and the supplier's: packages/inventory/src/supplier-settlement.ts       *)
(* (convertToBase, apRelease, creditRemainingCarrying, creditRelease) and  *)
(* its SQL twins.  Amounts are integers in minor units.  A rate is a pair  *)
(* <<n, d>>: the R10 rate with the powers of ten of the two exponents      *)
(* multiplied in, so that x converts to the even rounding of x * n / d.    *)
(***************************************************************************)
EXTENDS Integers

\* Round half to even of n/d, n >= 0 and d > 0.
HalfEven(n, d) ==
  LET q == n \div d
      r == n % d
  IN IF \/ 2 * r > d
        \/ 2 * r = d /\ q % 2 = 1
     THEN q + 1 ELSE q

One == <<1, 1>>    \* the base currency's own rate

ConvertToBase(x, rate) == HalfEven(x * rate[1], rate[2])

\* The base released of a document of totals T and B once x of T is settled.
Released(T, B, x) == HalfEven(B * x, T)

\* A mutated form: every part rounded by itself.
ReleaseAlone(T, B, x, a) == HalfEven(B * a, T)

\* apRelease: what applying a after x releases.  The releases telescope.
Release(T, B, x, a) == Released(T, B, x + a) - Released(T, B, x)

\* g(r): the carrying base a credit of OA and OB keeps while r remains.
CreditCarrying(OA, OB, r) ==
  IF r = 0 THEN 0
  ELSE LET kept == OB - HalfEven(OB * (OA - r), OA)
       IN IF kept < 1 THEN 1 ELSE kept

CreditRelease(OA, OB, r, c) == CreditCarrying(OA, OB, r) - CreditCarrying(OA, OB, r - c)

\* A remainder is lawful when it is zero or worth at least one base unit.
Strands(r, rate) == r > 0 /\ ConvertToBase(r, rate) = 0
=============================================================================
