--------------------------- MODULE StockValuation ---------------------------
(***************************************************************************)
(* The integer arithmetic that values stock movements: the TypeScript      *)
(* package packages/inventory (valuation.ts, rounding.ts) and its SQL twin *)
(* inventory_apply_stock_movements.  Quantities are integers in units of   *)
(* 10^-4, average and unit costs are integers in units of 10^-10, values   *)
(* are integers in minor units; Scale stands for 10^14 (Q4_TIMES_C10).     *)
(*                                                                         *)
(* A stock key (one variant in one warehouse) is a record                  *)
(*   [onHand, valuation, avg, seq]                                         *)
(* and a movement request is a record                                      *)
(*   [kind, key, qty, cost, value, ...]                                    *)
(* where key is <<warehouse, variant>> and cost and value may be None.     *)
(***************************************************************************)
EXTENDS Integers

CONSTANTS
  Scale,        \* quantity scale times cost scale: 10^14 in the code
  QtyLimit,     \* QTY_LIMIT_Q4, exclusive
  ValueLimit,   \* VALUE_LIMIT_MINOR, inclusive
  CostLimit,    \* COST_LIMIT_C10, exclusive
  None          \* SQL NULL

\* In the code QtyLimit = 10^10 * 10^4 = Scale; the arithmetic needs only <=.
ASSUME ValuationAssumption ==
  /\ Scale \in Nat \ {0}
  /\ QtyLimit \in Nat \ {0}
  /\ QtyLimit <= Scale
  /\ ValueLimit \in Nat
  /\ CostLimit \in Nat \ {0}
  /\ None \notin Int

Magnitude(n) == IF n < 0 THEN -n ELSE n

\* Round half to even of n/d by floor division and remainder, d > 0.
HalfEvenNat(n, d) ==
  LET q == n \div d
      r == n % d
  IN IF \/ 2 * r > d
        \/ 2 * r = d /\ q % 2 = 1
     THEN q + 1 ELSE q

\* The sign-symmetric form: the magnitude is rounded, the sign is put back.
RoundHalfEven(n, d) ==
  IF n < 0 THEN -HalfEvenNat(-n, d) ELSE HalfEvenNat(n, d)

-----------------------------------------------------------------------------
Kinds == {"purchase", "supplier_return", "adjustment", "damage",
          "transfer_out", "transfer_in", "stocktake", "inventory_opening",
          "purchase_reversal"}

\* The registry's sign rule.  The value-only kind has no command that writes it.
SignAllowed(kind, qty) ==
  CASE kind \in {"purchase", "transfer_in", "inventory_opening"}               -> qty > 0
    [] kind \in {"supplier_return", "damage", "transfer_out",
                 "purchase_reversal"}                                          -> qty < 0
    [] kind \in {"adjustment", "stocktake"}                                    -> qty # 0
    [] OTHER                                                                   -> FALSE

EmptyLevel == [onHand |-> 0, valuation |-> 0, avg |-> None, seq |-> 0]

Levels == [onHand : Int, valuation : Int, avg : Int \cup {None}, seq : Nat]

-----------------------------------------------------------------------------
(* The four ways a movement gets its value and its cost snapshot.  Each     *)
(* returns [value, snap]; each has the guard under which it is accepted.    *)

OutboundAccepted(lvl, req) ==
  /\ req.cost = None /\ req.value = None
  /\ -req.qty <= lvl.onHand
  /\ lvl.avg # None /\ lvl.avg >= 0

Outbound(lvl, req) ==
  [value |-> IF -req.qty = lvl.onHand
             THEN -lvl.valuation
             ELSE -RoundHalfEven((-req.qty) * lvl.avg, Scale),
   snap  |-> lvl.avg]

InboundAccepted(req) ==
  /\ req.cost # None /\ req.cost >= 0 /\ req.cost < CostLimit
  /\ req.value # None => /\ req.kind \in {"purchase", "inventory_opening"}
                         /\ req.value >= 0

Inbound(req) ==
  [value |-> IF req.value # None THEN req.value
             ELSE RoundHalfEven(req.qty * req.cost, Scale),
   snap  |-> req.cost]

\* A transfer_in takes its transfer_out's value and cost, negated and kept.
TransferInAccepted(req, pair) ==
  /\ req.cost = None /\ req.value = None
  /\ pair # None
  /\ pair.qty = -req.qty
  /\ pair.key[2] = req.key[2]        \* the same variant
  /\ pair.key[1] # req.key[1]        \* of another warehouse

\* A purchase_reversal removes exactly what its purchase movement added.
ReversalAccepted(lvl, req, pair) ==
  /\ req.cost = None /\ req.value = None
  /\ -req.qty <= lvl.onHand
  /\ pair # None
  /\ pair.qty = -req.qty
  /\ pair.key = req.key
  /\ lvl.onHand + req.qty = 0 => lvl.valuation - pair.value = 0
  /\ lvl.onHand + req.qty > 0 => lvl.valuation - pair.value >= 0

Paired(pair) == [value |-> -pair.value, snap |-> pair.snap]

\* pair is the stored movement the request refers to, or None.
ValuationAccepted(lvl, req, pair) ==
  CASE req.kind = "transfer_in"       -> TransferInAccepted(req, pair)
    [] req.kind = "purchase_reversal" -> ReversalAccepted(lvl, req, pair)
    [] OTHER -> IF req.qty < 0 THEN OutboundAccepted(lvl, req)
                               ELSE InboundAccepted(req)

Valued(lvl, req, pair) ==
  IF req.kind \in {"transfer_in", "purchase_reversal"} THEN Paired(pair)
  ELSE IF req.qty < 0 THEN Outbound(lvl, req) ELSE Inbound(req)

-----------------------------------------------------------------------------
\* A mutated form: only the first movement sets the average.
AverageKept(valuation, onHand, carried) ==
  IF carried # None THEN carried ELSE RoundHalfEven(valuation * Scale, onHand)

\* The average follows the valuation; an emptied key carries the last one.
AverageUnitCost(valuation, onHand, carried) ==
  IF onHand # 0 THEN RoundHalfEven(valuation * Scale, onHand) ELSE carried

\* The key after a movement of qty and value.
ApplyMovement(lvl, qty, value) ==
  LET onHand    == lvl.onHand + qty
      valuation == lvl.valuation + value
  IN [onHand    |-> onHand,
      valuation |-> valuation,
      avg       |-> AverageUnitCost(valuation, onHand, lvl.avg),
      seq       |-> lvl.seq + 1]

InRange(lvl, value) ==
  /\ Magnitude(value) <= ValueLimit
  /\ Magnitude(lvl.valuation) <= ValueLimit
  /\ Magnitude(lvl.onHand) < QtyLimit
  /\ lvl.avg # None => Magnitude(lvl.avg) < CostLimit

\* The whole admission test of one request against a key.
Admissible(lvl, req, pair) ==
  /\ Magnitude(req.qty) < QtyLimit
  /\ SignAllowed(req.kind, req.qty)
  /\ ValuationAccepted(lvl, req, pair)
  /\ LET v == Valued(lvl, req, pair).value
     IN InRange(ApplyMovement(lvl, req.qty, v), v)

-----------------------------------------------------------------------------
(* What a lawful key looks like.                                            *)

\* The average is the exact half-even quotient of valuation by quantity.
AvgFresh(lvl) ==
  lvl.onHand # 0 => lvl.avg = RoundHalfEven(lvl.valuation * Scale, lvl.onHand)

LawfulLevel(lvl) ==
  /\ lvl.onHand >= 0 /\ lvl.onHand < QtyLimit
  /\ lvl.valuation >= 0
  /\ lvl.onHand = 0 => lvl.valuation = 0
  /\ lvl.avg # None => lvl.avg >= 0
  /\ AvgFresh(lvl)
=============================================================================
