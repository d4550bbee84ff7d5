--------------------------- MODULE MCStockLedger ---------------------------
(***************************************************************************)
(* A small instance of StockLedger for TLC.                                 *)
(* Scale is 4 and QtyLimit is Scale, as in the code both are 10^14, so the *)
(* rounding cases (ties, remainders, averages that do not divide) all      *)
(* occur with quantities below 4.                                          *)
(***************************************************************************)
EXTENDS StockLedger, TLC

L(variant, qty, cost, value) == [variant |-> variant, qty |-> qty, cost |-> cost, value |-> value]

C(op, doc, of, wh, to, lines) ==
  [op |-> op, doc |-> doc, of |-> of, wh |-> wh, to |-> to, lines |-> lines]

\* A receipt of two variants and its reversal, transfers both ways and a damage
\* whose lines name the variants in opposite orders, and the commands of one
\* variant that meet them: a gain at another cost, a transfer.
Stock2   == C("receive", "p1", None, 1, None, <<L(1, 2, 6, 3), L(2, 2, 10, 5)>>)
Undo2    == C("reverse", "r1", "p1", 1, None, <<L(1, 2, None, None), L(2, 2, None, None)>>)
OutBoth  == C("transfer", "t1", None, 1, 2, <<L(1, 1, None, None), L(2, 1, None, None)>>)
BackBoth == C("transfer", "t2", None, 2, 1, <<L(1, 1, None, None), L(2, 1, None, None)>>)
DmgBoth  == C("damage", "a1", None, 1, None, <<L(2, 1, None, None), L(1, 2, None, None)>>)
Gain     == C("adjustment", "a2", None, 1, None, <<L(1, 1, 16, None)>>)
Out12b   == C("transfer", "t3", None, 1, 2, <<L(1, 1, None, None)>>)

Documents == {Stock2, Undo2, OutBoth, BackBoth, DmgBoth, Gain, Out12b}
=============================================================================
