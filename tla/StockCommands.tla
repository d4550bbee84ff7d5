---------------------------- MODULE StockCommands ----------------------------
(***************************************************************************)
(* The stock commands of one business and the movement requests each hands *)
(* to the stock primitive (migrations 0062, 0064, 0066).                   *)
(*                                                                         *)
(* Ids are naturals because the code orders UUIDs; a variant stands for    *)
(* itself and for the product whose base variant it is.                    *)
(***************************************************************************)
EXTENDS StockValuation, FiniteSets, Sequences

CONSTANTS
  Warehouses,    \* warehouse ids
  Variants       \* variant ids

ASSUME IdAssumption ==
  /\ Warehouses \subseteq Nat /\ IsFiniteSet(Warehouses)
  /\ Variants \subseteq Nat /\ IsFiniteSet(Variants)

Operations == {"transfer", "adjustment", "damage", "receive", "reverse"}

Lines == [variant : Variants, qty : Int, cost : Int \cup {None}, value : Int \cup {None}]

Keys == Warehouses \X Variants

\* Stock rows are locked and sorted by (warehouse_id, variant_id).
Before(j, k) == j[1] < k[1] \/ (j[1] = k[1] /\ j[2] < k[2])

-----------------------------------------------------------------------------
(* Commands.  A command is [op, doc, of, wh, to, lines]: op is "transfer",   *)
(* "adjustment", "damage", "receive" or "reverse"; doc identifies the       *)
(* document; of is the purchase a reversal reverses; to is a transfer's     *)
(* destination; a line is [variant, qty, cost, value].                      *)

\* What payload validation lets through.
WellFormed(c) ==
  /\ c.op \in Operations
  /\ c.wh \in Warehouses
  /\ c.op = "transfer" => c.to \in Warehouses \ {c.wh}
  /\ c.lines \in Seq(Lines) /\ c.lines # <<>>

Request(c, i, kind, wh, qty, cost, value) ==
  [doc |-> c.doc, line |-> i, kind |-> kind, key |-> <<wh, c.lines[i].variant>>,
   qty |-> qty, cost |-> cost, value |-> value]

\* A transfer line is two requests: its transfer_out, then its transfer_in.
LineOf(c, j) == IF c.op = "transfer" THEN (j + 1) \div 2 ELSE j

RequestAt(c, j) ==
  LET i == LineOf(c, j)
      l == c.lines[i]
  IN CASE c.op = "transfer" /\ j % 2 = 1 -> Request(c, i, "transfer_out", c.wh, -l.qty, None, None)
       [] c.op = "transfer" /\ j % 2 # 1 -> Request(c, i, "transfer_in", c.to, l.qty, None, None)
       [] c.op = "adjustment" -> Request(c, i, "adjustment", c.wh, l.qty, l.cost, None)
       [] c.op = "damage"     -> Request(c, i, "damage", c.wh, -l.qty, None, None)
       [] c.op = "receive"    -> Request(c, i, "purchase", c.wh, l.qty, l.cost, l.value)
       [] c.op = "reverse"    -> Request(c, i, "purchase_reversal", c.wh, -l.qty, None, None)

\* The movement requests a command hands to the stock primitive, in order.
Requests(c) ==
  [j \in 1..(IF c.op = "transfer" THEN 2 * Len(c.lines) ELSE Len(c.lines)) |-> RequestAt(c, j)]

KeysOf(c) == {Requests(c)[i].key : i \in DOMAIN Requests(c)}
TargetsOf(c) == UNION {{<<"warehouse", k[1]>>, <<"variant", k[2]>>} : k \in KeysOf(c)}
ProductsOf(c) == {<<"product", k[2]>> : k \in KeysOf(c)}

\* The document whose advisory lock the command takes first, if any.
LockedDoc(c) == CASE c.op = "transfer" -> None
                  [] c.op = "reverse"  -> c.of
                  [] OTHER             -> c.doc

\* A mutated form: the pair is looked up by line and kind only.
PairOfAnyDocument(c, req, moves) ==
  LET sources == {m \in moves :
                    /\ m.line = req.line
                    /\ \/ req.kind = "transfer_in" /\ m.kind = "transfer_out" /\ m.qty = -req.qty
                       \/ req.kind = "purchase_reversal" /\ m.kind = "purchase" /\ m.doc = c.of}
  IN IF sources = {} THEN None ELSE CHOOSE m \in sources : TRUE

\* The stored movement a paired request takes its value from.
Pair(c, req, moves) ==
  LET sources == {m \in moves :
                    /\ m.line = req.line
                    /\ \/ req.kind = "transfer_in" /\ m.kind = "transfer_out" /\ m.doc = req.doc
                       \/ req.kind = "purchase_reversal" /\ m.kind = "purchase" /\ m.doc = c.of}
  IN IF sources = {} THEN None ELSE CHOOSE m \in sources : TRUE

-----------------------------------------------------------------------------
SumOf(q) ==
  LET sum[n \in 0..Len(q)] == IF n = 0 THEN 0 ELSE sum[n - 1] + q[n]
  IN sum[Len(q)]

\* f with the pair d :> v added (d is new).
With(f, d, v) == [x \in DOMAIN f \cup {d} |-> IF x = d THEN v ELSE f[x]]
=============================================================================
