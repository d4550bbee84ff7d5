----------------------------- MODULE MCTillSales -----------------------------
EXTENDS TillSales

Base == [kind |-> "sell", till |-> "t1", user |-> "amal", at |-> "front", line |-> "l1",
         item |-> "paint", qty |-> 1, disc |-> 0, sale |-> "x", mode |-> "cash"]

Open(t, u, a)       == [Base EXCEPT !.kind = "open", !.till = t, !.user = u, !.at = a]
Close(t, u)         == [Base EXCEPT !.kind = "close", !.till = t, !.user = u]
Add(l, i, q)        == [Base EXCEPT !.kind = "add", !.line = l, !.item = i, !.qty = q]
Quantity(l, q)      == [Base EXCEPT !.kind = "quantity", !.line = l, !.qty = q]
Discount(l, d)      == [Base EXCEPT !.kind = "discount", !.line = l, !.disc = d]
Remove(l)           == [Base EXCEPT !.kind = "remove", !.line = l]
Checkout(x, m)      == [Base EXCEPT !.kind = "checkout", !.sale = x, !.mode = m]
Sell(x, i, q)       == [Base EXCEPT !.kind = "sell", !.sale = x, !.item = i, !.qty = q]

\* One till and its basket: two scans of one item, revisions, a removal, two
\* checkouts under different ids and a repetition of one, and the close.
CartCommands ==
  {Open("t1", "amal", "front"), Close("t1", "amal"),
   Add("l1", "paint", 1), Add("l2", "paint", 1), Quantity("l1", 2), Discount("l1", 1), Remove("l1"),
   Checkout("x", "cash"), Checkout("y", "cash"), Checkout("x", "credit")}

\* Two users at two drawers, and sales from a till and from the office over
\* the same stock and numbers.
SaleCommands ==
  {Open("t1", "amal", "front"), Open("t2", "amal", "back"), Open("t3", "badr", "front"), Close("t1", "amal"),
   Add("l1", "paint", 1), Checkout("x", "cash"),
   Sell("x", "paint", 1), Sell("y", "paint", 2), Sell("z", "brush", 1)}

AllCommands == CartCommands \cup SaleCommands

TwoEach == [i \in {"paint", "brush"} |-> 2]
ManyEach == [i \in {"paint", "brush"} |-> 5]
=============================================================================
