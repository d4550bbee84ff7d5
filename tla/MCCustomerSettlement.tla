------------------------ MODULE MCCustomerSettlement ------------------------
(***************************************************************************)
(* Two invoices, one in a foreign currency, payments of both that overlap, *)
(* overpay or pay across currencies, and applications of the credit that a *)
(* surplus leaves.  The numbers meet the ties: half of invoice 2 is worth  *)
(* 1.5 base units, so its two halves release 2 and 1; a credit of 4 at 3/5 *)
(* carries 2, and what is left of it after 3 rounds to 0 and is held at 1. *)
(***************************************************************************)
EXTENDS CustomerSettlement

CONSTANTS r1, r2

MCInvoices == << [total |-> 4, base |-> 4, ccy |-> "base", rate |-> One],
                 [total |-> 6, base |-> 3, ccy |-> "foreign", rate |-> <<1, 2>>] >>

Leg(i, p, a) == [invoice |-> i, pay |-> p, applied |-> a]
Payment(doc, ccy, amount, legs, credit) ==
  [doc |-> doc, kind |-> "collect", ccy |-> ccy, amount |-> amount, legs |-> legs, credit |-> credit]
Application(doc, credit, i, consumed, applied) ==
  [doc |-> doc, kind |-> "apply", credit |-> credit, invoice |-> i, consumed |-> consumed, applied |-> applied]

MCCommands ==
  { Payment("p1", "base", 3, {Leg(1, 3, 3)}, None),
    Payment("p1", "base", 3, {Leg(1, 1, 1), Leg(2, 2, 3)}, None),
    Payment("p2", "foreign", 7, {Leg(2, 3, 3)}, "k"),
    Payment("p3", "base", 5, {Leg(1, 3, 3), Leg(2, 2, 3)}, None),
    Payment("p4", "base", 3, {}, "k"),
    Application("a1", "k", 1, 3, 2),
    Application("a2", "k", 2, 3, 3) }

MCWorld == [rate |-> <<3, 5>>, active |-> TRUE, account |-> "cash"]
MCRates == {<<3, 5>>, <<2, 3>>}
=============================================================================
