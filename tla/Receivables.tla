---------------------------- MODULE Receivables ----------------------------
(***************************************************************************)
(* What customer settlement promises: a payment or a credit application is *)
(* carried out whole, once, and against the balances of that moment.  No   *)
(* requests, no snapshots, no locks.                                       *)
(*                                                                         *)
(* A command is a record with the id of the document it creates: a payment *)
(* [doc, kind, ccy, amount, legs, credit] or a credit application          *)
(* [doc, kind, credit, invoice, consumed, applied].                        *)
(***************************************************************************)
EXTENDS Totals

CONSTANTS
  Commands,     \* the commands clients may submit
  Invoiced,     \* invoice |-> its total
  CreditIds,    \* ids a payment's surplus may take
  None

VARIABLES
  owed,         \* invoice |-> its outstanding amount
  credit,       \* credit id |-> its remaining amount, or None before its birth
  done          \* the commands carried out

Allocated(c) == Total([l \in c.legs |-> l.pay])
Surplus(c) == c.amount - Allocated(c)

Legs(c) == IF c.kind = "collect" THEN c.legs
           ELSE {[invoice |-> c.invoice, pay |-> c.consumed, applied |-> c.applied]}

Init ==
  /\ owed = Invoiced
  /\ credit = [k \in CreditIds |-> None]
  /\ done = {}

\* Every leg reduces its invoice by what it applies, or none does.
Reduce(c) ==
  /\ \A d \in done : d.doc # c.doc
  /\ \A l \in Legs(c) : l.applied \in 1..owed[l.invoice]
  /\ owed' = [i \in DOMAIN owed |->
                owed[i] - Total([l \in {x \in Legs(c) : x.invoice = i} |-> l.applied])]
  /\ done' = done \cup {c}

Collect(c) ==
  /\ c.kind = "collect"
  /\ Reduce(c)
  /\ IF Surplus(c) = 0 THEN UNCHANGED credit
     ELSE /\ credit[c.credit] = None
          /\ credit' = [credit EXCEPT ![c.credit] = Surplus(c)]

Apply(c) ==
  /\ c.kind = "apply"
  /\ Reduce(c)
  /\ credit[c.credit] # None
  /\ c.consumed \in 1..credit[c.credit]
  /\ credit' = [credit EXCEPT ![c.credit] = @ - c.consumed]

Next == \E c \in Commands : Collect(c) \/ Apply(c)

Spec == Init /\ [][Next]_<<owed, credit, done>>
=============================================================================
