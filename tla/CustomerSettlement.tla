------------------------- MODULE CustomerSettlement -------------------------
(***************************************************************************)
(* Collecting a customer payment and applying a customer credit.  The      *)
(* service (customer-payment.service.ts, customer-credit-application       *)
(* .service.ts) reads the balances without a lock, binds every amount by   *)
(* the plan of customer-settlement.ts, and hands them to a routine that    *)
(* recomputes each under its locks and refuses on any disagreement.        *)
(*                                                                         *)
(* Requests are HTTP requests: a client may send a command several times,  *)
(* concurrently or after an answer was lost.  The invoices are those of    *)
(* one active customer, all open and sold on account; dates are lawful.    *)
(* Entry lines are signed base amounts, debits positive.                   *)
(***************************************************************************)
EXTENDS SettlementArithmetic, Sequences, Totals

CONSTANTS
  Requests,     \* the requests in flight at once
  MaxSent,      \* how many are sent in all
  Commands,     \* the commands clients may send (Receivables)
  Invoices,     \* 1..n |-> [total, base, ccy, rate], in the order of their ids
  CreditIds,
  Base,         \* the business's base currency
  Rates,        \* the rates the registry may give the foreign currency
  Accounts,     \* the posting accounts the payment method may name
  World0,       \* the registry, customer and method when the requests begin
  MaxChanges,   \* how often the registry, the customer or the method changes
  None

\* A positive rate, an invoice as it is issued and a command as it is sent: a
\* payment names distinct invoices and either a credit id or none.  Payments
\* and applications are rows of two tables with keys of their own.
PositiveRate == (Nat \ {0}) \X (Nat \ {0})
Invoice == [total : Nat \ {0}, base : Nat, ccy : STRING, rate : PositiveRate]
Credit == [original : Int, originalCarrying : Int, remaining : Int, carrying : Int, rate : PositiveRate, ccy : STRING]
IsPayment(c) ==
  /\ c.kind = "collect" /\ c.ccy \in STRING /\ c.amount \in Int
  /\ IsFiniteSet(c.legs)
  /\ \A l \in c.legs : l.invoice \in DOMAIN Invoices /\ l.pay \in Int /\ l.applied \in Int
  /\ \A l, m \in c.legs : l.invoice = m.invoice => l = m
  /\ c.credit \in CreditIds \cup {None}
IsApplication(c) ==
  /\ c.kind = "apply"
  /\ c.credit \in CreditIds /\ c.invoice \in DOMAIN Invoices /\ c.consumed \in Int /\ c.applied \in Int

ASSUME InvoicesAssumption == Invoices \in Seq(Invoice)
ASSUME CommandsAssumption ==
  /\ \A c \in Commands : IsPayment(c) \/ IsApplication(c)
  /\ \A c, d \in Commands : c.doc = d.doc => c.kind = d.kind
ASSUME RatesAssumption == Rates \subseteq PositiveRate
\* A payment method posts to a settlement asset account of its business.
ASSUME AccountsAssumption ==
  /\ Accounts \cap {"receivable", "credit", "fx"} = {}
  /\ World0 \in [rate : Rates, active : BOOLEAN, account : Accounts]
ASSUME IdsAssumption == IsFiniteSet(CreditIds) /\ IsFiniteSet(Requests)
ASSUME NoneAssumption ==
  None \notin Int \cup CreditIds \cup Credit \cup {"accepted", "replayed", "conflict", "refused", "lost"}

VARIABLES
  world,        \* [rate, active, account]: registry, customer and payment method
  changes,      \* number of changes of world
  documents,    \* the commands whose payment or application row is stored
  reducers,     \* payment_allocations and customer_credit_applications
  credits,      \* customer_credits
  journal,      \* the entries posted: [source, lines]
  req,          \* request |-> its progress
  sent          \* number of requests sent

vars == <<world, changes, documents, reducers, credits, journal, req, sent>>

-----------------------------------------------------------------------------
(* Balances *)

Of(i) == {d \in reducers : d.invoice = i}
Paid(i) == Total([d \in Of(i) |-> d.applied])
Owed(i) == Invoices[i].total - Paid(i)

Allocated(c) == Total([l \in c.legs |-> l.pay])
Surplus(c) == c.amount - Allocated(c)
InvoicesOf(c) == IF c.kind = "collect" THEN {l.invoice : l \in c.legs} ELSE {c.invoice}

\* The state a command binds, read in one statement.
Snapshot(c) ==
  [owed   |-> [i \in InvoicesOf(c) |-> Owed(i)],
   world  |-> IF c.kind = "collect" THEN world ELSE None,
   credit |-> IF c.kind = "apply" THEN credits[c.credit] ELSE None]

-----------------------------------------------------------------------------
(* The plan: the amounts a row stores and its entry posts. *)

\* arSide: the receivable released by applying a to an invoice that owes o.
ArSide(i, o, a) ==
  LET inv == Invoices[i]
      x   == inv.total - o
      rel == Release(inv.total, inv.base, x, a)
  IN [before |-> x, released |-> rel, dust |-> rel - ConvertToBase(a, inv.rate)]

\* A mutated form: bounded by the invoice's total.
ArAcceptedUpToTotal(i, o, a) ==
  /\ a \in 1..Invoices[i].total
  /\ ConvertToBase(a, Invoices[i].rate) > 0
  /\ ~Strands(o - a, Invoices[i].rate)

ArAccepted(i, o, a) ==
  /\ a \in 1..o
  /\ ConvertToBase(a, Invoices[i].rate) > 0
  /\ ~Strands(o - a, Invoices[i].rate)

Line(account, part, amount) ==
  IF amount = 0 THEN {} ELSE {[account |-> account, part |-> part, amount |-> amount]}

\* The principal and its dust stay on the receivable; a gain is a credit.
ArLines(side) ==
  Line("receivable", "principal", side.dust - side.released) \cup Line("receivable", "dust", -side.dust)
RealizedLine(realized) == Line("fx", "realized", -realized)

PaymentRate(c, w) == IF c.ccy = Base THEN One ELSE w.rate

Row(c, i, a, side, money) ==
  [doc |-> c.doc, invoice |-> i, applied |-> a, before |-> side.before, released |-> side.released,
   dust |-> side.dust, money |-> money, realized |-> money - side.released,
   credit |-> None, consumed |-> 0, level |-> 0]

AllocationRow(c, l, s) ==
  Row(c, l.invoice, l.applied, ArSide(l.invoice, s.owed[l.invoice], l.applied),
      ConvertToBase(l.pay, PaymentRate(c, s.world)))

\* planCustomerPayment, refusals first.
PaymentAccepted(c, s) ==
  /\ s.world.active
  /\ \A l \in c.legs :
       /\ c.ccy = Invoices[l.invoice].ccy => l.pay = l.applied
       /\ ArAccepted(l.invoice, s.owed[l.invoice], l.applied)
       /\ l.pay > 0 /\ ConvertToBase(l.pay, PaymentRate(c, s.world)) > 0
  /\ Surplus(c) >= 0
  /\ (Surplus(c) = 0) = (c.credit = None)
  /\ Surplus(c) > 0 => ConvertToBase(Surplus(c), PaymentRate(c, s.world)) > 0

PaymentPlan(c, s) ==
  LET rate == PaymentRate(c, s.world)
      rows == {AllocationRow(c, l, s) : l \in c.legs}
      ob   == ConvertToBase(Surplus(c), rate)
  IN [rows    |-> rows,
      credit  |-> IF Surplus(c) = 0 THEN None
                  ELSE [original |-> Surplus(c), originalCarrying |-> ob, remaining |-> Surplus(c),
                        carrying |-> ob, rate |-> rate, ccy |-> c.ccy],
      base    |-> ob + Total([d \in rows |-> d.money]),
      rate    |-> rate,
      account |-> s.world.account]

\* creditSide and planCustomerCreditApplication, refusals first.
ApplicationAccepted(c, s) ==
  /\ s.credit # None
  /\ c.consumed \in 1..s.credit.remaining
  /\ ConvertToBase(c.consumed, s.credit.rate) > 0
  /\ s.credit.ccy = Invoices[c.invoice].ccy => c.consumed = c.applied
  /\ ArAccepted(c.invoice, s.owed[c.invoice], c.applied)
  /\ ~Strands(s.credit.remaining - c.consumed, s.credit.rate)

ApplicationPlan(c, s) ==
  LET k   == s.credit
      rel == CreditRelease(k.original, k.originalCarrying, k.remaining, c.consumed)
      row == Row(c, c.invoice, c.applied, ArSide(c.invoice, s.owed[c.invoice], c.applied), rel)
  IN [rows    |-> {[row EXCEPT !.credit = c.credit, !.consumed = c.consumed, !.level = k.remaining]},
      credit  |-> [k EXCEPT !.remaining = @ - c.consumed,
                            !.carrying = CreditCarrying(k.original, k.originalCarrying, k.remaining - c.consumed)],
      base    |-> rel,
      rate    |-> None,
      account |-> None]

Accepted(c, s) == IF c.kind = "collect" THEN PaymentAccepted(c, s) ELSE ApplicationAccepted(c, s)
Plan(c, s) == IF c.kind = "collect" THEN PaymentPlan(c, s) ELSE ApplicationPlan(c, s)

\* One entry per allocation and one for the surplus; one per application.
Entries(c, p) ==
  LET entry(d, money) == [source |-> <<c.doc, d.invoice>>, lines |-> ArLines(d) \cup money \cup RealizedLine(d.realized)]
      conv(d) == ConvertToBase(d.consumed, p.credit.rate)
      creditLines(d) == Line("credit", "principal", conv(d)) \cup Line("credit", "dust", d.money - conv(d))
  IN IF c.kind = "apply" THEN {entry(d, creditLines(d)) : d \in p.rows}
     ELSE {entry(d, Line(p.account, "money", d.money)) : d \in p.rows}
          \cup (IF p.credit = None THEN {}
                ELSE {[source |-> <<c.doc, 0>>,
                       lines  |-> Line(p.account, "money", p.credit.carrying)
                                  \cup Line("credit", "principal", -p.credit.carrying)]})

-----------------------------------------------------------------------------
(* Requests *)

Idle == [pc |-> "idle", cmd |-> None, seen |-> None, plan |-> None, held |-> {},
         answer |-> None, repeat |-> FALSE]

Init ==
  /\ world = World0
  /\ changes = 0
  /\ documents = {}
  /\ reducers = {}
  /\ credits = [k \in CreditIds |-> None]
  /\ journal = {}
  /\ req = [r \in Requests |-> Idle]
  /\ sent = 0

Stored(doc) == \E d \in documents : d.doc = doc

Progress(r, q) == req' = [req EXCEPT ![r] = q] /\ UNCHANGED sent
Answer(r, a) ==
  Progress(r, [req[r] EXCEPT !.pc = "done", !.answer = a, !.held = {}, !.seen = None, !.plan = None])
Unwritten == UNCHANGED <<documents, reducers, credits, journal>>
Quiet == UNCHANGED <<world, changes>> /\ Unwritten

\* A mutated form: any stored document is a replay.
RepeatAnything(c) == "replayed"

\* The answer to a document that is stored: the intent digests are compared.
Repeat(c) == IF c \in documents THEN "replayed" ELSE "conflict"

\* A payment reads its state first and looks for its intent second; an
\* application looks first and reads second.
Submit(r, c) ==
  /\ req[r].pc \in {"idle", "done"}
  /\ sent < MaxSent /\ sent' = sent + 1
  /\ LET new == [Idle EXCEPT !.cmd = c, !.repeat = c \in documents]
     IN IF c.kind = "collect"
        THEN req' = [req EXCEPT ![r] = [new EXCEPT !.pc = "read", !.seen = Snapshot(c)]]
        ELSE IF Stored(c.doc)
        THEN req' = [req EXCEPT ![r] = [new EXCEPT !.pc = "done", !.answer = Repeat(c)]]
        ELSE req' = [req EXCEPT ![r] = [new EXCEPT !.pc = "looked"]]
  /\ Quiet

FindIntent(r) ==
  /\ req[r].pc = "read"
  /\ IF Stored(req[r].cmd.doc) THEN Answer(r, Repeat(req[r].cmd))
     ELSE Progress(r, [req[r] EXCEPT !.pc = "bind"])
  /\ Quiet

ReadState(r) ==
  /\ req[r].pc = "looked"
  /\ Progress(r, [req[r] EXCEPT !.pc = "bind", !.seen = Snapshot(req[r].cmd)])
  /\ Quiet

\* The refusals, the plan and the minting need nothing but the snapshot.  A
\* payment looks its rate up here, after the snapshot was taken.
Bind(r) ==
  LET c == req[r].cmd IN
  /\ req[r].pc = "bind"
  /\ \E s \in {IF c.kind = "collect" THEN [req[r].seen EXCEPT !.world.rate = world.rate] ELSE req[r].seen} :
       IF Accepted(c, s)
       THEN \E p \in {Plan(c, s)} :
              Progress(r, [req[r] EXCEPT !.pc = "routine", !.seen = None, !.plan = p])
       ELSE Answer(r, "refused")
  /\ Quiet

\* The document's key, the invoices and the credit, in this order of ranks:
\* the invoices in the order of their ids.
Locks(c) ==
  {<<"key", c.doc>>} \cup {<<"invoice", i>> : i \in InvoicesOf(c)}
    \cup (IF c.kind = "apply" THEN {<<"credit", c.credit>>} ELSE {})

Rank(l) ==
  CASE l[1] = "key" -> 0
    [] l[1] = "invoice" -> l[2]
    [] l[1] = "credit" -> Len(Invoices) + 1

Missing(r) == Locks(req[r].cmd) \ req[r].held

\* A mutated form: one payment's invoices are locked last first.
NextLockAsNamed(r) ==
  LET rank(l) == IF l[1] = "invoice" /\ req[r].cmd.doc = "p3" THEN Len(Invoices) + 1 - l[2] ELSE Rank(l)
  IN CHOOSE l \in Missing(r) : \A m \in Missing(r) : rank(l) <= rank(m)

NextLock(r) == CHOOSE l \in Missing(r) : \A m \in Missing(r) : Rank(l) <= Rank(m)

Free(r, l) == \A q \in Requests \ {r} : l \notin req[q].held

\* Under its key the routine looks for the stored intent again.
TakeKey(r) ==
  LET c == req[r].cmd IN
  /\ req[r].pc = "routine" /\ req[r].held = {}
  /\ Free(r, NextLock(r))
  /\ IF Stored(c.doc) THEN Answer(r, Repeat(c))
     ELSE IF c.kind = "collect" /\ c.credit # None /\ credits[c.credit] # None
     THEN Answer(r, "refused")
     ELSE Progress(r, [req[r] EXCEPT !.held = {NextLock(r)}])
  /\ Quiet

TakeRow(r) ==
  /\ req[r].pc = "routine" /\ req[r].held # {} /\ Missing(r) # {}
  /\ Free(r, NextLock(r))
  /\ Progress(r, [req[r] EXCEPT !.held = @ \cup {NextLock(r)}])
  /\ Quiet

\* A mutated form: only the base amount is compared.
AgreesOnBase(c, p, now) == p.base = Plan(c, now).base

\* What was bound is what the routine recomputes from the locked rows.
Agrees(c, p, now) == p = Plan(c, now)

\* The primary key of customer_credits: a racing payment took the credit id.
CreditIdFree(c) == c.kind = "collect" /\ c.credit # None => credits[c.credit] = None

\* The routine's refusals and writes, the entries and COMMIT.
Settle(r) ==
  LET c == req[r].cmd
      p == req[r].plan
  IN /\ req[r].pc = "routine" /\ Missing(r) = {}
     /\ UNCHANGED <<world, changes>>
     /\ IF \E now \in {Snapshot(c)} : Accepted(c, now) /\ Agrees(c, p, now) /\ CreditIdFree(c)
        THEN /\ documents' = documents \cup {c}
             /\ reducers' = reducers \cup p.rows
             /\ credits' = IF c.credit = None THEN credits ELSE [credits EXCEPT ![c.credit] = p.credit]
             /\ journal' = journal \cup Entries(c, p)
             /\ Answer(r, "accepted")
        ELSE Unwritten /\ Answer(r, "refused")

\* The transaction dies: the process, the connection, a refused entry.
Abort(r) ==
  /\ req[r].pc = "routine"
  /\ Answer(r, "lost")
  /\ Quiet

\* The registry, the customer and the method change while requests are served.
Change ==
  /\ changes < MaxChanges
  /\ changes' = changes + 1
  /\ world' \in {[world EXCEPT !.rate = x] : x \in Rates} \cup {[world EXCEPT !.active = ~@]}
                \cup {[world EXCEPT !.account = a] : a \in Accounts}
  /\ world' # world
  /\ Unwritten /\ UNCHANGED <<req, sent>>

Step(r) == ReadState(r) \/ FindIntent(r) \/ Bind(r) \/ TakeKey(r) \/ TakeRow(r) \/ Settle(r)

Next ==
  \/ \E r \in Requests, c \in Commands : Submit(r, c)
  \/ \E r \in Requests : Step(r) \/ Abort(r)
  \/ Change

Spec == Init /\ [][Next]_vars

-----------------------------------------------------------------------------
(* Properties *)

\* A payment or an application is carried out whole, once, and never beyond
\* what is owed or what remains, although its amounts were bound from balances
\* read before any lock was taken.
Receivable == INSTANCE Receivables WITH
  Invoiced <- [i \in DOMAIN Invoices |-> Invoices[i].total],
  owed   <- [i \in DOMAIN Invoices |-> Owed(i)],
  credit <- [k \in CreditIds |-> IF credits[k] = None THEN None ELSE credits[k].remaining],
  done   <- documents
ImplementsReceivables == Receivable!Spec

\* What an entry, and what the journal, carries to an account.
Moved(e, account) == Total([l \in {x \in e.lines : x.account = account} |-> l.amount])
Balance(account) == Total([e \in journal |-> Moved(e, account)])
Uses(k) == {d \in reducers : d.credit = k}
Born == {k \in CreditIds : credits[k] # None}

\* The control accounts are the documents': the receivable has released the
\* carrying base of what was settled and not a unit more, whatever the parts
\* it was settled in; the credit liability is the sum of what the credits
\* carry; no credit carries a value without an amount, or an amount without
\* one; and every entry balances whichever way its parts were rounded.
BooksMatchBalances ==
  /\ \A e \in journal : Total([l \in e.lines |-> l.amount]) = 0
  /\ -Balance("receivable") =
        Total([i \in DOMAIN Invoices |-> Released(Invoices[i].total, Invoices[i].base, Paid(i))])
  /\ -Balance("credit") = Total([k \in Born |-> credits[k].carrying])
  /\ \A k \in Born : (credits[k].carrying > 0) = (credits[k].remaining > 0)

\* invoice_settlement_verify and the level key of a credit: the reducers of an
\* invoice chain from zero to its total, those of a credit from its original
\* amount down, so the deferred verifiers have nothing to refuse at COMMIT.
ChainsVerify ==
  /\ \A d \in reducers :
       /\ d.before = Total([e \in {x \in Of(d.invoice) \ {d} : x.before <= d.before} |-> e.applied])
       /\ d.released = Release(Invoices[d.invoice].total, Invoices[d.invoice].base, d.before, d.applied)
  /\ \A k \in Born : \A d \in Uses(k) :
       d.level = credits[k].original
                   - Total([e \in {x \in Uses(k) \ {d} : x.level >= d.level} |-> e.consumed])

\* An accepted document is stored, a replay answers only the very command that
\* is stored, a conflict only another one, and a command sent again after it
\* was carried out is not refused: its amounts are no longer there to be paid.
AnswersAreTrue ==
  \A r \in Requests :
    /\ req[r].answer \in {"accepted", "replayed"} => req[r].cmd \in documents
    /\ req[r].answer = "conflict" => Stored(req[r].cmd.doc) /\ req[r].cmd \notin documents
    /\ req[r].repeat => req[r].answer \notin {"accepted", "conflict", "refused"}
    /\ \A q \in Requests \ {r} : req[r].answer = "accepted" /\ req[q].answer = "accepted"
                                    => req[r].cmd.doc # req[q].cmd.doc

\* No set of requests waits within itself: every routine takes the key of its
\* document, then its invoices in the order of their ids, then its credit.
NoDeadlock ==
  LET waits(r, q) == req[r].pc = "routine" /\ Missing(r) # {} /\ NextLock(r) \in req[q].held
  IN \A R \in (SUBSET Requests) \ {{}} : \E r \in R : \A q \in R \ {r} : ~waits(r, q)
=============================================================================
