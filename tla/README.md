# DAFTAR in TLA+

DAFTAR is a multi-tenant business system: point of sale, inventory, purchasing,
receivables and double-entry accounting for small businesses, with a back office
for the platform itself. The API is a NestJS server (`apps/api`) over one
PostgreSQL database. Most of what must be right is not in the server: the
commands that write money or stock are plpgsql routines in
`infrastructure/database/migrations`, run at READ COMMITTED, and their
arithmetic exists twice, in plpgsql and in the TypeScript packages that
propose values to them. This directory holds the TLA+ model of those commands,
the TLC runs that check it and the TLAPS proofs about it.

## 1. Inventory

| Component | State | Operations | What is hard | What makes it correct |
|---|---|---|---|---|
| Stock valuation (`packages/inventory/src/valuation.ts`, `rounding.ts`; `inventory_half_even`, the value part of `inventory_apply_stock_movements`) | none: pure integer arithmetic | value of an outbound, inbound, paired movement; derived average; range checks | half-even rounding of a derived average; taking part of a key at a rounded average; emptying a key | a key never has a negative quantity or value, nor value without quantity |
| Stock ledger (migrations 0059-0062, 0064-0066; `modules/inventory`) | `stock_levels`, `stock_movements`, document headers and lines, bindings | transfer, adjustment, damage, receipt, reversal; archive of a warehouse, variant or product; stocktake, opening, supplier return | concurrent READ COMMITTED transactions, values quoted from an unlocked read, replays, lock order, archiving races | no lost update, gapless numbering, documents whole, books equal stock, no deadlock |
| Sales (0077, 0078; `modules/selling`) | `sales`, `sale_items`, `invoices`, `invoice_sequences` | `sale_commit`, invoice numbering, revenue and cost posting | one lock order over customer, targets, stock rows and number series; commit of sale, stock, entries and number in one transaction | last item sold once; numbers unique and gapless; cost posted is cost moved |
| Till and cart (0079; `modules/pos`) | till sessions, cart lines | open, close, set line, remove line, checkout | one open till per register, a close racing a checkout, retry of a checkout | a cart becomes at most one sale; a closed till takes none |
| Accounting (0041-0057; `packages/accounting`, `modules/accounting`) | entries and lines, periods, accounts, FX rates, reversals | post entry, manual adjustment, reversal, opening balances, period create/close/reopen | a period closing while entries are posted into it; one reversal per entry; balance of every entry | entries balance; a closed period takes no entry; a source is posted once |
| Command assertions (0054, 0044; `packages/*/assertion.ts`) | installed and retired keys, consumed ids | mint, consume, re-verify | an assertion used twice, after expiry or after its key is retired | one assertion authorises one command in one transaction |
| Purchasing and supplier settlement (0063-0068; `modules/purchasing`) | purchases, payments, credits, allocations | draft, receive, return, reverse, pay, allocate, refund | allocations racing each other and a reversal | nothing is allocated beyond what is owed |
| Customer settlement (0076, 0080-0085; `modules/receivables`) | payments, allocations, credits | collect, apply credit, verify | concurrent collections of one invoice | an invoice is never over-collected |
| Login sessions (`modules/auth`) | login sessions, refresh token lineages | login, refresh, reuse revocation, logout, reset | two refreshes of one token, revocation racing a refresh | one live successor per token, a revoked session stays revoked |
| Credential delivery (`modules/delivery`) | `credential_deliveries`, mirrored status on its parent | enqueue, claim, send, finalise | overlapping drains, leases that end under a drain, crash between send and finalise | at-least-once; no payload kept after the end; every delivery ends |
| Outbox relay (`modules/outbox`) | `outbox_events` | emit, claim, deliver, mark, retry, dead-letter | overlapping calls, rollback after the sink accepted | at-least-once; nothing lost |
| Entitlements and plans (`modules/entitlements`, 0021-0040) | plan versions, subscriptions, limits | publish a version, subscribe, check a limit | counting against a limit while others create, or while the plan changes | a limit is not passed by a race |
| Tenancy, members, invitations (`modules/tenancy`) | businesses, branches, memberships and roles, invitations | provision; remove, suspend, reactivate, change roles, add; invite, resend, cancel, accept | two owners leaving at once; an invitation accepted while the user is suspended or added; lock orders | an owner stays; a suspension ends by reactivation only; members and reservations stay within the limit |
| Web BFF (`apps/web`) | session cookie, in-flight refresh | proxied calls with refresh | several calls of a page, and several pages, refreshing one cookie | one refresh in flight per page; a session ends only for a cause |
| Web, admin and Android interfaces, design system, scripts, tests | none of their own | - | - | not modelled: presentation, build guards and test code |

How they interact: a request enters a service in `modules/*`, which reads
unlocked, computes with the TypeScript packages, mints an assertion over the
exact arguments (and, when money moves, a second one over the exact posting)
and opens ONE transaction through `infra/database.ts`. In it the plpgsql
routine consumes the assertion, locks, re-proves what the service read,
writes, and the accounting port posts the entry. Audit rows and outbox events
are inserted in the same transaction. Worker processes relay outbox events and
deliver credentials on a five-second timer.

## 2. Plan

The order follows what a defect would cost: stock and money first, then the
till that moves both, then the edges of the system.

1. *Done.* `StockValuation`, `StockCommands`, `AtomicStock`, `StockLedger`, with
   `StockLedgerProofs`: safety, the refinement and the books of the stock.
2. *Done.* `CredentialDelivery`, `OutboxPublisher` with `OutboxProofs`: the
   asynchronous edges.
3. *Done.* `AccountingLedger` with `AccountingLedgerProofs`.
4. *Done.* `TillSales` with `TillSalesProofs`: tills, cart, checkout, sale.
5. *Done.* `SettlementArithmetic`, `Receivables`, `CustomerSettlement`: payments,
   surpluses and credit applications, and the atomic settlement they implement,
   with `CustomerSettlementProofs`. `Totals` (sums) and `SumTheorems` (their laws)
   serve this one, the stock and the tills.
6. *Done.* `LoginSessions` with `LoginSessionsProofs`: the token lineage and the
   browser that drives it.
7. *Done.* `Membership` with `MembershipProofs`: members, invitations, the limit
   on both.
8. *Next.* `Stocktake` (0062): opening, counting and finalising over moving stock,
   on the requests of `StockCommands`; opening stock and supplier returns with it.
9. `CommandAssertions` (0044, 0054): mint, consume once, re-verify, installation
   and retirement of keys, whose authority the modules above take as given.
10. `SupplierSettlement` (0063-0068) on `SettlementArithmetic`: purchases,
    payments, credits, allocations and refunds.
11. The coverage of a stock deficit (`valuation.ts:185`), largest remainder and
    realised differences as operators against reference definitions.
12. Custom roles, branch scopes and the limits on branches and products, on
    `Membership`.

A module to come brings one run of its own; the deepest property of a part comes
first, and a weaker one of an earlier run gives way when the whole grows past
what can be re-checked in reasonable time. So `TypeCorrect`, `NoUpdateIsLost` and
`SequenceGapless` of the stock ledger are theorems without a run.

Theorems still worth proving: every safety property that a run checks is now the
statement of a theorem. What is left is about the parts the models abstract: the
balance of an entry's lines in the books, and the type invariants of the modules
to come. The laws of `SettlementArithmetic` are proved for every total, base and
part, so `SupplierSettlement` (item 10) can cite them.

## 3. Modules and how they correspond to the code

In all of them a *session* (or request, drain, call) is one API request or one
tick of the worker with its own database connection. The code runs at READ
COMMITTED: a statement sees what is committed when it starts, and a lock waits
for the holder's transaction to end. So each module keeps the committed tables
in its variables, keeps what a transaction has written but not committed in
variables of the session, and makes it visible in one `Commit` step. A lock
that lasts to the end of the transaction is either a set a session holds
(`held`, `keys`, `biz`, `rows`, `locked`) or follows from where the session
stands (`HoldsDoc`, `HoldsTarget`). What the code reads before its transaction
is a step of its own, so anything may happen between the reading and its use.
PostgreSQL breaks a cycle of waiting transactions by aborting one of them: the
actions `AbortVictim` and `Victim` do so, and only then.

### The stock ledger

| Module | Models | Correspondence |
|---|---|---|
| `StockValuation` | `packages/inventory/src/valuation.ts`, `rounding.ts`, and the same arithmetic in `inventory_half_even` and `inventory_apply_stock_movements` (0060, 0065) | `RoundHalfEven`, `AverageUnitCost`, `Outbound`, `Inbound`, `Paired`, `ApplyMovement`, `InRange`; a stock level is the record of `stock_levels`. Numbers are integers, as in the code; quantities have `Scale` units (10^14 in the code) |
| `StockCommands` | the documents: transfer, adjustment, damage, purchase receipt, purchase reversal | `Requests(c)` is the sequence of movements the routine hands to the writer; `TargetsOf`, `ProductsOf`, `KeysOf` are what it locks; `Pair` is the stored movement a transfer_in or a reversal takes its value from |
| `AtomicStock` | the abstract specification | `Post(c)` applies a whole document at once to the levels as they are and posts exactly the value that moved; no sessions, locks or quotes |
| `StockLedger` | the services' quote and `executeMovement`; the routines of 0062, 0064-0066; the archive triggers of 0061 | one action per step between which another transaction may run: `Submit` (unlocked quote), `Begin` (advisory lock on the document), `LockTargets`, `InsertHeader` (waits for an uncommitted header of the same id), `LockRow` (FOR UPDATE in (warehouse, variant) order), `ApplyRequest` (one turn of the writer's loop), `Commit`, `Refuse`, `Crash`, `AnswerFromStore`, `ArchiveTarget`, `ArchiveProduct` |

The value bound into the accounting assertion is the quote, and `PostEntry`
posts it: the code never posts what it measured afterwards, it compares
(`ValuesAsQuoted`) and refuses. `BooksMatchStock` (the sum of the postings is the
valuation of all levels) is therefore about a comparison, not about one sum
written twice.

Abstractions: a variant and its product are one number, told apart as lock
targets; the entry is represented by its inventory amount (its lines are in
`AccountingLedger`); the header of a purchase receipt is an UPDATE under the
advisory lock and is treated like the insert of the other documents; the
quoting service refuses archived targets, so `Submit` does. Left out: the
guards of a reversal on returns and settlements, the value-only movements
(landed costs, coverage of a deficit), stocktake, opening stock, supplier
returns, and the deadlock of two first documents, which needs the business row
and is in `AccountingLedger`.

### The books

`AccountingLedger` models `accounting_post_entry` (0045), the manual reversal
(0046), the posting of an opening balance (0047), the period commands and the
guard on every inserted entry (0049), and the change of base currency
(`tenancy.service.ts`). `biz` holds the modes in which a session has the
business row (FOR KEY SHARE through a foreign key, FOR SHARE, FOR UPDATE) and
`keys` its advisory keys. A session goes header, probe of
`financial_started_at` (no lock), key, business, source, decide, commit; which
of these it has and in what order depends on the kind, as `FirstStep` says.

The unique constraints and the deferred topology trigger are deliberately not
guards: `OnePerSource` and `TopologyHolds` show that the locks alone leave
them nothing to refuse. Left out: drafts, edits and discards of opening
balances, the chart of accounts, dates in the future, account resolution,
fingerprints (two requests are one command exactly when they are equal), and
the lines of an entry.

### Tills, carts and sales

`TillSales` models `pos_till_session_open`, `_close`, `pos_cart_set_line`,
`pos_cart_remove_line` with the trigger `pos_cart_line_guard` (0079),
`sale_commit` (0078), and what the services do around them: the gate of a cart
command (`Begin` with `GateRead`), `ReplayFirst`, `ReadSnapshot` and `Plan` of
a checkout, its removal of every line and its verification. `done` is the set
of lines a transaction has tombstoned, `number` the invoice number it has
taken. A direct sale (`sell`) runs the same `sale_commit`.

`basket` of a stored sale is not a column: it is what the first answer named as
consumed, kept so that properties can speak of it. The partial unique indexes
are left out on purpose, see the theorem `OneTillEach`. The stock rows of a
sale are taken in one step, their order being the subject of `StockLedger`; a
command its gate refuses is not followed; the failure of the sale's posting is
`Fail`. Left out: prices and the comparison with the catalogue, the permission
for discounts, branch scope, customers and due dates, archived targets, currency
conversion. The counted cash is no part of a command: an opening or a close that
is repeated may have counted the same and be answered, or otherwise and be refused.

### Credential delivery and the outbox relay

`CredentialDelivery` models the drain of `delivery-worker.service.ts` and the
enqueueing transactions. A claim is one UPDATE with a lease; the adapter is
called outside any transaction and may fail with or without the message having
left; the outcome is written by id alone. Time is two
actions, the end of a lease and the end of a backoff: that a lease may end
under a drain that is still at work is the code's (up to 25 sequential sends
under a lease of two minutes, a timer that does not wait).

`OutboxPublisher` models `publishOnce` of `publisher.ts`: claim, delivery and
marking are one transaction, with SKIP LOCKED; a rollback forgets marks and
counts, and not what the sink accepted. `refused` is an observer.

### Customer settlement

`SettlementArithmetic` holds the integer arithmetic both sides of settlement share
(`packages/inventory/src/supplier-settlement.ts` and its SQL twins): conversion
at a rate, the base value that settling a part releases, and the base value a
credit carries while some of it remains. The releases telescope, which is what
makes parts settled at rounded amounts add up to the whole.

`CustomerSettlement` models `customer-payment.service.ts`,
`customer-credit-application.service.ts`, the plans of `customer-settlement.ts`
and the routines of 0081 and 0085 that repeat them under locks. A request reads a
`Snapshot` without a lock (a payment before it looks for its intent, an
application after), binds a `Plan` (rows, credit, total, rate, account), and the
routine takes the key of the document, the invoices in the order of their ids and
the credit (`Locks`), computes the plan again from the locked rows and settles
only if it is the one bound (`Agrees`). `Receivables` is the abstract
specification: a command is carried out whole, once, against the balances of
that moment. A request holds a set of locks (`held`) and takes the next one it
lacks by `Rank`: the document, the invoices, the credit. Entry lines are signed base amounts, debits positive.

Left out: rules about dates and payment methods other than which account a
method names, invoices that are not open or not on account, refunds and
reversals, fingerprints (as in the books). A refused entry is a rollback; when
entries are refused is the subject of `AccountingLedger`.

### Login sessions

`LoginSessions` models `refresh`, `logout`, `logoutAll` and `resetPassword` of
`auth.service.ts` with the tables of 0011, the web server's routes for refresh and
logout, and the refresh of a page (`lib/client.ts`). `session`, `current` and `token`
are the tables. A browser has one `cookie` and any number of pages (`Tabs`), each
with the session of its access token; a page has at most one refresh of its own in
flight (`refreshing`, module memory), besides one left by the page that was there
before, and knows nothing of what the other tabs have sent. A job is one request,
in a slot of its page. A refresh locks its token, then the session, rotates, or else revokes
the session in a second transaction (`Rotate`, `Revocation`); a revocation is two
UPDATE statements over the rows each finds when it starts, one row lock at a time
(`LockRow`, `NextStatement`, `Commit`). `cause` is an observer: the sessions
somebody or something has had a reason to end. `client.ts:110-113` promises that a
token is not sent twice by callers "in this page", and no more: two tabs that
refresh at once send the same token, the API takes the second for a reuse and ends
the session. So that a page sends a token which another has sent and may still
trade, or has traded (`SentAlready`), is one of the causes, and `EndsForCause` says
that there is none but those listed with it. One user; registration, the
request of a reset, passwords and rate counters are left out (a rate limit is one
of the faults of `Refused`).

### Members, invitations and their limit

`Membership` models the member commands of `structure.service.ts`, the whole of
`invitations.service.ts`, `provision_accept_invitation` (0038) and the counting
side of `entitlements.service.ts`. A command is a record that goes through the
stages of its `Script`; a stage waits for the locks it `Needs`, checks what
`Passes` says and goes on or rolls back, and the last stage is the write. `now` is
the time of the transaction, so an invitation may run out between the begin of
a transaction and its commit; a stage that passes the quota remembers the limit
(`cap`) and the invitations its count left out because they had run out (`lapsed`),
both observers. `Validity` is in ticks of the clock. Left out: permissions and delegation ceilings,
custom roles, branch scopes, the membership of the tenant, the delivery of
tokens (in `CredentialDelivery`), feature grants and the states of subscriptions.

## 4. Runs

All runs but the three marked *violation* pass. `CHECK_DEADLOCK FALSE` is set
everywhere because the number of submissions is bounded and a system with
nothing left to serve stops; that no one waits for ever is said by the liveness
properties, by `NoDeadlock` and by `AuthorityNeverDeadlocks`.

| Run | Question | Bounds and why they are enough |
|---|---|---|
| `stock_ledger` | Do concurrent, refused, crashed and archiving-raced documents leave lawful stock, books that agree with it, only states some serial history has, and an answer to every command? | 2 sessions (every hazard is one transaction against another), 2 warehouses, 2 variants, 4 submissions from 7 documents: a receipt of two variants, its reversal, transfers both ways and a damage whose lines name the variants in opposite orders, a gain at another cost, a short transfer. `Scale` = `QtyLimit` = 4: in the code both are 10^14, and with 4 every rounding case (tie, remainder, average that does not divide) occurs |
| `books_and_periods` | Do closed books stay closed, whatever create, close, reopen, posting, reversal and opening balance race? | 2 sessions, 5 submissions: create, create, close, close, reopen is the shortest history in which an operation is repeated after a later one undid it; dates 1 to 4 |
| `first_postings` | What of a business without history: its first entry, its base currency, two opening balances? | 2 sessions, 3 submissions, 2 currencies; deadlock victims are aborted and every command ends |
| `till` | Is what is sold what was scanned, once, whole, and not after the close; one till each, gapless numbers, stock sold once? | 2 requests at a time by 2 users at 2 drawers, 4 submissions: open, scan and two racing checkouts, or two sales for the last units; 2 of each item, so that a request of 2 and one of 1 cannot both be served |
| `till_lost_discount` | *violation*: `RevisionKeepsDiscount` | 5 submissions, one till |
| `credential_delivery` | What does a row's state say of the message and its parent; does every delivery end? | 2 deliveries of one parent, 2 drains, 2 attempts, 1 crash, batches up to 2 |
| `delivery_terminal_reopened` | *violation*: `TerminalIsFinal` | no crash needed |
| `outbox` | Is every event delivered before it says so, and never lost? | 2 events, 2 calls, 2 attempts, 1 rollback |
| `customer_settlement` | Is every amount that was bound from an unlocked read true when it is written, and do the control accounts agree with the documents? | 2 requests at a time, 4 sent from 7 commands over 2 invoices, one in a foreign currency, 1 change of registry, customer or method. Half of the foreign invoice is worth 1.5 base units and a credit of 4 at 3/5 carries 2, so ties, dust and the floor of a remainder all occur |
| `login_sessions` | Do tokens and sessions agree, is what a caller is told true, what ends a session, and does a page settle? | 1 browser with 2 tabs (six slots and the reset), 2 sessions, 2 tokens (while there are fewer a page is opened or asks by itself; a login or a refresh already under way adds to them), 1 fault, 1 logout or reset. Two tabs send one token, a late answer meets a newer login, and a left page meets its successor; two browsers are covered by the proofs |
| `membership` | Does an owner stay, do the authority commands never wait in a cycle, is the limit kept, does a suspension hold? | 2 owners and an outsider, 2 commands at a time, 4 commands or plan changes, limits 2 and 4, 1 invitation, valid for two of the clock's two ticks: a transaction may begin, see another commit, and outlive an invitation that was valid when it began. Owners and slots are symmetric |
| `membership_add_active` | *violation*: `ActiveIsConflict` | 3 commands, 2 staff roles |

Every property of a passing run has a mutated form of the code
(`PROJECT.json`, "mutants") under which the same run fails: a lock not taken, a
check moved before the lock, an average kept, the quote not compared, rows
locked in the order of the payload, a lease not looked at. The mutated operators
stand beside the definitions they replace, each under a comment "A mutated
form".

### Fairness

- `StockLedger`, `AccountingLedger`, `TillSales`: weak fairness of each
  session's own steps. The server runs every request to its end and PostgreSQL
  queues lock waiters, so a step that stays possible is taken. Submissions,
  archives, crashes and lost connections are not fair. In the last two the
  abort of a deadlock victim is among a session's steps: PostgreSQL detects
  deadlocks by itself.
- `CredentialDelivery`, `OutboxPublisher`: weak fairness of a drain's own work
  and of time (a lease ends, a backoff ends), and strong fairness of claiming
  each row. The last is what a five-second timer gives together with the order
  of the claim, earliest due first: a row that keeps becoming due is taken
  before those that became due after it. Crashes are bounded; with unboundedly
  many no retry scheme ends.
- `LoginSessions`: weak fairness of serving each request, of the browser taking
  the answer it gets, and of `Ask` while a page waits to try again, which is the
  end of its pause. And strong fairness of two steps of a page's own refreshes: of the
  deadlocks they keep meeting before they trade they are some time the victim,
  because PostgreSQL aborts who has waited longest for its check and not always the
  other; and a revocation that waits for a token gets it when it is released, because
  a row's lock goes to those who wait for it before it goes to who comes later.
  Without the second TLC shows two tabs of an expired session for ever aborting each
  other's revocation, each retry taking the token before the other gets it. Nobody
  must open a page, log in or log out; faults are bounded.
- `CustomerSettlement` and `Membership` claim no liveness.

## 5. What the disagreements are

Three have a run.

- `till_lost_discount`. A change of quantity restates the discount its gate had
  read in an earlier transaction and without a lock; a discount granted in
  between is cleared without a word.
- `delivery_terminal_reopened`. A drain that outlives its lease writes its
  outcome by id alone and turns a row that another drain has ended (sent or
  dead) into a failed one; its payload being wiped, it can only fail again.
- `membership_add_active`. A direct add reads the membership, and then waits for
  the invitation's row; when an acceptance of it commits meanwhile, the add gives
  a second role to a member who is active by then, where
  `structure.service.ts:389` says that an active member is a conflict.

Two are deadlocks that a document excludes. They occur in passing runs, where a
victim is aborted and its command ends with an error.

- A document's header holds its business FOR KEY SHARE through the foreign key
  (0061:560), and the first posting of that business, later in the same
  transaction, wants it FOR UPDATE (0045:535). Two first documents deadlock;
  0061:96 says of its global order that no cycle follows
  (`first_postings`, `AbortVictim`).
- `pos_cart_set_line` locks the session and then the line (0079:815);
  `pos_cart_remove_line` updates the line, and its trigger locks the session
  after (0079:1100, 1122). A removal and a revision or checkout of one line can
  deadlock, where `pos-checkout.service.ts:308` says that one order makes this
  impossible (`till`, `AbortVictim`).

Smaller observations without a run:

- The first answer to a checkout names every line of its snapshot as consumed, a
  repeated one only the lines that stand for merged items
  (`pos-checkout.service.ts:323`, 534-536). A repeated checkout that passes the
  proof of replay while its first request is still uncommitted is refused when
  the first commits; the next repetition is answered. An application of a credit
  looks for its intent before it reads its state, and meets the same; a payment
  reads first and replays.
- An invitation may be sent to a suspended member, and a reactivation does not
  cancel it: the member then counts and the reservation counts too. An
  acceptance takes the invitation, the quota and the membership row, a
  reactivation or an add the membership row before the others, so these can
  deadlock, as two sweeps can; the order of `structure.service.ts:769` holds among
  the commands that take the authority lock, which is `AuthorityNeverDeadlocks`.
  A plan change that races a check finds the old limit applied.
- A resend sweeps, decides and extends by the time its transaction began, so an
  invitation that runs out while the resend waits for its row is extended, where
  `invitations.service.ts:195` says that an expired one never is. It takes no quota
  lock: with `Validity` at 2 (at 1 the case cannot arise) TLC finds it taking its
  place again even from a command that had counted without it, and `LimitHolds` says
  exactly that much less.
- A login that commits between the two statements of a logout everywhere or a
  reset keeps an active session whose token is revoked. Two tabs that refresh at
  once, or a page left with a refresh in flight and the next one, present the same
  token, which ends the session of all tabs; a late answer overwrites the cookie of
  a newer login. `cause` counts these as causes.

## 6. What is proved

Everything in this section is checked by TLAPS for every value of the constants
that satisfies the named assumptions: any number of sessions, commands, keys,
periods and tills. `MaxSubmits`, `MaxSent` and the other bounds of the runs are
any number, so they bound the runs and not the theorems. Every safety property
and action property of a passing run is stated by a theorem, and so are the two
refinements.

**Sums** (`SumTheorems`). `Total` is a fold over a set, one chosen element at a
time. That the function this defines by recursion on the subsets exists and is
unique is proved without an induction theorem: among the subsets for which it
would fail there is one with no smaller such subset (`LeastSubset`), and it does
not fail for that one. From it come the sum of a union, of a difference, of a
changed value, of a renamed index set, and the sum by fibres (`TotalOfFibres`),
which is what every statement about a ledger and its documents rests on.

**Valuation** (`StockLedgerProofs`). Half-even rounding is within half a unit;
so the value taken out of a level at its rounded average never exceeds the
level's value when the quantity is below `Scale` (`PartialWithinValuation`),
which `QtyLimit <= Scale` in `ValuationAssumption` gives, and does in the code.
From it every admissible movement leads from a lawful level to a lawful level.

**Stock ledger** (`StockLedgerProofs`; `TypeCorrect`, `LevelsStayLawful`,
`NoUpdateIsLost`, `SequenceGapless`). Two invariants. `LawfulState`: what is
committed is well typed and lawful, and so is every session's private view,
because a private view can be committed. `Serialised`: no two sessions hold one
row, a row held and not yet written is as committed, and the movements a
session has written continue the committed numbering of each key up to its
private `seq`. The second is what makes `Published` keep numbering and levels
when one of several sessions commits; neither property is inductive without it.

**Stock refinement and books of the stock** (`StockLedgerProofs`;
`ConcurrentIsAtomic`, `TransfersLoseNothing`, `BooksFollowStock`). The invariant
`Replays` says that what a session has written so far is a `Trace`: the movements
of the first requests of its command, each valued on the levels its predecessors
leave, starting from the committed levels as they are now. It stands because the
rows a session has locked do not change under it, and a trace reads no other row.
At a commit the trace is complete, and `TraceIsRun` identifies it with the
recursive `Run` of the abstract step: a trace determines its levels one after the
other, and a least place at which it differs from the run cannot exist. Transfers
conserve because the movement in is valued by the stored movement out. Along a
trace the valuation of the whole stock (`Worth`) moves by the sum of the
movements' values, partial sum by partial sum (`PartialSums`), and that sum is the
quote which was compared and posted.

**Books** (`AccountingLedgerProofs`; `BooksTyped`, `CloseIsFinal`,
`PeriodsKeepTheirShape`, `SourcesPostOnce`, `OneCurrencyForEver`). The invariant
`BooksInv` says that the locks exclude as PostgreSQL's modes do, that a session
past a lock's step holds it, and that a decision taken under the locks still
stands when it commits (`DecisionsStand`): the heart of it is that a period
command holds the business FOR UPDATE against the postings' FOR SHARE, and that
a first posting which found no history holds it FOR UPDATE as well. The
topology of the periods, one entry per source and one currency follow, with no
constraint of the tables assumed.

**Repetitions in the books** (`RepeatsRecognised`, `PeriodsMoveOnce`). A request
sent again for something that took effect is never refused, nor carried out a
second time. `TookEffect` is what remains true for ever of a command that was
carried out: its entry or operation is there, its opening balance is posted or
superseded, and what is superseded stays so. Entries and operations only grow, so
whatever commits between the two requests leaves the second one recognised.

**Tills** (`TillSalesProofs`; `TillsServed`, `OneTillEach`, `BasketOrdered`,
`InvoicesGapless`, `ShiftIsFinal`). The invariant `Served` says of each request
what its place in the path implies (`PathOK`): which locks it holds (`OpenOK`,
`TillOK`, `LineOK`, `RemoveOK`, `SaleOK`) and what it knows of the rows they
protect. `CommitTouches` says what a commit may change, `HeldTillStands` that a
till locked by another is not among it, and `CommitBystander` concludes that no
other request's knowledge is disturbed. The two partial unique indexes and the
unique number of an invoice are not used.

**Sales** (`SalesKept`, `SoldAsScanned`, `WholeBasketSold`, `TillsToldTrue`,
`StockMovesOnce`). `Sells` adds what a checkout has read and tombstoned: the rows it
merged are the live lines of its till at the moment it verifies (`ReadsLines`,
`ConsumesWhole`), and who was told that a command is done finds it done
(`Told`). A checkout merges lines by item, so `SoldIsScanned` compares sums over
the lines of one item; they agree because merging is a partition of the lines.
`Stocked` says that a sale about to commit has each of its items in one line,
with the stock of it locked and sufficient; so the stock never goes below zero
and what has left it is the sum of what was sold.

**Customer settlement** (`CustomerSettlementProofs`; `NeverDeadlocks`,
`AnswersTold`, `SettlesAtOnce`, `ChainsHold`, `BooksBalance`, `ReleasesTelescope`,
`CreditsRunOut`, `NothingLeftOver`). `StepsAre` reduces
every action to one of six kinds of step of one request; most invariants look at
the kinds alone. `LockInv`: a request holds locks of its own document, no two hold
the same, and what it holds ranks below what it lacks. In a cycle of waiting
requests the one whose next lock ranks highest would wait for a lock that its holder
ranks above its own next, so there is none. `SettlesAtOnce` is the refinement of
`Receivables`: what a request settles is the plan of the rows as its locks hold
them (`Agrees`), so the abstract step is taken against the same balances; that
the plan was bound from an unlocked read no longer matters.
`ChainsHold`: the amounts before and after each allocation of an invoice, and each
use of a credit, are those of the rows earlier in the chain. `BooksBalance` is the
deepest: `Control` says that every entry balances, that the entries have moved the
receivable account by what the rows release and the credit account by what the
credits carry, and that the releases of an invoice telescope to what is due for
all of them together; `TotalOfFibres` adds this up over the invoices.
The laws that `supplier-settlement.ts:28-35` states of its functions follow from
three facts about half-even rounding: it is within half a divisor, it is exact on
multiples, and it is monotone (`HalfEvenNear`, `HalfEvenExact`, `HalfEvenMonotone`).
So a release is never negative and the last one takes exactly what is left
(`ReleasesTelescope`), and a credit, although held at one unit, never gives up more
than it carries and gives up all of it exactly when it is used up
(`CreditsRunOut`). Those laws have conditions: `Within` shows that every
row meets them, because the amounts recomputed under the locks are within what is
owed and what remains. So no stored row takes value back, and what is settled in full
leaves nothing on the control accounts (`NothingLeftOver`, a theorem without a run).

**Login sessions** (`LoginSessionsProofs`; `SessionsHold`, `OneLiveToken`,
`ToldTheTruth`, `NoneEndsUncaused`). `Standing` says of each request what it knows of the rows
it has locked and that it is still so, through both statements of a revocation.
`EndsForCause` (here `Quiet`) is not inductive even beside it: a reuse is detected
in a token that comes back, and that it cannot come back without a cause is a
statement about the browser and all its pages. `Kept` makes it: the cookie of a
session without a cause is the one token that may still be traded, or one refresh
of the browser has traded it and brings its successor (`CookieKept`); that refresh
alone of all the browser's was sent the cookie (`RefreshesKept`). `PageKept` ties each
page's access token to the cookie's session, and `Apart` says that no other browser
has a token of it. An answer that displaces the cookie of another session, or a
cookie that is dropped, gives a cause to everything the browser's pages still had of
it (`Displaced`).

**Members** (`MembershipProofs`; `LocksKeepWhatWasSeen`, `AnOwnerStays`,
`NoCycleUnderAuthority`, `OnlyReactivationReturns`). The invariant `IInv` says which
advisory locks a command holds at its stage (`Guarded`), that no two hold one
(`LocksExclude`), what it saw of its member and of the remaining owners under
them (`Seen`), and that who is not a member owns nothing (`AbsentOwnNothing`). An
owner's membership ends only in a step of a command that holds the authority lock
and has counted another owner; `OtherOwner` names him, and no step in between
could remove him. `OwnerStays` alone is not inductive: it says nothing of what two
commands in flight have counted.

**The limit** (`CountsStayTrue`, `LimitIsKept`). What a command counted is made
into a statement about the present: the active members and the pending invitations,
without those that had run out and those it gives up itself (`Claims`), leave room
for one more. Of a command that has not yet written this stands, because only
holders of the quota lock add to either and only one holds it; the passing of time
takes nothing away, because `Claims` speaks of pending invitations and not of valid
ones. The write adds one place at most (`TakesOne`). A resend is the one step that
makes an invitation valid outside the lock.

**The relay** (`OutboxProofs`; `RowsAreBacked`, `AtLeastOnce`,
`NotGivenUpEarly`). A row is `Backed` when it claims no delivery and no refusal
that the sink has not seen. The invariant says so of every stored row and of every
call's own view of the rows it has locked, because a view is what a commit stores;
and what the sink has seen only grows (`BackedGrows`), so that neither another
call's deliveries nor a rollback takes the backing away. The property of the stored
rows alone is not inductive: a commit needs it of the view.

**Credential delivery** (`OutboxProofs`; `DeliveriesAreBacked`,
`SentOnlyWhatArrived`, `ParentsShowADelivery`). A drain writes its outcome whatever
has happened to the row, so the invariant is about what the drains carry: a success
not yet written has arrived, and an outcome is of a row the drain claimed
(`CarriedArrived`). A parent shows the delivery finalised last, until that one is
taken up again (`MirrorsOne`); rows that have left "processing" did so in the
transaction that wrote the parent.

Assumptions. Of the stock, `ValuationAssumption` and `IdAssumption` (limits are
naturals, `QtyLimit` at most `Scale`, `None` no integer; warehouses and variants are
naturals, ordered as their ids are, and finitely many) and `LedgerAssumption`
(commands are well formed; a reversal is identified by the purchase it reverses).
`CommandAssumption` of the books and of the tills (kinds, dates and quantities
in range, one source for one kind of document). Of the settlement, that invoices,
commands and rates are well formed and the rates positive, a document is of one
kind, a payment method does not post to a control account (`AccountsAssumption`),
and requests and credits are finitely many. Of the login sessions and the
settlement `NoneAssumption`: `None` is none of the values it stands beside. Of the
members, `RolesAssumption`, `OwnersAssumption` and `UsersAssumption` (the owner's
role is not one of the staff's, there is an owner, users are finitely many),
`LimitsAssumption` and `ValidityAssumption` (limits are integers, an invitation is
valid for a while). Of the relay, `OutboxAssumption` (at least one attempt is
allowed), and of credential delivery that every delivery has a parent, the first
part of `DeliveryAssumption`.

### Only model-checked

- Liveness: `CommandsEnd` (stock, books, tills), `EveryDeliverySettles`,
  `EveryEventEnds`, `PagesSettle`. Out of reach of the prover, as is ENABLED.
- The mutated forms and the violations, which are runs by nature.
- What a recursive operator computes for every input: `Run` of `AtomicStock` is
  written as a function and is reached through its traces; no theorem states what
  the folds of the community modules compute other than sums.

## 7. What is not modelled

Planned (section 2), with their hazards in `PROJECT.json`: stocktake, opening
stock and supplier returns, command assertions, supplier settlement, the coverage
of a stock deficit. Until the assertions are modelled, every module takes the
authority of a command for granted: it says what an authorised command does.

Not planned: the interfaces (web, admin, Android) beyond the refresh, and the
design system, which keep no state a command depends on; reports and
reconciliation, which read (what reconciliation looks for is `BooksMatchStock`
and `BooksMatchBalances`); catalogue and payment methods (single-row edits); audit
records; migrations, row-level security and pooling; release gates, build
scripts and tests, which are much of the repository's text and no part of
the running system.
