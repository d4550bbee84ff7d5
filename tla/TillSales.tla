------------------------------ MODULE TillSales ------------------------------
(***************************************************************************)
(* The tills of one branch: a till session, its server-side cart, the      *)
(* checkout that turns the cart into a sale, and the direct sale           *)
(* (migrations 0079 and 0078; pos-cart.service.ts, pos-checkout.service.ts *)
(* and sale-commit.service.ts).  Every request reads first, outside any    *)
(* transaction, and then takes its locks one by one; nothing it writes is  *)
(* seen before it commits.                                                 *)
(*                                                                         *)
(* The partial unique indexes are left out: the invariants show that the   *)
(* checks under the locks refuse whatever the indexes would.               *)
(***************************************************************************)
EXTENDS Naturals, FiniteSets, Totals

CONSTANTS
  Sessions,    \* requests served at the same time
  Commands,    \* what tills ask for; a retry is the same command again
  Items,       \* stock keys of the warehouse
  Opening,     \* item -> units in stock at the start
  MaxSubmits   \* bound on the requests

SetKinds == {"add", "quantity", "discount"}
Kinds == SetKinds \cup {"open", "close", "remove", "checkout", "sell"}

\* The line of a direct sale; its id comes from the client and is no cart line.
Own == "own line"

\* till, user, at (the terminal) name a till session; line, item, qty, disc a
\* cart line; sale and mode (the settlement mode) a sale.
ASSUME CommandAssumption ==
  /\ Commands # {}
  /\ \A c \in Commands :
       c.kind \in Kinds /\ c.item \in Items /\ c.qty \in Nat \ {0} /\ c.disc \in Nat /\ c.line # Own
  /\ Opening \in [Items -> Nat] /\ MaxSubmits \in Nat

VARIABLES
  tills,    \* pos_till_sessions: session id -> row
  lines,    \* pos_cart_lines: line id -> row
  sales,    \* sales with their items and invoice: sale id -> row
  stock,    \* stock_levels: item -> quantity
  pc,       \* request -> its next step
  cmd,      \* request -> its command
  read,     \* request -> what it read before its transaction
  done,     \* request -> the lines its transaction has tombstoned
  number,   \* request -> the invoice number its transaction has taken
  held,     \* request -> the rows and advisory keys it has locked
  answer,   \* request -> the last answer given
  submits

vars == <<tills, lines, sales, stock, pc, cmd, read, done, number, held, answer, submits>>
tables == <<tills, lines, sales, stock>>
local == <<cmd, read, done, number>>

NoRead == [open |-> FALSE, next |-> 0, rows |-> <<>>]

Init ==
  /\ tills = <<>> /\ lines = <<>> /\ sales = <<>> /\ stock = Opening
  /\ pc = [s \in Sessions |-> "idle"]
  /\ cmd = [s \in Sessions |-> CHOOSE c \in Commands : TRUE]
  /\ read = [s \in Sessions |-> NoRead]
  /\ done = [s \in Sessions |-> {}]
  /\ number = [s \in Sessions |-> 0]
  /\ held = [s \in Sessions |-> {}]
  /\ answer = [s \in Sessions |-> "none"]
  /\ submits = 0

\* The function f with x mapped to v, x new or not.
Put(f, x, v) == [y \in DOMAIN f \cup {x} |-> IF y = x THEN v ELSE f[y]]

-----------------------------------------------------------------------------
\* What is in the tables.

LinesOf(t) == {l \in DOMAIN lines : lines[l].till = t}
Basket(t) == {l \in LinesOf(t) : lines[l].live}

\* Usable: open, and the caller's own.
Usable(c) == c.till \in DOMAIN tills /\ tills[c.till].open /\ tills[c.till].user = c.user

\* max(line_no) + 1, tombstones included.
NextNo(t) == 1 + Max({0} \cup {lines[l].no : l \in LinesOf(t)})

OpenTills == {t \in DOMAIN tills : tills[t].open}

\* mergeByStockKey: one sale line per item, under the id of the first scan.
Same(rows, l) == {k \in DOMAIN rows : rows[k].item = rows[l].item}
Merged(rows) ==
  [l \in {k \in DOMAIN rows : \A m \in Same(rows, k) : rows[k].no <= rows[m].no} |->
     [item |-> rows[l].item,
      qty  |-> Total([k \in Same(rows, l) |-> rows[k].qty]),
      disc |-> Total([k \in Same(rows, l) |-> rows[k].disc])]]

\* The lines of the sale a request is about to commit.
ItemsOf(s) ==
  IF cmd[s].kind = "checkout" THEN Merged(read[s].rows)
  ELSE [l \in {Own} |-> [item |-> cmd[s].item, qty |-> cmd[s].qty, disc |-> 0]]

Sold(s) == cmd[s].sale \in DOMAIN sales

\* A mutated form: the digest leaves the settlement mode out.
SameItems(s) == sales[cmd[s].sale].items = ItemsOf(s)

\* commit_intent_sha256: the request and the lines it was derived from.
SameIntent(s) == sales[cmd[s].sale].mode = cmd[s].mode /\ sales[cmd[s].sale].items = ItemsOf(s)

\* provenReplay: the digest over the stored lines, all of them of this till.
ProvenReplay(s) ==
  /\ sales[cmd[s].sale].mode = cmd[s].mode
  /\ DOMAIN sales[cmd[s].sale].items \subseteq LinesOf(cmd[s].till)

Short(s) == \E l \in DOMAIN ItemsOf(s) : stock[ItemsOf(s)[l].item] < ItemsOf(s)[l].qty

-----------------------------------------------------------------------------
\* Locks.  Every mode taken here on a row conflicts with every other.

\* The next line to consume, in the order of the basket.
NextLine(s) ==
  IF cmd[s].kind # "checkout" THEN cmd[s].line
  ELSE CHOOSE l \in DOMAIN read[s].rows \ done[s] :
         \A k \in DOMAIN read[s].rows \ done[s] : read[s].rows[l].no <= read[s].rows[k].no

\* What the next step of a request locks.  The stock rows are locked in one
\* order, see StockLedger, and taken here in one step.
Wants(s) ==
  CASE pc[s] = "actor"            -> {<<"actor", cmd[s].user>>}
    [] pc[s] = "terminal"         -> {<<"terminal", cmd[s].at>>}
    [] pc[s] = "id"               -> {<<"id", cmd[s].till>>}
    [] pc[s] \in {"till", "guard"} -> {<<"till", cmd[s].till>>}
    [] pc[s] = "line"             -> {<<"line", NextLine(s)>>}
    [] pc[s] = "checkout"         -> {<<"checkout", cmd[s].till>>}
    [] pc[s] = "sale"             -> {<<"sale", cmd[s].sale>>}
    [] pc[s] = "stock"            -> {<<"stock", ItemsOf(s)[l].item>> : l \in DOMAIN ItemsOf(s)}
    [] pc[s] = "series"           -> {<<"series", "invoice">>}
    [] OTHER                      -> {}

Blockers(s) == {r \in Sessions \ {s} : held[r] \cap Wants(s) # {}}

Goto(s, step) == pc' = [pc EXCEPT ![s] = step]

\* The request waits for its lock, takes it and goes on.
Lock(s, from, to) ==
  /\ pc[s] = from /\ Blockers(s) = {}
  /\ held' = [held EXCEPT ![s] = @ \cup Wants(s)]
  /\ Goto(s, to)
  /\ UNCHANGED <<tables, answer, submits>>

\* A mutated form: advisory locks of the connection, not of the transaction.
EndKeepingLocks(s, kind) ==
  /\ Goto(s, "idle")
  /\ read' = [read EXCEPT ![s] = NoRead]
  /\ done' = [done EXCEPT ![s] = {}]
  /\ number' = [number EXCEPT ![s] = 0]
  /\ answer' = [answer EXCEPT ![s] = kind]
  /\ UNCHANGED <<cmd, held, submits>>

\* The transaction ends and its locks are released.
End(s, kind) ==
  /\ Goto(s, "idle")
  /\ held' = [held EXCEPT ![s] = {}]
  /\ read' = [read EXCEPT ![s] = NoRead]
  /\ done' = [done EXCEPT ![s] = {}]
  /\ number' = [number EXCEPT ![s] = 0]
  /\ answer' = [answer EXCEPT ![s] = kind]
  /\ UNCHANGED <<cmd, submits>>

-----------------------------------------------------------------------------
\* A request arrives.

\* A line id is minted by the server, for one request.
Minted(c) ==
  c.kind = "add" => c.line \notin DOMAIN lines /\ \A s \in Sessions : pc[s] = "idle" \/ cmd[s].line # c.line

\* What the gate of a cart command asks for.
Passes(c) ==
  CASE c.kind \in {"quantity", "discount"} -> Usable(c) /\ c.line \in Basket(c.till)
    [] c.kind = "remove"                   -> Usable(c) /\ c.line \in LinesOf(c.till)
    [] c.kind = "add"                      -> Usable(c)
    [] c.kind \in {"close", "checkout"}    -> c.till \in DOMAIN tills /\ tills[c.till].user = c.user
    [] OTHER                               -> TRUE

\* The gate's reading: the line as it stands and the next ordinal; a checkout
\* reads whether the session is open.
GateRead(c) ==
  [open |-> c.kind = "checkout" /\ tills[c.till].open,
   next |-> IF c.kind = "add" THEN NextNo(c.till) ELSE 0,
   rows |-> IF c.kind \in {"quantity", "discount"} THEN [l \in {c.line} |-> lines[l]] ELSE <<>>]

FirstStep(c) ==
  CASE c.kind = "open"                   -> "actor"
    [] c.kind \in SetKinds \cup {"close"} -> "till"
    [] c.kind = "remove"                 -> "line"
    [] c.kind = "checkout"               -> "replay"
    [] OTHER                             -> "plan"

\* What the gate refuses changes nothing and is not followed.
Begin(s, c) ==
  /\ pc[s] = "idle" /\ submits < MaxSubmits
  /\ Minted(c) /\ Passes(c)
  /\ submits' = submits + 1
  /\ cmd' = [cmd EXCEPT ![s] = c]
  /\ read' = [read EXCEPT ![s] = GateRead(c)]
  /\ answer' = [answer EXCEPT ![s] = "none"]
  /\ Goto(s, FirstStep(c))
  /\ UNCHANGED <<tables, done, number, held>>

-----------------------------------------------------------------------------
\* The unlocked reads of a checkout and of a direct sale.

ReplayFirst(s) ==
  /\ pc[s] = "replay"
  /\ \/ Sold(s) /\ ProvenReplay(s) /\ End(s, "replayed")
     \/ Sold(s) /\ ~ProvenReplay(s) /\ End(s, "refused")
     \/ ~Sold(s) /\ ~read[s].open /\ End(s, "refused")
     \/ /\ ~Sold(s) /\ read[s].open
        /\ Goto(s, "snapshot")
        /\ UNCHANGED <<local, held, answer, submits>>
  /\ UNCHANGED tables

\* The snapshot of the basket the sale is derived from.
ReadSnapshot(s) ==
  /\ pc[s] = "snapshot"
  /\ IF Basket(cmd[s].till) = {} THEN End(s, "refused")
     ELSE /\ read' = [read EXCEPT ![s].rows = [l \in Basket(cmd[s].till) |-> lines[l]]]
          /\ Goto(s, "plan")
          /\ UNCHANGED <<cmd, done, number, held, answer, submits>>
  /\ UNCHANGED tables

Plan(s) ==
  /\ pc[s] = "plan"
  /\ \/ Sold(s) /\ SameIntent(s) /\ End(s, "replayed")
     \/ Sold(s) /\ ~SameIntent(s) /\ End(s, "refused")
     \/ /\ ~Sold(s)
        /\ Goto(s, IF cmd[s].kind = "checkout" THEN "checkout" ELSE "sale")
        /\ UNCHANGED <<local, held, answer, submits>>
  /\ UNCHANGED tables

-----------------------------------------------------------------------------
\* Opening and closing a till.

\* A mutated form: requests for one drawer do not wait for each other.
SkipTerminal(s) ==
  /\ pc[s] = "terminal"
  /\ Goto(s, "id")
  /\ UNCHANGED <<tables, local, held, answer, submits>>

LockActor(s) == Lock(s, "actor", "terminal") /\ UNCHANGED local
LockTerminal(s) == Lock(s, "terminal", "id") /\ UNCHANGED local
LockId(s) == Lock(s, "id", "decide") /\ UNCHANGED local

MayOpen(c) ==
  c.till \notin DOMAIN tills /\ \A t \in OpenTills : tills[t].user # c.user /\ tills[t].at # c.at

\* An id that was opened before is answered if it was opened by the same
\* request, whatever became of it, and refused to one with another counted
\* cash, which a command leaves open.
DecideOpen(s) ==
  LET c == cmd[s] IN
  /\ pc[s] = "decide"
  /\ \/ c.till \in DOMAIN tills /\ tills[c.till].user = c.user /\ tills[c.till].at = c.at /\ End(s, "replayed")
     \/ c.till \in DOMAIN tills /\ End(s, "refused")
     \/ c.till \notin DOMAIN tills /\ ~MayOpen(c) /\ End(s, "refused")
     \/ MayOpen(c) /\ Goto(s, "commit") /\ UNCHANGED <<local, held, answer, submits>>
  /\ UNCHANGED tables

\* A till that is closed already is answered to the request that closed it,
\* refused to one with another counted cash; a command leaves the count open.
AnswerClosed(s) ==
  /\ pc[s] = "till" /\ Blockers(s) = {}
  /\ cmd[s].kind = "close" /\ ~tills[cmd[s].till].open
  /\ End(s, "replayed") \/ End(s, "refused")
  /\ UNCHANGED tables

LockTillToClose(s) ==
  /\ Lock(s, "till", "commit") /\ UNCHANGED local
  /\ cmd[s].kind = "close" /\ tills[cmd[s].till].open

-----------------------------------------------------------------------------
\* pos_cart_set_line: the session, then the line.

\* A mutated form: two appends may take one ordinal.
AnyOrdinal(s) == TRUE

Ordinal(s) == IF cmd[s].kind = "add" THEN read[s].next ELSE read[s].rows[cmd[s].line].no

OrdinalFree(s) == \A l \in Basket(cmd[s].till) \ {cmd[s].line} : lines[l].no # Ordinal(s)

SetLineOnTill(s) ==
  /\ Lock(s, "till", "line") /\ UNCHANGED local
  /\ cmd[s].kind \in SetKinds
  /\ tills[cmd[s].till].open /\ OrdinalFree(s)

RefuseOnTill(s) ==
  /\ pc[s] = "till" /\ Blockers(s) = {} /\ cmd[s].kind \in SetKinds
  /\ ~tills[cmd[s].till].open \/ ~OrdinalFree(s)
  /\ End(s, "refused")
  /\ UNCHANGED tables

Tombstoned(l) == l \in DOMAIN lines /\ ~lines[l].live

SetLineOnLine(s) ==
  /\ Lock(s, "line", "commit") /\ UNCHANGED local
  /\ cmd[s].kind \in SetKinds /\ ~Tombstoned(cmd[s].line)

RefuseRemoved(s) ==
  /\ pc[s] = "line" /\ Blockers(s) = {}
  /\ cmd[s].kind \in SetKinds /\ Tombstoned(cmd[s].line)
  /\ End(s, "refused")
  /\ UNCHANGED tables

-----------------------------------------------------------------------------
\* pos_cart_remove_line: the line, then, in its trigger, the session.  A
\* checkout calls it for every line of its snapshot.

Removes(s) == cmd[s].kind \in {"remove", "checkout"}

\* No row to tombstone: nothing to do for a removal, and for a checkout the
\* sign that its snapshot is stale.
FindRemoved(s) ==
  /\ pc[s] = "line" /\ Blockers(s) = {}
  /\ Removes(s) /\ Tombstoned(NextLine(s))
  /\ End(s, IF cmd[s].kind = "remove" THEN "done" ELSE "refused")
  /\ UNCHANGED tables

LockLineToRemove(s) ==
  /\ pc[s] = "line" /\ Removes(s) /\ ~Tombstoned(NextLine(s))
  /\ Lock(s, "line", "guard") /\ UNCHANGED local

AfterRemoval(s) ==
  IF cmd[s].kind = "remove" THEN "commit"
  ELSE IF DOMAIN read[s].rows = done[s] \cup {NextLine(s)} THEN "verify" ELSE "line"

\* A mutated form: the trigger does not look at the session.
RemoveUnguarded(s) ==
  /\ pc[s] = "guard"
  /\ done' = [done EXCEPT ![s] = @ \cup {NextLine(s)}]
  /\ Lock(s, "guard", AfterRemoval(s))
  /\ UNCHANGED <<cmd, read, number>>

RemoveLine(s) ==
  /\ pc[s] = "guard" /\ tills[cmd[s].till].open
  /\ done' = [done EXCEPT ![s] = @ \cup {NextLine(s)}]
  /\ Lock(s, "guard", AfterRemoval(s))
  /\ UNCHANGED <<cmd, read, number>>

RefuseClosed(s) ==
  /\ pc[s] = "guard" /\ Blockers(s) = {} /\ ~tills[cmd[s].till].open
  /\ End(s, "refused")
  /\ UNCHANGED tables

-----------------------------------------------------------------------------
\* sale_commit.

LockCheckout(s) == Lock(s, "checkout", "sale") /\ UNCHANGED local

\* A sale that is stored by now is answered by a direct sale; a checkout
\* goes on to consume its basket.
CommitStored(s) ==
  /\ pc[s] = "sale" /\ Blockers(s) = {} /\ Sold(s)
  /\ \/ SameIntent(s) /\ cmd[s].kind = "checkout" /\ Lock(s, "sale", "line") /\ UNCHANGED local
     \/ SameIntent(s) /\ cmd[s].kind = "sell" /\ End(s, "replayed") /\ UNCHANGED tables
     \/ ~SameIntent(s) /\ End(s, "refused") /\ UNCHANGED tables

\* A mutated form: two commits of one sale do not wait for each other.
InsertSaleUnlocked(s) ==
  /\ pc[s] = "sale" /\ ~Sold(s)
  /\ Goto(s, "stock")
  /\ UNCHANGED <<tables, local, held, answer, submits>>

InsertSale(s) == Lock(s, "sale", "stock") /\ ~Sold(s) /\ UNCHANGED local

RefuseShort(s) ==
  /\ pc[s] = "stock" /\ Blockers(s) = {} /\ Short(s)
  /\ End(s, "refused")
  /\ UNCHANGED tables

MoveStock(s) == pc[s] = "stock" /\ ~Short(s) /\ Lock(s, "stock", "series") /\ UNCHANGED local

AfterSale(s) == IF cmd[s].kind = "checkout" THEN "line" ELSE "commit"

\* A mutated form: the series row is inserted and not locked.
TakeNumberUnlocked(s) ==
  /\ pc[s] = "series"
  /\ number' = [number EXCEPT ![s] = 1 + Max({0} \cup {sales[x].number : x \in DOMAIN sales})]
  /\ Goto(s, AfterSale(s))
  /\ UNCHANGED <<tables, cmd, read, done, held, answer, submits>>

\* max(number_seq) + 1 under the lock of the series.
TakeNumber(s) ==
  /\ Lock(s, "series", AfterSale(s))
  /\ number' = [number EXCEPT ![s] = 1 + Max({0} \cup {sales[x].number : x \in DOMAIN sales})]
  /\ UNCHANGED <<cmd, read, done>>

\* A mutated form: only the lines of the snapshot are looked at.
UnchangedSnapshot(s) ==
  \A l \in DOMAIN read[s].rows : lines[l].qty = read[s].rows[l].qty /\ lines[l].disc = read[s].rows[l].disc

\* A mutated form: only what is left in the basket is looked at.
NothingLeft(s) == Basket(cmd[s].till) \subseteq done[s]

\* Nothing of the session is live, and every line is as it was priced.
Verified(s) ==
  /\ Basket(cmd[s].till) \subseteq done[s]
  /\ \A l \in DOMAIN read[s].rows :
       lines[l].qty = read[s].rows[l].qty /\ lines[l].disc = read[s].rows[l].disc

Verify(s) ==
  /\ pc[s] = "verify"
  /\ IF Verified(s) THEN Goto(s, "commit") /\ UNCHANGED <<local, held, answer, submits>>
     ELSE End(s, "refused")
  /\ UNCHANGED tables

-----------------------------------------------------------------------------
\* What a transaction has written when it commits.

\* A revision writes both columns, one of them as its gate had read it.
Revised(s) ==
  LET old == read[s].rows[cmd[s].line] IN
  IF cmd[s].kind = "quantity" THEN [old EXCEPT !.qty = cmd[s].qty] ELSE [old EXCEPT !.disc = cmd[s].disc]

Added(s) ==
  [till |-> cmd[s].till, no |-> read[s].next, item |-> cmd[s].item, qty |-> cmd[s].qty, disc |-> 0, live |-> TRUE]

LinesAfter(s) ==
  CASE cmd[s].kind = "add"                      -> Put(lines, cmd[s].line, Added(s))
    [] cmd[s].kind \in {"quantity", "discount"} -> Put(lines, cmd[s].line, Revised(s))
    [] OTHER -> [l \in DOMAIN lines |-> [lines[l] EXCEPT !.live = @ /\ l \notin done[s]]]

TillsAfter(s) ==
  CASE cmd[s].kind = "open" ->
         Put(tills, cmd[s].till, [user |-> cmd[s].user, at |-> cmd[s].at, open |-> TRUE])
    [] cmd[s].kind = "close" -> [tills EXCEPT ![cmd[s].till].open = FALSE]
    [] OTHER -> tills

\* `basket` is not stored: it is what the first answer says was consumed.
NewSale(s) == [mode |-> cmd[s].mode, items |-> ItemsOf(s), number |-> number[s], basket |-> DOMAIN read[s].rows]

Taken(s, i) == Total([l \in {l \in DOMAIN ItemsOf(s) : ItemsOf(s)[l].item = i} |-> ItemsOf(s)[l].qty])

Commit(s) ==
  /\ pc[s] = "commit"
  /\ tills' = TillsAfter(s)
  /\ lines' = LinesAfter(s)
  /\ IF number[s] = 0 THEN UNCHANGED <<sales, stock>>
     ELSE /\ sales' = Put(sales, cmd[s].sale, NewSale(s))
          /\ stock' = [i \in Items |-> stock[i] - Taken(s, i)]
  /\ End(s, "done")

\* The connection is lost, or the posting of the sale fails.
Fail(s) ==
  /\ pc[s] # "idle"
  /\ End(s, "lost")
  /\ UNCHANGED tables

\* A set of requests each of which waits for another of them.
Deadlocked(S) == S # {} /\ \A s \in S : Blockers(s) \cap S # {}

\* PostgreSQL aborts one of them; nothing retries it.
AbortVictim(s) ==
  /\ \E S \in SUBSET Sessions : s \in S /\ Deadlocked(S)
  /\ End(s, "deadlock")
  /\ UNCHANGED tables

Step(s) ==
  \/ ReplayFirst(s) \/ ReadSnapshot(s) \/ Plan(s)
  \/ LockActor(s) \/ LockTerminal(s) \/ LockId(s) \/ DecideOpen(s)
  \/ AnswerClosed(s) \/ LockTillToClose(s)
  \/ SetLineOnTill(s) \/ RefuseOnTill(s) \/ SetLineOnLine(s) \/ RefuseRemoved(s)
  \/ FindRemoved(s) \/ LockLineToRemove(s) \/ RemoveLine(s) \/ RefuseClosed(s)
  \/ LockCheckout(s) \/ CommitStored(s) \/ InsertSale(s) \/ RefuseShort(s) \/ MoveStock(s)
  \/ TakeNumber(s) \/ Verify(s) \/ Commit(s) \/ AbortVictim(s)

Next ==
  \E s \in Sessions :
    \/ \E c \in Commands : Begin(s, c)
    \/ Step(s)
    \/ Fail(s)

Spec == Init /\ [][Next]_vars

\* A request that can go on does: the server runs every one of them.
FairSpec == Spec /\ \A s \in Sessions : WF_vars(Step(s))

-----------------------------------------------------------------------------
Row == [till : {c.till : c \in Commands}, no : Nat, item : Items, qty : Nat, disc : Nat, live : BOOLEAN]

\* Type invariant.
TypeOK ==
  /\ DOMAIN tills \subseteq {c.till : c \in Commands}
  /\ \A t \in DOMAIN tills :
       tills[t] \in [user : {c.user : c \in Commands}, at : {c.at : c \in Commands}, open : BOOLEAN]
  /\ DOMAIN lines \subseteq {c.line : c \in Commands} /\ \A l \in DOMAIN lines : lines[l] \in Row
  /\ DOMAIN sales \subseteq {c.sale : c \in Commands} /\ \A x \in DOMAIN sales : sales[x].number \in Nat \ {0}
  /\ stock \in [Items -> Nat]
  /\ cmd \in [Sessions -> Commands]
  /\ \A s \in Sessions : DOMAIN read[s].rows \subseteq DOMAIN lines /\ done[s] \subseteq DOMAIN lines
  /\ submits \in 0..MaxSubmits

\* One open till for a user and one for a drawer: the two partial unique
\* indexes never have to refuse, because the lock "is what makes a pre-check
\* a decision rather than a guess" (0079:912).
TillsExclusive ==
  \A t, u \in OpenTills : t # u => tills[t].user # tills[u].user /\ tills[t].at # tills[u].at

\* A closed till is the record of its shift: no cart command, removal or
\* checkout that was under way while it closed changes its row, its lines or
\* sells from it afterwards (0079:762, 0079:968).
ClosedTillFrozen ==
  [][\A t \in DOMAIN tills \ OpenTills :
       /\ tills'[t] = tills[t]
       /\ \A l \in DOMAIN lines' : lines'[l].till = t => l \in DOMAIN lines /\ lines'[l] = lines[l]
       /\ \A x \in DOMAIN sales' \ DOMAIN sales : sales'[x].basket \cap LinesOf(t) = {}]_vars

\* Live lines of one basket have their own ordinals, although two appends
\* read the same maximum outside their transactions (pos-cart-statements.ts:445).
OrdinalsDistinct ==
  \A k, l \in DOMAIN lines :
    k # l /\ lines[k].till = lines[l].till /\ lines[k].live /\ lines[l].live => lines[k].no # lines[l].no

\* A scanned line is sold once, in the quantity and with the discount it
\* has: whatever revisions, removals and other checkouts of the basket ran
\* between the snapshot and the commit (pos-checkout.service.ts:110-140).
SoldIsScanned ==
  /\ \A x, y \in DOMAIN sales : x # y => sales[x].basket \cap sales[y].basket = {}
  /\ \A x \in DOMAIN sales : sales[x].basket # {} =>
       /\ \A l \in sales[x].basket : Tombstoned(l)
       /\ sales[x].items = Merged([l \in sales[x].basket |-> lines[l]])

\* A checkout sells the whole basket or nothing: when one consumes lines it
\* has stored a sale of exactly these lines, and nothing of the session is
\* left live (pos-checkout.service.ts:365-399).
CheckoutIsWhole ==
  [][\A s \in Sessions :
       pc[s] = "commit" /\ pc'[s] = "idle" /\ cmd[s].kind = "checkout" /\ lines' # lines =>
         /\ Sold(s)' /\ ~Sold(s)
         /\ sales'[cmd[s].sale].basket = Basket(cmd[s].till)
         /\ Basket(cmd[s].till)' = {}]_vars

\* Invoices are numbered without gap or repetition, whatever sales fail or
\* race for the next number (P4-AL-31, 0078:946-966).
NumbersGapless ==
  {sales[x].number : x \in DOMAIN sales} = 1..Cardinality(DOMAIN sales)

\* What a sale took of an item.
TakenBy(x, i) ==
  Total([l \in {l \in DOMAIN sales[x].items : sales[x].items[l].item = i} |-> sales[x].items[l].qty])

\* What has left the stock is what was sold: a sale id moves stock once,
\* however often it is sent, and no two sales take the last unit (0078:554, 877).
StockIsSold ==
  \A i \in Items :
    /\ stock[i] >= 0
    /\ stock[i] + Total([x \in DOMAIN sales |-> TakenBy(x, i)]) = Opening[i]

\* "Revising one field therefore means restating the other", so that a change
\* of quantity does not clear a discount (pos-cart-statements.ts:484-488): a
\* change of quantity leaves the discount of the line as it is.
RevisionKeepsDiscount ==
  [][\A s \in Sessions :
       pc[s] = "commit" /\ cmd[s].kind = "quantity" /\ lines' # lines =>
         lines'[cmd[s].line].disc = lines[cmd[s].line].disc]_vars

\* What a request was told stays true, whatever shares its identity: a sale
\* answered as committed is stored as this request stated it, and not as
\* another request under the same sale id did (0078:588); an opened till is the
\* caller's at that drawer (0079:929); a closed one is closed.
AnswersAreTrue ==
  \A s \in Sessions :
    answer[s] \in {"done", "replayed"} =>
      CASE cmd[s].kind = "open"  -> cmd[s].till \in DOMAIN tills /\ tills[cmd[s].till].user = cmd[s].user
                                      /\ tills[cmd[s].till].at = cmd[s].at
        [] cmd[s].kind = "close" -> ~tills[cmd[s].till].open
        [] cmd[s].kind = "sell"  ->
             Sold(s) /\ sales[cmd[s].sale].mode = cmd[s].mode /\ sales[cmd[s].sale].items = ItemsOf(s)
        [] cmd[s].kind = "checkout" ->
             /\ Sold(s) /\ sales[cmd[s].sale].mode = cmd[s].mode
             /\ sales[cmd[s].sale].basket # {} /\ sales[cmd[s].sale].basket \subseteq LinesOf(cmd[s].till)
        [] OTHER -> TRUE

\* Every request is answered.
CommandsEnd == \A s \in Sessions : pc[s] # "idle" ~> pc[s] = "idle"
=============================================================================
