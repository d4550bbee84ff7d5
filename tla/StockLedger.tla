---------------------------- MODULE StockLedger ----------------------------
(***************************************************************************)
(* The stock ledger of one business: API sessions that run stock commands  *)
(* as READ COMMITTED transactions over shared stock keys.                  *)
(*                                                                         *)
(* A command is quoted by the service from an unlocked read, then runs in  *)
(* one transaction: it takes the document's advisory lock, the shared      *)
(* locks on its warehouses and variants, inserts its header, locks its     *)
(* stock rows in (warehouse, variant) order, applies its movement requests *)
(* one by one, compares the values it wrote with the quoted ones, posts    *)
(* the accounting entry of the quoted total, and commits.  Everything a    *)
(* transaction writes is private (work, out) until Commit; any refusal or  *)
(* crash leaves no trace.                                                  *)
(***************************************************************************)
EXTENDS StockCommands, Totals

CONSTANTS
  Sessions,      \* concurrent API requests / database sessions
  Commands,      \* the commands clients may submit
  MaxSubmits     \* bound on submissions, over all sessions

\* A purchase reversal is identified by the purchase it reverses
\* (source_type purchase_reversal, source_id = purchase_id).
ASSUME LedgerAssumption ==
  /\ MaxSubmits \in Nat
  /\ \A c \in Commands : WellFormed(c)
  /\ \A c, e \in Commands :
       c.op = "reverse" /\ e.op = "reverse" => (c.of = e.of <=> c.doc = e.doc)

VARIABLES
  level,      \* stock_levels, committed: the cached position of each key
  ledger,     \* stock_movements, committed
  docs,       \* committed document headers: id -> command, over committed ids
  gl,         \* committed inventory postings: id -> amount, over committed ids
  archived,   \* archived warehouses, variants and products
  pc,         \* where each session is
  cmd,        \* its command
  quote,      \* the values the service bound into the command
  rows,       \* stock rows it holds FOR UPDATE
  work,       \* its own uncommitted view of the rows it holds
  out,        \* the movements it has written, uncommitted, in order
  submits     \* submissions so far

committed == <<level, ledger, docs, gl>>
vars == <<level, ledger, docs, gl, archived, pc, cmd, quote, rows, work, out, submits>>

-----------------------------------------------------------------------------
(* What a session holds.                                                    *)

InTx == {"targets", "header", "rows", "apply"}

\* The advisory lock on the document id, from Begin to the end.
HoldsDoc(s, d) == pc[s] \in InTx /\ LockedDoc(cmd[s]) = d

\* The shared advisory locks on warehouses and variants.
\* A mutated form: the locks end with the statement that took them.
HoldsTargetBriefly(s, t) == pc[s] = "header" /\ t \in TargetsOf(cmd[s])

HoldsTarget(s, t) == pc[s] \in {"header", "rows", "apply"} /\ t \in TargetsOf(cmd[s])

\* The product rows, FOR SHARE.
HoldsProduct(s, p) == pc[s] \in {"rows", "apply"} /\ p \in ProductsOf(cmd[s])

\* An inserted, uncommitted header of document d.
Inserting(s, d) == pc[s] \in {"rows", "apply"} /\ cmd[s].doc = d

MissingRows(s) == KeysOf(cmd[s]) \ rows[s]

\* A mutated form: rows are locked in request order.
NextRowUnsorted(s, k) ==
  LET reqs == Requests(cmd[s])
  IN \E i \in DOMAIN reqs : /\ reqs[i].key = k /\ k \in MissingRows(s)
                            /\ \A j \in 1..(i - 1) : reqs[j].key \in rows[s]

\* k is the next stock row the session locks: rows are locked in id order.
NextRow(s, k) == k \in MissingRows(s) /\ \A j \in MissingRows(s) \ {k} : Before(k, j)

RowFree(s, k) == \A t \in Sessions \ {s} : k \notin rows[t]

Written(s) == {out[s][i] : i \in DOMAIN out[s]}

-----------------------------------------------------------------------------
Init ==
  /\ level = [k \in Keys |-> EmptyLevel]
  /\ ledger = {}
  /\ docs = <<>>
  /\ gl = <<>>
  /\ archived = {}
  /\ pc = [s \in Sessions |-> "idle"]
  /\ cmd = [s \in Sessions |-> None]
  /\ quote = [s \in Sessions |-> <<>>]
  /\ rows = [s \in Sessions |-> {}]
  /\ work = [s \in Sessions |-> [k \in Keys |-> EmptyLevel]]
  /\ out = [s \in Sessions |-> <<>>]
  /\ submits = 0

\* Rollback or commit: every lock goes, nothing private is left.
Release(s) ==
  /\ pc' = [pc EXCEPT ![s] = "idle"]
  /\ cmd' = [cmd EXCEPT ![s] = None]
  /\ quote' = [quote EXCEPT ![s] = <<>>]
  /\ rows' = [rows EXCEPT ![s] = {}]
  /\ work' = [work EXCEPT ![s] = [k \in Keys |-> EmptyLevel]]
  /\ out' = [out EXCEPT ![s] = <<>>]

\* The value the service expects of each request, from the committed levels.
QuoteOf(c) ==
  LET reqs == Requests(c)
  IN [i \in DOMAIN reqs |-> Valued(level[reqs[i].key], reqs[i], Pair(c, reqs[i], ledger)).value]

\* The requests the service can value beforehand: a transfer_in has no pair yet.
QuoteAccepted(c) ==
  \A i \in DOMAIN Requests(c) :
    LET req == Requests(c)[i]
    IN req.kind # "transfer_in" =>
         ValuationAccepted(level[req.key], req, Pair(c, req, ledger))

\* The service: prove the id unused, read the stock without a lock, bind the
\* expected values (a transfer binds none).
Submit(s, c) ==
  /\ pc[s] = "idle"
  /\ submits < MaxSubmits
  /\ c.doc \notin DOMAIN docs
  /\ TargetsOf(c) \cap archived = {}
  /\ QuoteAccepted(c)
  /\ pc' = [pc EXCEPT ![s] = "quoted"]
  /\ cmd' = [cmd EXCEPT ![s] = c]
  /\ quote' = [quote EXCEPT ![s] = IF c.op = "transfer" THEN <<>> ELSE QuoteOf(c)]
  /\ submits' = submits + 1
  /\ UNCHANGED <<committed, archived, rows, work, out>>

\* The transaction opens and waits for the document's advisory lock.
Begin(s) ==
  /\ pc[s] = "quoted"
  /\ LockedDoc(cmd[s]) # None =>
       \A t \in Sessions \ {s} : ~HoldsDoc(t, LockedDoc(cmd[s]))
  /\ pc' = [pc EXCEPT ![s] = "targets"]
  /\ UNCHANGED <<committed, archived, cmd, quote, rows, work, out, submits>>

\* The id is used by now: a replay answers from the store, another intent is
\* refused; either way the transaction ends without writing.
AnswerFromStore(s) ==
  /\ pc[s] \in {"targets", "header"}
  /\ cmd[s].doc \in DOMAIN docs
  /\ Release(s)
  /\ UNCHANGED <<committed, archived, submits>>

\* Shared locks on every warehouse and variant, then the status of each.
LockTargets(s) ==
  /\ pc[s] = "targets"
  /\ cmd[s].doc \notin DOMAIN docs
  /\ cmd[s].op = "reverse" => cmd[s].of \in DOMAIN docs
  /\ (TargetsOf(cmd[s]) \cup ProductsOf(cmd[s])) \cap archived = {}
  /\ pc' = [pc EXCEPT ![s] = "header"]
  /\ UNCHANGED <<committed, archived, cmd, quote, rows, work, out, submits>>

\* INSERT ... ON CONFLICT DO NOTHING waits for an uncommitted header of the
\* same id; then the primitive takes the products FOR SHARE.
InsertHeader(s) ==
  /\ pc[s] = "header"
  /\ \A t \in Sessions \ {s} : ~Inserting(t, cmd[s].doc)
  /\ cmd[s].doc \notin DOMAIN docs
  /\ pc' = [pc EXCEPT ![s] = "rows"]
  /\ UNCHANGED <<committed, archived, cmd, quote, rows, work, out, submits>>

\* SELECT ... FOR UPDATE of the next stock row; the session sees its latest
\* committed version.
LockRow(s) ==
  /\ pc[s] = "rows"
  /\ \E k \in Keys :
       /\ NextRow(s, k)
       /\ RowFree(s, k)
       /\ rows' = [rows EXCEPT ![s] = @ \cup {k}]
       /\ work' = [work EXCEPT ![s][k] = level[k]]
  /\ UNCHANGED <<committed, archived, pc, cmd, quote, out, submits>>

AllRowsHeld(s) == KeysOf(cmd[s]) \subseteq rows[s]

RowsLocked(s) ==
  /\ pc[s] = "rows"
  /\ AllRowsHeld(s)
  /\ pc' = [pc EXCEPT ![s] = "apply"]
  /\ UNCHANGED <<committed, archived, cmd, quote, rows, work, out, submits>>

-----------------------------------------------------------------------------
(* The primitive's loop: one request at a time, in request order.           *)

NextRequest(s) == Requests(cmd[s])[Len(out[s]) + 1]

PairOf(s) == Pair(cmd[s], NextRequest(s), ledger \cup Written(s))

\* No movement of this source line and kind exists yet.
IdentityFree(s) ==
  LET req == NextRequest(s)
  IN \A m \in ledger \cup Written(s) :
       ~(m.doc = req.doc /\ m.line = req.line /\ m.kind = req.kind)

Accepted(s) ==
  /\ IdentityFree(s)
  /\ Admissible(work[s][NextRequest(s).key], NextRequest(s), PairOf(s))

Applying(s) == pc[s] = "apply" /\ Len(out[s]) < Len(Requests(cmd[s]))

ApplyRequest(s) ==
  /\ Applying(s)
  /\ Accepted(s)
  /\ LET req == NextRequest(s)
         lvl == work[s][req.key]
         v   == Valued(lvl, req, PairOf(s))
     IN /\ work' = [work EXCEPT ![s][req.key] = ApplyMovement(lvl, req.qty, v.value)]
        /\ out' = [out EXCEPT ![s] = Append(@,
                    [doc |-> req.doc, line |-> req.line, kind |-> req.kind, key |-> req.key,
                     qty |-> req.qty, value |-> v.value, snap |-> v.snap, seq |-> lvl.seq + 1])]
  /\ UNCHANGED <<committed, archived, pc, cmd, quote, rows, submits>>

-----------------------------------------------------------------------------
(* The end of the command.                                                  *)

Applied(s) == pc[s] = "apply" /\ Len(out[s]) = Len(Requests(cmd[s]))

\* A mutated form: the values written are not compared.
ValuesUnchecked(s) == TRUE

\* The written values are the quoted ones (inventory.valuation_changed).
ValuesAsQuoted(s) ==
  cmd[s].op # "transfer" => \A i \in DOMAIN out[s] : out[s][i].value = quote[s][i]

\* The check after the primitive; a reversal has none.
ProductsActive(s) == cmd[s].op # "reverse" => ProductsOf(cmd[s]) \cap archived = {}

Published(s, k) == IF k \in rows[s] THEN work[s][k] ELSE level[k]

\* gl records the inventory side of the entry posted in the same transaction:
\* the quoted total, over which the accounting assertion was minted before the
\* command ran.
PostEntry(s) == gl' = With(gl, cmd[s].doc, SumOf(quote[s]))

Commit(s) ==
  /\ Applied(s)
  /\ ValuesAsQuoted(s)
  /\ ProductsActive(s)
  /\ level' = [k \in Keys |-> Published(s, k)]
  /\ ledger' = ledger \cup Written(s)
  /\ docs' = With(docs, cmd[s].doc, cmd[s])
  /\ PostEntry(s)
  /\ Release(s)
  /\ UNCHANGED <<archived, submits>>

\* Every refusal raises, and the transaction rolls back.
Refused(s) ==
     \/ /\ pc[s] = "targets"
        /\ cmd[s].doc \notin DOMAIN docs
        /\ \/ (TargetsOf(cmd[s]) \cup ProductsOf(cmd[s])) \cap archived # {}
           \/ cmd[s].op = "reverse" /\ cmd[s].of \notin DOMAIN docs
     \/ Applying(s) /\ ~Accepted(s)
     \/ Applied(s) /\ ~(ValuesAsQuoted(s) /\ ProductsActive(s))

Refuse(s) ==
  /\ Refused(s)
  /\ Release(s)
  /\ UNCHANGED <<committed, archived, submits>>

\* The process or its connection dies: the server rolls back.
Crash(s) ==
  /\ pc[s] # "idle"
  /\ Release(s)
  /\ UNCHANGED <<committed, archived, submits>>

-----------------------------------------------------------------------------
(* Archiving: the triggers that require zero stock.                         *)

\* A warehouse or variant: exclusive advisory lock, then the check.
ArchiveTarget(t) ==
  /\ t \notin archived
  /\ \A s \in Sessions : ~HoldsTarget(s, t)
  /\ \A k \in Keys : (t = <<"warehouse", k[1]>> \/ t = <<"variant", k[2]>>) => level[k].onHand = 0
  /\ archived' = archived \cup {t}
  /\ UNCHANGED <<committed, pc, cmd, quote, rows, work, out, submits>>

\* A product: its row lock waits for FOR SHARE holders; no advisory lock.
ArchiveProduct(p) ==
  /\ p \notin archived
  /\ \A s \in Sessions : ~HoldsProduct(s, p)
  /\ \A k \in Keys : p = <<"product", k[2]>> => level[k].onHand = 0
  /\ archived' = archived \cup {p}
  /\ UNCHANGED <<committed, pc, cmd, quote, rows, work, out, submits>>

SessionStep(s) ==
  \/ Begin(s)
  \/ AnswerFromStore(s)
  \/ LockTargets(s)
  \/ InsertHeader(s)
  \/ LockRow(s)
  \/ RowsLocked(s)
  \/ ApplyRequest(s)
  \/ Commit(s)
  \/ Refuse(s)

Next ==
  \/ \E s \in Sessions : \E c \in Commands : Submit(s, c)
  \/ \E s \in Sessions : SessionStep(s)
  \/ \E s \in Sessions : Crash(s)
  \/ \E w \in Warehouses : ArchiveTarget(<<"warehouse", w>>)
  \/ \E v \in Variants : ArchiveTarget(<<"variant", v>>)
  \/ \E v \in Variants : ArchiveProduct(<<"product", v>>)

Spec == Init /\ [][Next]_vars

\* A running transaction is driven to its end by its own process; a row lock
\* is granted once its holder ends.
FairSpec == Spec /\ \A s \in Sessions : WF_vars(SessionStep(s))

-----------------------------------------------------------------------------
(* Properties.                                                              *)

Movements ==
  [doc : {c.doc : c \in Commands}, line : Nat, kind : Kinds, key : Keys,
   qty : Int, value : Int, snap : Int \cup {None}, seq : Nat \ {0}]

\* Type invariant.
TypeOK ==
  /\ level \in [Keys -> Levels]
  /\ ledger \subseteq Movements
  /\ DOMAIN gl = DOMAIN docs
  /\ \A d \in DOMAIN docs : docs[d] \in Commands /\ docs[d].doc = d
  /\ pc \in [Sessions -> {"idle", "quoted", "targets", "header", "rows", "apply"}]
  /\ cmd \in [Sessions -> Commands \cup {None}]
  /\ \A s \in Sessions : pc[s] # "idle" => cmd[s] \in Commands
  /\ rows \in [Sessions -> SUBSET Keys]
  /\ work \in [Sessions -> [Keys -> Levels]]
  /\ out \in [Sessions -> Seq(Movements)]
  /\ submits \in 0..MaxSubmits

\* Every committed stock key is lawful: nothing oversold, no negative valuation
\* (averaging rounds, and taking part of a key at the rounded average must not
\* take more than the key is worth), no value left on an empty key, and an
\* average that follows the valuation.
LevelsLawful == \A k \in Keys : LawfulLevel(level[k])

\* No two sessions hold one stock row, and what a session sees of a row it has
\* not written is the committed row: no command computes on a stale level.
RowsExclusive ==
  \A s, t \in Sessions : s # t => rows[s] \cap rows[t] = {}

ViewsCurrent ==
  \A s \in Sessions : \A k \in rows[s] :
    (\A m \in Written(s) : m.key # k) => work[s][k] = level[k]

\* The two together: FOR UPDATE from the read of a row to the commit of what was
\* computed from it, so no session's write erases another's.
NoLostUpdate == RowsExclusive /\ ViewsCurrent

\* Each key's movements are numbered 1, 2, ... without gap or repetition up to
\* the cached last_stock_seq (uq_stock_movements_seq, the rebuild fold).
StockSeqGapless ==
  \A k \in Keys :
    LET ms == {m \in ledger : m.key = k}
    IN /\ {m.seq : m \in ms} = 1..level[k].seq
       /\ \A m, n \in ms : m.seq = n.seq => m = n

\* A transfer moves value, it never makes or loses any: each transfer_in has
\* its transfer_out's quantity, value and cost, opposite in sign.
TransfersConserve ==
  \A m \in ledger : m.kind = "transfer_in" =>
    \E n \in ledger : /\ n.kind = "transfer_out" /\ n.doc = m.doc /\ n.line = m.line
                      /\ n.qty = -m.qty /\ n.value = -m.value /\ n.snap = m.snap

\* The books agree with the stock: the inventory account's balance is the total
\* valuation of the stock (the reconciliation the back office runs), although
\* what is posted was added up from levels read before any lock was taken.
BooksMatchStock == Total([k \in Keys |-> level[k].valuation]) = Total(gl)

\* Every submitted command ends.
CommandsEnd == \A s \in Sessions : pc[s] # "idle" ~> pc[s] = "idle"

\* The concurrent ledger implements the atomic one: a committed command is one
\* that could have run alone, on the committed levels, at its commit; and the
\* entry posted for it is the value that really moved.
Atomic == INSTANCE AtomicStock
ImplementsAtomicStock == Atomic!Spec
=============================================================================
