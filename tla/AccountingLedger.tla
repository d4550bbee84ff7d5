--------------------------- MODULE AccountingLedger ---------------------------
(***************************************************************************)
(* The books of one business: accounting_post_entry, the reversal, the     *)
(* posting of an opening balance, the period commands and the change of    *)
(* base currency, as concurrent transactions (migrations 0045-0047, 0049;  *)
(* tenancy.service.ts).  A transaction takes its locks one by one, decides *)
(* under them and commits in a later step; others run in between.          *)
(*                                                                         *)
(* The unique constraints of the tables and the deferred topology trigger  *)
(* are left out: the invariants show that they never have anything to      *)
(* refuse.                                                                 *)
(***************************************************************************)
EXTENDS Naturals, FiniteSets

CONSTANTS
  Sessions,     \* concurrent transactions
  Commands,     \* what clients ask for; a repeat is the same command again
  Sources,      \* identities of posted documents
  Currencies,
  MaxSubmits,   \* bound on the commands submitted
  HasHistory    \* financial_started_at is set from the start

Kinds == {"post", "document", "opening", "reverse", "create", "close", "reopen", "currency"}
PeriodKinds == {"create", "close", "reopen"}
Entered == {"post", "document", "reverse"}

\* src, cur: the source and the currency of a posting; date: its date or the
\* first day of a period; last: the last day of a period; op: the identity
\* of a period operation.
ASSUME CommandAssumption ==
  /\ \A c \in Commands :
       /\ c.kind \in Kinds /\ c.src \in Sources /\ c.cur \in Currencies
       /\ c.date \in Nat \ {0} /\ c.last \in Nat /\ c.date <= c.last
  /\ \A c, d \in Commands :
       c.src = d.src /\ {c.kind, d.kind} \subseteq {"post", "document", "opening"} => c.kind = d.kind
  /\ MaxSubmits \in Nat /\ HasHistory \in BOOLEAN /\ Commands # {}

VARIABLES
  entries,     \* journal_entries
  periods,     \* accounting_periods
  operations,  \* accounting_period_operations: the commands carried out
  opening,     \* source -> status of the opening balance
  currency,    \* businesses.base_currency
  started,     \* businesses.financial_started_at is set
  pc,          \* session -> next step of its transaction
  cmd,         \* session -> its command
  first,       \* session -> what the unlocked probe of `started` said
  biz,         \* session -> the modes in which it holds the business row
  keys,        \* session -> the advisory keys it holds
  answer,      \* session -> the last answer given to its client
  repeat,      \* sessions whose command had taken effect when it was sent
  submits

vars == <<entries, periods, operations, opening, currency, started,
          pc, cmd, first, biz, keys, answer, repeat, submits>>
books == <<entries, periods, operations, opening, currency, started>>

Init ==
  /\ entries = {} /\ periods = {} /\ operations = {}
  /\ opening = [o \in Sources |-> "draft"]
  /\ currency \in Currencies
  /\ started = HasHistory
  /\ pc = [s \in Sessions |-> "idle"]
  /\ cmd = [s \in Sessions |-> CHOOSE c \in Commands : TRUE]
  /\ first = [s \in Sessions |-> FALSE]
  /\ biz = [s \in Sessions |-> {}]
  /\ keys = [s \in Sessions |-> {}]
  /\ answer = [s \in Sessions |-> "none"]
  /\ repeat = {}
  /\ submits = 0

-----------------------------------------------------------------------------
\* Row and advisory locks.

\* FOR UPDATE conflicts with everything, the others with FOR UPDATE only.
Conflicts(mode, held) == IF mode = "update" THEN held # {} ELSE "update" \in held

BusinessBlockers(s, mode) == {t \in Sessions \ {s} : Conflicts(mode, biz[t])}

KeyBlockers(s, k) == {t \in Sessions \ {s} : k \in keys[t]}

Posts(c) == c.kind \in {"post", "document", "opening", "reverse"}

\* The advisory key of a period command or of an opening balance; the source
\* identity of a posting.
WorkflowKey(c) == IF c.kind = "opening" THEN <<"opening", "">> ELSE <<"periods", "">>
SourceKey(c) == <<c.kind, c.src>>

\* The first posting, a period command, an opening balance and a change of
\* currency take the business FOR UPDATE, any other posting FOR SHARE.
Mode(s) ==
  IF cmd[s].kind \in PeriodKinds \cup {"opening", "currency"} \/ first[s]
  THEN "update" ELSE "share"

\* The sessions s is waiting for.
Blockers(s) ==
  CASE pc[s] = "header"   -> BusinessBlockers(s, "key")
    [] pc[s] = "key"      -> KeyBlockers(s, WorkflowKey(cmd[s]))
    [] pc[s] = "business" -> BusinessBlockers(s, Mode(s))
    [] pc[s] = "source"   -> KeyBlockers(s, SourceKey(cmd[s]))
    [] OTHER              -> {}

-----------------------------------------------------------------------------
\* What a command meets in the books.

\* The same source with the same financial truth: the fingerprint covers the
\* day and the lines, and with them their currency; a reversal copies its lines.
Posted(c) ==
  \E e \in entries :
    /\ e.kind = c.kind /\ e.src = c.src /\ e.date = c.date
    /\ c.kind # "reverse" => e.cur = c.cur

Covers(p, d) == p.start <= d /\ d <= p.end

ClosedHistory == \E p \in periods : p.closed

\* accounting_period_guard_posting, before every insert of an entry.
PostingGuard(c) ==
  \/ periods = {}
  \/ c.kind = "opening" /\ (\A p \in periods : c.date < p.start) /\ ~ClosedHistory
  \/ \E p \in periods : Covers(p, c.date) /\ ~p.closed

\* A mutated form: replays are looked for after the period was checked.
AnsweredIfOpen(c) ==
  CASE c.kind = "opening"  -> opening[c.src] = "posted"
    [] c.kind = "currency" -> FALSE
    [] c.kind \in Entered  -> Posted(c) /\ PostingGuard(c)
    [] OTHER               -> c \in operations

\* The command was carried out before, exactly as it is asked for now.
Answered(c) ==
  CASE c.kind = "opening"  -> opening[c.src] = "posted"
    [] c.kind = "currency" -> FALSE
    [] c.kind \in Entered  -> Posted(c)
    [] OTHER               -> c \in operations

Reversed(o) == \E e \in entries : e.kind = "reverse" /\ e.src = o

\* Another posted opening balance, unless its entry was reversed.
LiveOpenings(c) == {o \in Sources \ {c.src} : opening[o] = "posted" /\ ~Reversed(o)}

\* Entries a domain owns are not reversed here, nor is a reversal.
Originals(c) ==
  {e \in entries : e.src = c.src /\ e.kind \in {"post", "opening"} /\ e.date <= c.date}

FreshSource(c) == \A e \in entries : <<e.kind, e.src>> # SourceKey(c)

\* A mutated form: the identity of an operation is not looked up.
AnyOperation(c) == TRUE

FreshOperation(c) == \A o \in operations : o.op # c.op

\* A mutated form: an earlier open period does not stop a close.
MayCloseAnyOrder(p) == ~p.closed

MayClose(p) == ~p.closed /\ \A q \in periods : q.start < p.start => q.closed

MayReopen(p) == p.closed /\ \A q \in periods : q.start > p.start => ~q.closed

Earliest(p) == \A q \in periods : p.start <= q.start
Latest(p) == \A q \in periods : q.end <= p.end

\* No overlap; joined to either end; nothing is put before a closed period.
MayCreate(c) ==
  /\ \A p \in periods : c.last < p.start \/ p.end < c.date
  /\ \/ periods = {}
     \/ \E p \in periods : Latest(p) /\ c.date = p.end + 1
     \/ (\E p \in periods : Earliest(p) /\ p.start = c.last + 1) /\ ~ClosedHistory

Admits(c) ==
  CASE c.kind = "create"   -> FreshOperation(c) /\ MayCreate(c)
    [] c.kind = "close"    -> FreshOperation(c) /\ \E p \in periods : p.start = c.date /\ MayClose(p)
    [] c.kind = "reopen"   -> FreshOperation(c) /\ \E p \in periods : p.start = c.date /\ MayReopen(p)
    [] c.kind = "currency" -> ~started
    [] c.kind = "reverse"  -> FreshSource(c) /\ Originals(c) # {} /\ PostingGuard(c)
    [] c.kind = "opening"  -> /\ opening[c.src] = "draft" /\ LiveOpenings(c) = {}
                              /\ c.cur = currency /\ FreshSource(c) /\ PostingGuard(c)
    [] OTHER               -> FreshSource(c) /\ PostingGuard(c)

\* The currency of the lines is compared before a replay is looked for, but
\* an opening balance that is posted is answered first; a reversal copies the
\* lines of its original.
WrongCurrency(c) ==
  \/ c.kind \in {"post", "document"} /\ c.cur # currency
  \/ c.kind = "reverse" /\ \E e \in Originals(c) : e.cur # currency

-----------------------------------------------------------------------------
FirstStep(c) ==
  CASE c.kind \in PeriodKinds \cup {"opening"} -> "key"
    [] c.kind = "document"                    -> "header"
    [] c.kind = "post"                        -> "probe"
    [] OTHER                                  -> "business"

\* A document repeated is answered by its own row, see StockLedger.
Begin(s, c) ==
  /\ pc[s] = "idle"
  /\ submits < MaxSubmits
  /\ c.kind = "document" => FreshSource(c) /\ \A t \in Sessions : pc[t] = "idle" \/ cmd[t] # c
  /\ submits' = submits + 1
  /\ pc' = [pc EXCEPT ![s] = FirstStep(c)]
  /\ cmd' = [cmd EXCEPT ![s] = c]
  /\ first' = [first EXCEPT ![s] = FALSE]
  /\ answer' = [answer EXCEPT ![s] = "none"]
  /\ repeat' = IF Answered(c) THEN repeat \cup {s} ELSE repeat \ {s}
  /\ UNCHANGED <<books, biz, keys>>

\* The header's foreign key holds the business FOR KEY SHARE.
InsertHeader(s) ==
  /\ pc[s] = "header" /\ Blockers(s) = {}
  /\ biz' = [biz EXCEPT ![s] = @ \cup {"key"}]
  /\ pc' = [pc EXCEPT ![s] = "probe"]
  /\ UNCHANGED <<books, cmd, first, keys, answer, repeat, submits>>

TakeWorkflowKey(s) ==
  /\ pc[s] = "key" /\ Blockers(s) = {}
  /\ keys' = [keys EXCEPT ![s] = @ \cup {WorkflowKey(cmd[s])}]
  /\ pc' = [pc EXCEPT ![s] = "business"]
  /\ UNCHANGED <<books, cmd, first, biz, answer, repeat, submits>>

\* financial_started_at, read without a lock.
Probe(s) ==
  /\ pc[s] = "probe"
  /\ first' = [first EXCEPT ![s] = ~started]
  /\ pc' = [pc EXCEPT ![s] = "business"]
  /\ UNCHANGED <<books, cmd, biz, keys, answer, repeat, submits>>

\* A mutated form: the business row is read and not locked.
ReadBusiness(s) ==
  /\ pc[s] = "business"
  /\ pc' = [pc EXCEPT ![s] = IF Posts(cmd[s]) THEN "source" ELSE "decide"]
  /\ UNCHANGED <<books, cmd, first, biz, keys, answer, repeat, submits>>

LockBusiness(s) ==
  /\ pc[s] = "business" /\ Blockers(s) = {}
  /\ biz' = [biz EXCEPT ![s] = @ \cup {Mode(s)}]
  /\ pc' = [pc EXCEPT ![s] = IF Posts(cmd[s]) THEN "source" ELSE "decide"]
  /\ UNCHANGED <<books, cmd, first, keys, answer, repeat, submits>>

\* A mutated form: two transactions may work on one source at a time.
SkipSource(s) ==
  /\ pc[s] = "source"
  /\ pc' = [pc EXCEPT ![s] = "decide"]
  /\ UNCHANGED <<books, cmd, first, biz, keys, answer, repeat, submits>>

LockSource(s) ==
  /\ pc[s] = "source" /\ Blockers(s) = {}
  /\ keys' = [keys EXCEPT ![s] = @ \cup {SourceKey(cmd[s])}]
  /\ pc' = [pc EXCEPT ![s] = "decide"]
  /\ UNCHANGED <<books, cmd, first, biz, answer, repeat, submits>>

\* A mutated form: an advisory lock of the session, not of the transaction.
EndKeepingKeys(s, a) ==
  /\ pc' = [pc EXCEPT ![s] = "idle"]
  /\ biz' = [biz EXCEPT ![s] = {}]
  /\ answer' = [answer EXCEPT ![s] = a]
  /\ UNCHANGED <<cmd, first, keys, repeat, submits>>

\* The transaction ends and its locks are released.
End(s, a) ==
  /\ pc' = [pc EXCEPT ![s] = "idle"]
  /\ biz' = [biz EXCEPT ![s] = {}]
  /\ keys' = [keys EXCEPT ![s] = {}]
  /\ answer' = [answer EXCEPT ![s] = a]
  /\ UNCHANGED <<cmd, first, repeat, submits>>

Refuse(s) ==
  /\ pc[s] = "decide"
  /\ WrongCurrency(cmd[s]) \/ (~Answered(cmd[s]) /\ ~Admits(cmd[s]))
  /\ End(s, "refused")
  /\ UNCHANGED books

Replay(s) ==
  /\ pc[s] = "decide"
  /\ ~WrongCurrency(cmd[s]) /\ Answered(cmd[s])
  /\ End(s, "replayed")
  /\ UNCHANGED books

Accept(s) ==
  /\ pc[s] = "decide"
  /\ ~WrongCurrency(cmd[s]) /\ ~Answered(cmd[s]) /\ Admits(cmd[s])
  /\ pc' = [pc EXCEPT ![s] = "commit"]
  /\ UNCHANGED <<books, cmd, first, biz, keys, answer, repeat, submits>>

-----------------------------------------------------------------------------
\* What a transaction has written when it commits.

NewEntry(c) ==
  [id |-> Cardinality(entries), kind |-> c.kind, src |-> c.src, date |-> c.date,
   cur |-> IF c.kind = "reverse" THEN (CHOOSE e \in Originals(c) : TRUE).cur ELSE c.cur]

EntriesAfter(c) == IF Posts(c) THEN entries \cup {NewEntry(c)} ELSE entries

PeriodsAfter(c) ==
  CASE c.kind = "create" -> periods \cup {[start |-> c.date, end |-> c.last, closed |-> FALSE]}
    [] c.kind \in {"close", "reopen"} ->
         {IF p.start = c.date THEN [p EXCEPT !.closed = (c.kind = "close")] ELSE p : p \in periods}
    [] OTHER -> periods

\* A posted opening balance whose entry was reversed is superseded.
OpeningAfter(c) ==
  IF c.kind # "opening" THEN opening
  ELSE [o \in Sources |-> IF o = c.src THEN "posted"
                          ELSE IF opening[o] = "posted" /\ Reversed(o) THEN "superseded"
                          ELSE opening[o]]

\* A mutated form: the first posting leaves no mark.
StartedNever(c) == started

StartedAfter(c) == started \/ c.kind \in {"post", "document", "opening"}

Commit(s) ==
  /\ pc[s] = "commit"
  /\ entries' = EntriesAfter(cmd[s])
  /\ periods' = PeriodsAfter(cmd[s])
  /\ operations' = IF cmd[s].kind \in PeriodKinds THEN operations \cup {cmd[s]} ELSE operations
  /\ opening' = OpeningAfter(cmd[s])
  /\ currency' = IF cmd[s].kind = "currency" THEN cmd[s].cur ELSE currency
  /\ started' = StartedAfter(cmd[s])
  /\ End(s, "done")

\* The connection is lost: the transaction is rolled back.
Crash(s) ==
  /\ pc[s] # "idle"
  /\ End(s, "lost")
  /\ UNCHANGED books

\* A set of sessions each of which waits for another of them.
Deadlocked(S) == S # {} /\ \A s \in S : Blockers(s) \cap S # {}

\* PostgreSQL aborts one of them; nothing retries it.
AbortVictim(s) ==
  /\ \E S \in SUBSET Sessions : s \in S /\ Deadlocked(S)
  /\ End(s, "deadlock")
  /\ UNCHANGED books

Step(s) ==
  \/ InsertHeader(s) \/ TakeWorkflowKey(s) \/ Probe(s) \/ LockBusiness(s) \/ LockSource(s)
  \/ Refuse(s) \/ Replay(s) \/ Accept(s) \/ Commit(s) \/ AbortVictim(s)

Next ==
  \E s \in Sessions :
    \/ \E c \in Commands : Begin(s, c)
    \/ Step(s)
    \/ Crash(s)

Spec == Init /\ [][Next]_vars

\* A transaction that can go on does: the server runs every session.
FairSpec == Spec /\ \A s \in Sessions : WF_vars(Step(s))

-----------------------------------------------------------------------------
\* Type invariant.
TypeOK ==
  /\ \A e \in entries : e.kind \in Kinds /\ e.src \in Sources /\ e.date \in Nat \ {0} /\ e.cur \in Currencies
  /\ periods \subseteq [start : Nat \ {0}, end : Nat, closed : BOOLEAN]
  /\ \A p \in periods : p.start <= p.end
  /\ operations \subseteq Commands
  /\ opening \in [Sources -> {"draft", "posted", "superseded"}]
  /\ currency \in Currencies /\ started \in BOOLEAN
  /\ pc \in [Sessions -> {"idle", "header", "key", "probe", "business", "source", "decide", "commit"}]
  /\ cmd \in [Sessions -> Commands]
  /\ first \in [Sessions -> BOOLEAN] /\ repeat \subseteq Sessions
  /\ biz \in [Sessions -> SUBSET {"key", "share", "update"}]
  /\ keys \in [Sessions -> SUBSET ({WorkflowKey(c) : c \in Commands} \cup {SourceKey(c) : c \in Commands})]
  /\ answer \in [Sessions -> {"none", "refused", "replayed", "done", "lost", "deadlock"}]
  /\ submits \in 0..MaxSubmits

\* A close is final for everything up to its last day: no transaction, however
\* it was interleaved with the close, commits an entry dated on or before the
\* end of a closed period, neither inside it nor behind it (0049:684-764).
ClosedBooksFinal ==
  [][\A e \in entries' \ entries, p \in periods : p.closed => p.end < e.date]_vars

\* Periods neither overlap nor leave a gap, and no open period lies before a
\* closed one: what accounting_period_topology_check would refuse at commit
\* (0049:571) never reaches it, whatever create, close and reopen race.
TopologyHolds ==
  /\ \A p, q \in periods : p # q => p.end < q.start \/ q.end < p.start
  /\ \A p, q \in periods : p.start < q.start => \E r \in periods : r.start = p.end + 1
  /\ \A p, q \in periods : p.start < q.start /\ q.closed => p.closed

\* One entry for one source, one reversal for one entry, and one posted
\* opening balance at a time: what the unique constraints would refuse (0042,
\* 0046, 0047:115) never reaches them (the source lock, 0045:720).
OnePerSource ==
  /\ \A d, e \in entries : d.kind = e.kind /\ d.src = e.src => d = e
  /\ \A o, q \in Sources : opening[o] = "posted" /\ opening[q] = "posted" => o = q

\* The base currency changes before the first entry or not at all, although
\* the change and the first posting read `started` at the same time; and a
\* business is marked as started exactly when it has entries (R-ACC-09).
BooksInOneCurrency ==
  /\ \A e \in entries : e.cur = currency
  /\ entries # {} => started
  /\ started => HasHistory \/ entries # {}

\* A client that repeats a command that had taken effect is told so: the
\* period may have been closed, or closed again after its reopening, in
\* between (0049:663, 0045:730).  A superseded opening balance is refused.
RepeatsAreAnswered ==
  \A s \in repeat :
    answer[s] = "refused" => cmd[s].kind = "opening" /\ opening[cmd[s].src] = "superseded"

\* The periods move only under an operation whose identity has never been used:
\* a retried reopen does not open what was closed again since (0049:262).
OperationsOnce ==
  [][periods' # periods => \E o \in operations' : \A q \in operations : q.op # o.op]_vars

\* Every command ends.
CommandsEnd == \A s \in Sessions : pc[s] # "idle" ~> pc[s] = "idle"
=============================================================================
