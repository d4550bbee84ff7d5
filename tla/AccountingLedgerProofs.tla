------------------------ MODULE AccountingLedgerProofs ------------------------
(***************************************************************************)
(* What holds of the books for every set of sessions, commands and sources *)
(* (AccountingLedger).  The argument: a transaction keeps, until it ends,  *)
(* the locks it has taken; the locks of two transactions exclude each      *)
(* other; so what a transaction decided under its locks is still true      *)
(* when it commits, whatever committed in between.                         *)
(***************************************************************************)
EXTENDS AccountingLedger, TLAPS

\* Nobody holds the business row beside a FOR UPDATE, nor a key twice.
LocksExclude ==
  \A s, t \in Sessions : s # t =>
    /\ "update" \in biz[s] => biz[t] = {}
    /\ keys[s] \cap keys[t] = {}

\* A transaction past the business row holds it in its mode; one that has
\* decided about a source holds the key of the source.
LocksHeld ==
  \A s \in Sessions :
    /\ pc[s] \in {"source", "decide", "commit"} => Mode(s) \in biz[s]
    /\ pc[s] \in {"decide", "commit"} /\ Posts(cmd[s]) => SourceKey(cmd[s]) \in keys[s]

LockInv == LocksExclude /\ LocksHeld

\* What the decision of a command leaves true until it commits.
StillAdmitted(c) ==
  /\ Posts(c) => FreshSource(c) /\ PostingGuard(c)
  /\ c.kind \in {"post", "document", "opening"} => c.cur = currency
  /\ c.kind = "reverse" => Originals(c) # {}
  /\ c.kind = "opening" => opening[c.src] = "draft" /\ LiveOpenings(c) = {}
  /\ c.kind = "currency" => ~started
  /\ c.kind = "create" => MayCreate(c)
  /\ c.kind = "close" => \E p \in periods : p.start = c.date /\ MayClose(p)
  /\ c.kind = "reopen" => \E p \in periods : p.start = c.date /\ MayReopen(p)
  /\ c.kind \in PeriodKinds => FreshOperation(c)

DecisionsStand == \A s \in Sessions : pc[s] = "commit" => StillAdmitted(cmd[s])

BooksInv == TypeOK /\ LockInv /\ DecisionsStand /\ TopologyHolds /\ OnePerSource /\ BooksInOneCurrency

-----------------------------------------------------------------------------
\* The initial books.
THEOREM InitBooks == Init => BooksInv
<1> SUFFICES ASSUME Init PROVE BooksInv
  OBVIOUS
<1>1. \A s \in Sessions : cmd[s] \in Commands
  BY CommandAssumption DEF Init
<1>2. TypeOK
  BY <1>1, CommandAssumption DEF Init, TypeOK
<1>3. LockInv
  BY DEF Init, LockInv, LocksExclude, LocksHeld
<1>4. DecisionsStand /\ TopologyHolds /\ OnePerSource /\ BooksInOneCurrency
  BY DEF Init, DecisionsStand, TopologyHolds, OnePerSource, BooksInOneCurrency
<1> QED BY <1>2, <1>3, <1>4 DEF BooksInv

-----------------------------------------------------------------------------
\* Locks: one step per action.

\* A step that ends the transaction of s.
LEMMA EndKeepsLocks ==
  ASSUME TypeOK, LockInv, NEW s \in Sessions, NEW a, End(s, a)
  PROVE  LockInv'
<1>1. /\ biz' = [biz EXCEPT ![s] = {}] /\ keys' = [keys EXCEPT ![s] = {}]
      /\ pc' = [pc EXCEPT ![s] = "idle"] /\ cmd' = cmd /\ first' = first
  BY DEF End
<1>2. LocksExclude'
  BY <1>1 DEF LockInv, LocksExclude, TypeOK
<1>3. LocksHeld'
  BY <1>1 DEF LockInv, LocksHeld, TypeOK, Mode, SourceKey, Posts, PeriodKinds
<1> QED BY <1>2, <1>3 DEF LockInv

\* A step that takes a mode of the business row or a key that nobody's locks
\* stand against.
LEMMA TakingExcludes ==
  ASSUME LocksExclude, NEW s \in Sessions,
         \A t \in Sessions \ {s} :
           /\ biz'[t] = biz[t] /\ keys'[t] = keys[t]
           /\ "update" \in biz'[s] \ biz[s] => biz[t] = {}
           /\ "update" \in biz[t] => biz'[s] = biz[s]
           /\ (keys'[s] \ keys[s]) \cap keys[t] = {}
  PROVE  LocksExclude'
  BY DEF LocksExclude

LEMMA LocksStep ==
  ASSUME TypeOK, LockInv, [Next]_vars
  PROVE  LockInv'
<1>1. CASE UNCHANGED vars
  BY <1>1 DEF vars, LockInv, LocksExclude, LocksHeld, Mode, SourceKey, Posts, PeriodKinds
<1>2. ASSUME NEW s \in Sessions, NEW c \in Commands, Begin(s, c)
      PROVE  LockInv'
  BY <1>2 DEF Begin, FirstStep, LockInv, LocksExclude, LocksHeld, TypeOK, Mode, SourceKey, Posts
<1>3. ASSUME NEW s \in Sessions, InsertHeader(s) PROVE LockInv'
  <2>1. biz' = [biz EXCEPT ![s] = @ \cup {"key"}] /\ keys' = [keys EXCEPT ![s] = @ \cup {}]
    BY <1>3 DEF InsertHeader, TypeOK
  <2>2. BusinessBlockers(s, "key") = {}
    BY <1>3 DEF InsertHeader, Blockers
  <2>3. LocksExclude'
    <3>1. \A t \in Sessions \ {s} :
            /\ biz'[t] = biz[t] /\ keys'[t] = keys[t]
            /\ "update" \in biz'[s] \ biz[s] => biz[t] = {}
            /\ "update" \in biz[t] => biz'[s] = biz[s]
            /\ (keys'[s] \ keys[s]) \cap keys[t] = {}
      BY <2>1, <2>2 DEF TypeOK, BusinessBlockers, Conflicts
    <3> QED BY <3>1, TakingExcludes DEF LockInv
  <2>4. LocksHeld'
    BY <1>3 DEF InsertHeader, LockInv, LocksHeld, TypeOK, Mode, SourceKey, Posts
  <2> QED BY <2>3, <2>4 DEF LockInv
<1>4. ASSUME NEW s \in Sessions, TakeWorkflowKey(s) PROVE LockInv'
  <2>1. biz' = [biz EXCEPT ![s] = @ \cup {}] /\ keys' = [keys EXCEPT ![s] = @ \cup {WorkflowKey(cmd[s])}]
    BY <1>4 DEF TakeWorkflowKey, TypeOK
  <2>2. KeyBlockers(s, WorkflowKey(cmd[s])) = {}
    BY <1>4 DEF TakeWorkflowKey, Blockers
  <2>3. LocksExclude'
    <3>1. \A t \in Sessions \ {s} :
            /\ biz'[t] = biz[t] /\ keys'[t] = keys[t]
            /\ "update" \in biz'[s] \ biz[s] => biz[t] = {}
            /\ "update" \in biz[t] => biz'[s] = biz[s]
            /\ (keys'[s] \ keys[s]) \cap keys[t] = {}
      BY <2>1, <2>2 DEF TypeOK, KeyBlockers
    <3> QED BY <3>1, TakingExcludes DEF LockInv
  <2>4. LocksHeld'
    BY <1>4 DEF TakeWorkflowKey, LockInv, LocksHeld, TypeOK, Mode, SourceKey, Posts
  <2> QED BY <2>3, <2>4 DEF LockInv
<1>5. ASSUME NEW s \in Sessions, Probe(s) PROVE LockInv'
  BY <1>5 DEF Probe, LockInv, LocksExclude, LocksHeld, TypeOK, Mode, SourceKey, Posts
<1>6. ASSUME NEW s \in Sessions, LockBusiness(s) PROVE LockInv'
  <2>1. biz' = [biz EXCEPT ![s] = @ \cup {Mode(s)}] /\ keys' = [keys EXCEPT ![s] = @ \cup {}]
    BY <1>6 DEF LockBusiness, TypeOK
  <2>2. BusinessBlockers(s, Mode(s)) = {}
    BY <1>6 DEF LockBusiness, Blockers
  <2>3. LocksExclude'
    <3>1. \A t \in Sessions \ {s} :
            /\ biz'[t] = biz[t] /\ keys'[t] = keys[t]
            /\ "update" \in biz'[s] \ biz[s] => biz[t] = {}
            /\ "update" \in biz[t] => biz'[s] = biz[s]
            /\ (keys'[s] \ keys[s]) \cap keys[t] = {}
      BY <2>1, <2>2 DEF TypeOK, BusinessBlockers, Conflicts
    <3> QED BY <3>1, TakingExcludes DEF LockInv
  <2>4. cmd' = cmd /\ first' = first /\ keys' = keys
        /\ pc' = [pc EXCEPT ![s] = IF Posts(cmd[s]) THEN "source" ELSE "decide"]
    BY <1>6 DEF LockBusiness
  <2>5. \A t \in Sessions : Mode(t)' = Mode(t) /\ SourceKey(cmd[t])' = SourceKey(cmd[t]) /\ Posts(cmd[t])' = Posts(cmd[t])
    BY <2>4 DEF Mode, SourceKey, Posts
  <2>6. LocksHeld'
    BY <2>1, <2>4, <2>5 DEF LockInv, LocksHeld, TypeOK
  <2> QED BY <2>3, <2>6 DEF LockInv
<1>7. ASSUME NEW s \in Sessions, LockSource(s) PROVE LockInv'
  <2>1. biz' = [biz EXCEPT ![s] = @ \cup {}] /\ keys' = [keys EXCEPT ![s] = @ \cup {SourceKey(cmd[s])}]
    BY <1>7 DEF LockSource, TypeOK
  <2>2. KeyBlockers(s, SourceKey(cmd[s])) = {}
    BY <1>7 DEF LockSource, Blockers
  <2>3. LocksExclude'
    <3>1. \A t \in Sessions \ {s} :
            /\ biz'[t] = biz[t] /\ keys'[t] = keys[t]
            /\ "update" \in biz'[s] \ biz[s] => biz[t] = {}
            /\ "update" \in biz[t] => biz'[s] = biz[s]
            /\ (keys'[s] \ keys[s]) \cap keys[t] = {}
      BY <2>1, <2>2 DEF TypeOK, KeyBlockers
    <3> QED BY <3>1, TakingExcludes DEF LockInv
  <2>4. cmd' = cmd /\ first' = first /\ pc' = [pc EXCEPT ![s] = "decide"] /\ pc[s] = "source"
    BY <1>7 DEF LockSource
  <2>5. \A t \in Sessions : Mode(t)' = Mode(t) /\ SourceKey(cmd[t])' = SourceKey(cmd[t]) /\ Posts(cmd[t])' = Posts(cmd[t])
    BY <2>4 DEF Mode, SourceKey, Posts
  <2>6. LocksHeld'
    BY <2>1, <2>4, <2>5 DEF LockInv, LocksHeld, TypeOK
  <2> QED BY <2>3, <2>6 DEF LockInv
<1>8. ASSUME NEW s \in Sessions, Accept(s) PROVE LockInv'
  BY <1>8 DEF Accept, LockInv, LocksExclude, LocksHeld, TypeOK, Mode, SourceKey, Posts
<1>9. ASSUME NEW s \in Sessions, Refuse(s) \/ Replay(s) \/ Commit(s) \/ AbortVictim(s) \/ Crash(s)
      PROVE  LockInv'
  <2>1. \E a : End(s, a)
    BY <1>9 DEF Refuse, Replay, Commit, AbortVictim, Crash
  <2> QED BY <2>1, EndKeepsLocks
<1> QED
  BY <1>1, <1>2, <1>3, <1>4, <1>5, <1>6, <1>7, <1>8, <1>9 DEF Next, Step

-----------------------------------------------------------------------------
\* Decisions: true when made, and true when committed.

LEMMA SameBooksSameDecision ==
  ASSUME UNCHANGED books, NEW s \in Sessions, cmd'[s] = cmd[s], StillAdmitted(cmd[s])
  PROVE  StillAdmitted(cmd[s])'
<1>1. /\ entries' = entries /\ periods' = periods /\ opening' = opening
      /\ currency' = currency /\ started' = started /\ operations' = operations
  BY DEF books
<1> QED
  BY <1>1 DEF StillAdmitted, FreshOperation, Posts, FreshSource, SourceKey, PostingGuard, Covers, ClosedHistory,
              Originals, LiveOpenings, Reversed, MayCreate, Earliest, Latest, MayClose, MayReopen

\* What Accept saw is what the commit needs.
LEMMA AcceptDecides ==
  ASSUME TypeOK, NEW s \in Sessions, Accept(s)
  PROVE  StillAdmitted(cmd[s])
<1> DEFINE c == cmd[s]
<1> SUFFICES StillAdmitted(c)
  OBVIOUS
<1>1. c \in Commands /\ c.kind \in Kinds
  BY CommandAssumption DEF TypeOK
<1>2. Admits(c) /\ ~WrongCurrency(c)
  BY DEF Accept
<1> HIDE DEF c
<1>3. CASE c.kind \in {"post", "document"}
  BY <1>2, <1>3 DEF Admits, WrongCurrency, StillAdmitted, PeriodKinds
<1>4. CASE c.kind \in {"opening", "reverse"}
  BY <1>2, <1>4 DEF Admits, StillAdmitted, PeriodKinds
<1>5. CASE c.kind \in {"create", "close", "reopen", "currency"}
  BY <1>2, <1>5 DEF Admits, StillAdmitted, Posts, PeriodKinds
<1> QED BY <1>1, <1>3, <1>4, <1>5 DEF Kinds

\* Of two transactions about to commit neither holds the business alone.
LEMMA TwoCommits ==
  ASSUME TypeOK, LockInv, NEW s \in Sessions, NEW t \in Sessions, s # t,
         pc[s] = "commit", pc[t] = "commit"
  PROVE  cmd[s].kind \in {"post", "document", "reverse"} /\ ~first[s]
<1>1. Mode(s) \in biz[s] /\ Mode(t) \in biz[t]
  BY DEF LockInv, LocksHeld
<1>2. Mode(s) # "update"
  BY <1>1 DEF LockInv, LocksExclude
<1>3. cmd[s].kind \in Kinds
  BY CommandAssumption DEF TypeOK
<1> QED BY <1>2, <1>3 DEF Mode, Kinds, PeriodKinds

LEMMA DecisionsStep ==
  ASSUME TypeOK, LockInv, DecisionsStand, [Next]_vars
  PROVE  DecisionsStand'
<1> SUFFICES ASSUME NEW s \in Sessions, pc'[s] = "commit"
             PROVE  StillAdmitted(cmd[s])'
  BY DEF DecisionsStand
<1>1. CASE UNCHANGED vars
  BY <1>1, SameBooksSameDecision DEF vars, books, DecisionsStand
<1>2. ASSUME NEW t \in Sessions, NEW c \in Commands, Begin(t, c)
      PROVE  StillAdmitted(cmd[s])'
  <2>1. pc[s] = "commit" /\ cmd'[s] = cmd[s] /\ UNCHANGED books
    BY <1>2 DEF Begin, FirstStep, TypeOK
  <2> QED BY <2>1, SameBooksSameDecision DEF DecisionsStand
<1>3. ASSUME NEW t \in Sessions,
             \/ InsertHeader(t) \/ TakeWorkflowKey(t) \/ Probe(t) \/ LockBusiness(t) \/ LockSource(t)
             \/ Refuse(t) \/ Replay(t) \/ AbortVictim(t) \/ Crash(t)
      PROVE  StillAdmitted(cmd[s])'
  <2>1. pc[s] = "commit" /\ cmd'[s] = cmd[s] /\ UNCHANGED books
    BY <1>3 DEF InsertHeader, TakeWorkflowKey, Probe, LockBusiness, LockSource, Refuse, Replay,
                AbortVictim, Crash, End, TypeOK
  <2> QED BY <2>1, SameBooksSameDecision DEF DecisionsStand
<1>4. ASSUME NEW t \in Sessions, Accept(t) PROVE StillAdmitted(cmd[s])'
  <2>1. cmd'[s] = cmd[s] /\ UNCHANGED books
    BY <1>4 DEF Accept
  <2>2. StillAdmitted(cmd[s])
    BY <1>4, AcceptDecides DEF Accept, DecisionsStand, TypeOK
  <2> QED BY <2>1, <2>2, SameBooksSameDecision
<1>5. ASSUME NEW t \in Sessions, Commit(t) PROVE StillAdmitted(cmd[s])'
  <2>1. pc[s] = "commit" /\ pc[t] = "commit" /\ s # t /\ cmd' = cmd
    BY <1>5 DEF Commit, End, TypeOK
  <2>2. cmd[s].kind \in {"post", "document", "reverse"} /\ cmd[t].kind \in {"post", "document", "reverse"}
    BY <2>1, TwoCommits
  <2>3. entries' = entries \cup {NewEntry(cmd[t])} /\ periods' = periods /\ opening' = opening /\ currency' = currency
    BY <1>5, <2>2 DEF Commit, EntriesAfter, PeriodsAfter, OpeningAfter, Posts
  <2>4. SourceKey(cmd[s]) \in keys[s] /\ SourceKey(cmd[t]) \in keys[t]
    BY <2>1, <2>2 DEF LockInv, LocksHeld, Posts
  <2>5. SourceKey(cmd[s]) # SourceKey(cmd[t])
    BY <2>1, <2>4 DEF LockInv, LocksExclude
  <2>6. <<NewEntry(cmd[t]).kind, NewEntry(cmd[t]).src>> = SourceKey(cmd[t])
    BY DEF NewEntry, SourceKey
  <2>7. StillAdmitted(cmd[s])
    BY <2>1 DEF DecisionsStand
  <2>8. FreshSource(cmd[s])'
    BY <2>1, <2>2, <2>3, <2>5, <2>6, <2>7 DEF StillAdmitted, Posts, FreshSource, SourceKey
  <2>9. PostingGuard(cmd[s])'
    BY <2>1, <2>2, <2>3, <2>7 DEF StillAdmitted, Posts, PostingGuard, Covers, ClosedHistory
  <2>10. cmd[s].kind = "reverse" => (Originals(cmd[s]) # {})'
    BY <2>1, <2>3, <2>7 DEF StillAdmitted, Originals
  <2>11. cmd[s].kind # "reverse" => cmd[s].cur = currency'
    BY <2>2, <2>3, <2>7 DEF StillAdmitted
  <2> QED BY <2>1, <2>2, <2>8, <2>9, <2>10, <2>11 DEF StillAdmitted, PeriodKinds
<1> QED BY <1>1, <1>2, <1>3, <1>4, <1>5 DEF Next, Step

-----------------------------------------------------------------------------
\* The books after a commit.

\* Every step but a commit leaves the books alone.
LEMMA OnlyCommitsWrite ==
  ASSUME [Next]_vars
  PROVE  UNCHANGED books \/ \E s \in Sessions : Commit(s)
  BY DEF Next, Step, Begin, InsertHeader, TakeWorkflowKey, Probe, LockBusiness, LockSource, Refuse,
         Replay, Accept, AbortVictim, Crash, vars, books

LEMMA TypeStep ==
  ASSUME TypeOK, DecisionsStand, [Next]_vars
  PROVE  TypeOK'
<1> DEFINE Steps == {"idle", "header", "key", "probe", "business", "source", "decide", "commit"}
           Taken == {WorkflowKey(c) : c \in Commands} \cup {SourceKey(c) : c \in Commands}
           Endings == {"refused", "replayed", "done", "lost", "deadlock"}
<1>1. CASE UNCHANGED vars
  BY <1>1 DEF vars, TypeOK
<1>2. ASSUME NEW s \in Sessions, NEW c \in Commands, Begin(s, c) PROVE TypeOK'
  <2>1. submits' \in 0..MaxSubmits
    BY <1>2, CommandAssumption DEF Begin, TypeOK
  <2> QED BY <1>2, <2>1 DEF Begin, FirstStep, TypeOK, books
<1>3. ASSUME NEW s \in Sessions,
             InsertHeader(s) \/ TakeWorkflowKey(s) \/ Probe(s) \/ LockBusiness(s) \/ LockSource(s) \/ Accept(s)
      PROVE  TypeOK'
  <2>1. WorkflowKey(cmd[s]) \in Taken /\ SourceKey(cmd[s]) \in Taken
    BY DEF TypeOK
  <2>2. Mode(s) \in {"share", "update"}
    BY DEF Mode
  <2>3. UNCHANGED <<entries, periods, operations, opening, currency, started, cmd, answer, repeat, submits>>
    BY <1>3 DEF InsertHeader, TakeWorkflowKey, Probe, LockBusiness, LockSource, Accept, books
  <2>4. pc' \in [Sessions -> Steps]
    BY <1>3 DEF InsertHeader, TakeWorkflowKey, Probe, LockBusiness, LockSource, Accept, TypeOK
  <2>5. first' \in [Sessions -> BOOLEAN]
    BY <1>3 DEF InsertHeader, TakeWorkflowKey, Probe, LockBusiness, LockSource, Accept, TypeOK
  <2>6. biz' \in [Sessions -> SUBSET {"key", "share", "update"}]
    BY <1>3, <2>2 DEF InsertHeader, TakeWorkflowKey, Probe, LockBusiness, LockSource, Accept, TypeOK
  <2>7. keys' \in [Sessions -> SUBSET Taken]
    BY <1>3, <2>1 DEF InsertHeader, TakeWorkflowKey, Probe, LockBusiness, LockSource, Accept, TypeOK
  <2> QED BY <2>3, <2>4, <2>5, <2>6, <2>7 DEF TypeOK
<1>4. ASSUME NEW s \in Sessions, NEW a \in Endings, End(s, a)
      PROVE  /\ pc' \in [Sessions -> Steps] /\ cmd' \in [Sessions -> Commands]
             /\ first' \in [Sessions -> BOOLEAN] /\ repeat' \subseteq Sessions
             /\ biz' \in [Sessions -> SUBSET {"key", "share", "update"}]
             /\ keys' \in [Sessions -> SUBSET Taken]
             /\ answer' \in [Sessions -> {"none"} \cup Endings]
             /\ submits' \in 0..MaxSubmits
  BY <1>4 DEF End, TypeOK
<1>5. ASSUME NEW s \in Sessions, Refuse(s) \/ Replay(s) \/ AbortVictim(s) \/ Crash(s) PROVE TypeOK'
  <2>1. UNCHANGED books
    BY <1>5 DEF Refuse, Replay, AbortVictim, Crash
  <2>2. \E a \in Endings : End(s, a)
    BY <1>5 DEF Refuse, Replay, AbortVictim, Crash
  <2> QED BY <1>4, <2>1, <2>2 DEF TypeOK, books
<1>6. ASSUME NEW s \in Sessions, Commit(s) PROVE TypeOK'
  <2> DEFINE c == cmd[s]
  <2>1. c \in Commands /\ StillAdmitted(c)
    BY <1>6 DEF Commit, DecisionsStand, TypeOK
  <2>2. /\ c.kind \in Kinds /\ c.src \in Sources /\ c.cur \in Currencies
        /\ c.date \in Nat \ {0} /\ c.last \in Nat /\ c.date <= c.last
    BY <2>1, CommandAssumption
  <2>3. End(s, "done")
    BY <1>6 DEF Commit
  <2>4. /\ entries' = EntriesAfter(c) /\ periods' = PeriodsAfter(c)
        /\ operations' = (IF c.kind \in PeriodKinds THEN operations \cup {c} ELSE operations)
        /\ opening' = OpeningAfter(c) /\ started' = StartedAfter(c)
        /\ currency' = (IF c.kind = "currency" THEN c.cur ELSE currency)
    BY <1>6 DEF Commit
  <2> HIDE DEF c
  <2>5. ASSUME c.kind = "reverse" PROVE (CHOOSE e \in Originals(c) : TRUE).cur \in Currencies
    <3>1. Originals(c) # {} /\ Originals(c) \subseteq entries
      BY <2>1, <2>5 DEF StillAdmitted, Originals
    <3>2. (CHOOSE e \in Originals(c) : TRUE) \in Originals(c)
      BY <3>1
    <3> QED BY <3>1, <3>2 DEF TypeOK
  <2>6. \A e \in EntriesAfter(c) :
          e.kind \in Kinds /\ e.src \in Sources /\ e.date \in Nat \ {0} /\ e.cur \in Currencies
    <3>1. LET e == NewEntry(c) IN
            e.kind \in Kinds /\ e.src \in Sources /\ e.date \in Nat \ {0} /\ e.cur \in Currencies
      BY <2>2, <2>5 DEF NewEntry
    <3> QED BY <3>1 DEF EntriesAfter, TypeOK
  <2>7. PeriodsAfter(c) \subseteq [start : Nat \ {0}, end : Nat, closed : BOOLEAN]
        /\ \A p \in PeriodsAfter(c) : p.start <= p.end
    <3>1. CASE c.kind = "create"
      <4>1. PeriodsAfter(c) = periods \cup {[start |-> c.date, end |-> c.last, closed |-> FALSE]}
        BY <3>1 DEF PeriodsAfter
      <4>2. [start |-> c.date, end |-> c.last, closed |-> FALSE] \in [start : Nat \ {0}, end : Nat, closed : BOOLEAN]
        BY <2>2
      <4>3. PeriodsAfter(c) \subseteq [start : Nat \ {0}, end : Nat, closed : BOOLEAN]
        BY <4>1, <4>2, Zenon DEF TypeOK
      <4>4. ASSUME NEW p \in PeriodsAfter(c) PROVE p.start <= p.end
        <5>1. CASE p \in periods
          BY <5>1 DEF TypeOK
        <5>2. CASE p = [start |-> c.date, end |-> c.last, closed |-> FALSE]
          BY <2>2, <5>2
        <5> QED BY <4>1, <5>1, <5>2
      <4> QED BY <4>3, <4>4
    <3>2. CASE c.kind \in {"close", "reopen"}
      <4>1. \A p \in periods : LET q == [p EXCEPT !.closed = (c.kind = "close")] IN
              q \in [start : Nat \ {0}, end : Nat, closed : BOOLEAN] /\ q.start <= q.end
        <5>1. ASSUME NEW p \in [start : Nat \ {0}, end : Nat, closed : BOOLEAN], NEW b \in BOOLEAN, p.start <= p.end
              PROVE  LET q == [p EXCEPT !.closed = b] IN
                       q \in [start : Nat \ {0}, end : Nat, closed : BOOLEAN] /\ q.start <= q.end
          BY ONLY <5>1
        <5>2. (c.kind = "close") \in BOOLEAN
          OBVIOUS
        <5>3. \A p \in periods : p \in [start : Nat \ {0}, end : Nat, closed : BOOLEAN] /\ p.start <= p.end
          BY DEF TypeOK
        <5> QED BY ONLY <5>1, <5>2, <5>3, Zenon
      <4> QED BY <3>2, <4>1 DEF PeriodsAfter, TypeOK
    <3> QED BY <3>1, <3>2 DEF PeriodsAfter, TypeOK
  <2>8. /\ (IF c.kind \in PeriodKinds THEN operations \cup {c} ELSE operations) \subseteq Commands
        /\ OpeningAfter(c) \in [Sources -> {"draft", "posted", "superseded"}]
        /\ (IF c.kind = "currency" THEN c.cur ELSE currency) \in Currencies
        /\ StartedAfter(c) \in BOOLEAN
    BY <2>1, <2>2 DEF OpeningAfter, StartedAfter, TypeOK
  <2> QED BY <1>4, <2>3, <2>4, <2>6, <2>7, <2>8 DEF TypeOK
<1> QED
  BY <1>1, <1>2, <1>3, <1>5, <1>6 DEF Next, Step

-----------------------------------------------------------------------------
\* Periods.

LEMMA CreateKeepsTopology ==
  ASSUME TypeOK, TopologyHolds, NEW c \in Commands, MayCreate(c),
         periods' = periods \cup {[start |-> c.date, end |-> c.last, closed |-> FALSE]}
  PROVE  TopologyHolds'
<1> DEFINE n == [start |-> c.date, end |-> c.last, closed |-> FALSE]
<1>1. /\ n.start = c.date /\ n.end = c.last /\ n.closed = FALSE
      /\ n.start \in Nat /\ n.end \in Nat /\ n.start <= n.end
  BY CommandAssumption
<1>2. \A p \in periods : p.start \in Nat /\ p.end \in Nat /\ p.start <= p.end
  BY DEF TypeOK
<1>3. \A p \in periods : n.end < p.start \/ p.end < n.start
  BY <1>1 DEF MayCreate
<1>4. \/ periods = {}
      \/ \E p \in periods : Latest(p) /\ n.start = p.end + 1
      \/ (\E p \in periods : Earliest(p) /\ p.start = n.end + 1) /\ ~ClosedHistory
  BY <1>1 DEF MayCreate
<1>5. periods' = periods \cup {n}
  OBVIOUS
<1> HIDE DEF n
<1>6. \A p, q \in periods' : p # q => p.end < q.start \/ q.end < p.start
  BY <1>1, <1>2, <1>3, <1>5 DEF TopologyHolds
<1>7. ASSUME NEW p \in periods', NEW q \in periods', p.start < q.start
      PROVE  \E r \in periods' : r.start = p.end + 1
  <2>1. CASE p \in periods /\ q \in periods
    BY <1>5, <1>7, <2>1 DEF TopologyHolds
  <2>2. CASE p \in periods /\ q = n
    <3>1. PICK l \in periods : Latest(l) /\ n.start = l.end + 1
      <4>1. ASSUME NEW f \in periods, Earliest(f), f.start = n.end + 1 PROVE FALSE
        BY <1>1, <1>2, <1>7, <2>2, <4>1 DEF Earliest
      <4> QED BY <1>4, <2>2, <4>1
    <3>2. CASE p = l
      BY <1>5, <3>1, <3>2
    <3>3. CASE p # l
      <4>1. p.start < l.start
        BY <1>2, <2>2, <3>1, <3>3 DEF Latest, TopologyHolds
      <4> QED BY <1>5, <2>2, <3>1, <4>1 DEF TopologyHolds
    <3> QED BY <3>2, <3>3
  <2>3. CASE p = n /\ q \in periods
    <3>1. PICK f \in periods : Earliest(f) /\ f.start = n.end + 1
      <4>1. ASSUME NEW l \in periods, Latest(l), n.start = l.end + 1 PROVE FALSE
        BY <1>1, <1>2, <1>7, <2>3, <4>1 DEF Latest
      <4> QED BY <1>4, <2>3, <4>1
    <3> QED BY <1>5, <2>3, <3>1
  <2> QED BY <1>1, <1>5, <1>7, <2>1, <2>2, <2>3
<1>8. ASSUME NEW p \in periods', NEW q \in periods', p.start < q.start, q.closed
      PROVE  p.closed
  <2>1. q \in periods
    BY <1>1, <1>5, <1>8
  <2>2. CASE p \in periods
    BY <1>8, <2>1, <2>2 DEF TopologyHolds
  <2>3. CASE p = n
    <3>1. ClosedHistory
      BY <1>8, <2>1 DEF ClosedHistory
    <3>2. PICK l \in periods : Latest(l) /\ n.start = l.end + 1
      BY <1>4, <2>1, <3>1
    <3> QED BY <1>1, <1>2, <1>8, <2>1, <2>3, <3>2 DEF Latest
  <2> QED BY <1>5, <2>2, <2>3
<1> QED BY <1>6, <1>7, <1>8 DEF TopologyHolds

\* Closing or reopening the period that begins on a day changes nothing else.
LEMMA TurnKeepsTopology ==
  ASSUME TypeOK, TopologyHolds, NEW d, NEW b \in BOOLEAN, NEW o \in periods, o.start = d,
         b => MayClose(o), ~b => MayReopen(o),
         periods' = {IF p.start = d THEN [p EXCEPT !.closed = b] ELSE p : p \in periods}
  PROVE  TopologyHolds'
<1>1. \A p \in periods : p.start \in Nat /\ p.end \in Nat /\ p.start <= p.end /\ p.closed \in BOOLEAN
  BY DEF TypeOK
<1> DEFINE Turned(p) == IF p.start = d THEN [p EXCEPT !.closed = b] ELSE p
<1>2. \A p \in periods :
        /\ Turned(p).start = p.start /\ Turned(p).end = p.end
        /\ Turned(p).closed = (IF p.start = d THEN b ELSE p.closed)
  BY DEF TypeOK
<1>3. periods' = {Turned(p) : p \in periods}
  OBVIOUS
<1> HIDE DEF Turned
<1>4. ASSUME NEW r \in periods', NEW t \in periods', r # t
      PROVE  r.end < t.start \/ t.end < r.start
  <2>1. PICK p \in periods : r.start = p.start /\ r.end = p.end /\ r = Turned(p)
    BY <1>2, <1>3
  <2>2. PICK q \in periods : t.start = q.start /\ t.end = q.end /\ t = Turned(q)
    BY <1>2, <1>3
  <2>3. p # q
    BY <1>4, <2>1, <2>2
  <2> QED BY <2>1, <2>2, <2>3 DEF TopologyHolds
<1>5. ASSUME NEW r \in periods', NEW t \in periods', r.start < t.start
      PROVE  \E u \in periods' : u.start = r.end + 1
  <2>1. PICK p \in periods : r.start = p.start /\ r.end = p.end
    BY <1>2, <1>3
  <2>2. PICK q \in periods : t.start = q.start
    BY <1>2, <1>3
  <2>3. PICK v \in periods : v.start = p.end + 1
    BY <1>5, <2>1, <2>2 DEF TopologyHolds
  <2> QED BY <2>1, <2>3, <1>2, <1>3
<1>6. ASSUME NEW r \in periods', NEW t \in periods', r.start < t.start, t.closed
      PROVE  r.closed
  <2>1. PICK p \in periods : r.start = p.start /\ r.closed = (IF p.start = d THEN b ELSE p.closed)
    BY <1>2, <1>3
  <2>2. PICK q \in periods : t.start = q.start /\ t.closed = (IF q.start = d THEN b ELSE q.closed)
    BY <1>2, <1>3
  <2>3. CASE b
    BY <1>1, <1>6, <2>1, <2>2, <2>3 DEF MayClose, TopologyHolds
  <2>4. CASE ~b
    BY <1>1, <1>6, <2>1, <2>2, <2>4 DEF MayReopen, TopologyHolds
  <2> QED BY <2>3, <2>4
<1> QED BY <1>4, <1>5, <1>6 DEF TopologyHolds

LEMMA TopologyStep ==
  ASSUME TypeOK, DecisionsStand, TopologyHolds, [Next]_vars
  PROVE  TopologyHolds'
<1>1. CASE UNCHANGED books
  BY <1>1 DEF books, TopologyHolds
<1>2. ASSUME NEW s \in Sessions, Commit(s) PROVE TopologyHolds'
  <2> DEFINE c == cmd[s]
  <2>1. c \in Commands /\ StillAdmitted(c) /\ periods' = PeriodsAfter(c)
    BY <1>2 DEF Commit, DecisionsStand, TypeOK
  <2> HIDE DEF c
  <2>2. CASE c.kind = "create"
    BY <2>1, <2>2, CreateKeepsTopology DEF StillAdmitted, PeriodsAfter
  <2>3. CASE c.kind = "close"
    <3>1. PICK o \in periods : o.start = c.date /\ MayClose(o)
      BY <2>1, <2>3 DEF StillAdmitted
    <3>2. periods' = {IF p.start = c.date THEN [p EXCEPT !.closed = TRUE] ELSE p : p \in periods}
      BY <2>1, <2>3 DEF PeriodsAfter
    <3> QED BY <3>1, <3>2, TurnKeepsTopology
  <2>4. CASE c.kind = "reopen"
    <3>1. PICK o \in periods : o.start = c.date /\ MayReopen(o)
      BY <2>1, <2>4 DEF StillAdmitted
    <3>2. periods' = {IF p.start = c.date THEN [p EXCEPT !.closed = FALSE] ELSE p : p \in periods}
      BY <2>1, <2>4 DEF PeriodsAfter
    <3> QED BY <3>1, <3>2, TurnKeepsTopology
  <2>5. CASE c.kind \notin PeriodKinds
    BY <2>1, <2>5 DEF PeriodsAfter, PeriodKinds, TopologyHolds
  <2> QED BY <2>2, <2>3, <2>4, <2>5 DEF PeriodKinds
<1> QED BY <1>1, <1>2, OnlyCommitsWrite

-----------------------------------------------------------------------------
\* Entries.

LEMMA SourcesStep ==
  ASSUME TypeOK, DecisionsStand, OnePerSource, [Next]_vars
  PROVE  OnePerSource'
<1>1. CASE UNCHANGED books
  BY <1>1 DEF books, OnePerSource
<1>2. ASSUME NEW s \in Sessions, Commit(s) PROVE OnePerSource'
  <2> DEFINE c == cmd[s]
  <2>1. /\ c \in Commands /\ StillAdmitted(c)
        /\ entries' = EntriesAfter(c) /\ opening' = OpeningAfter(c)
    BY <1>2 DEF Commit, DecisionsStand, TypeOK
  <2> HIDE DEF c
  <2>2. \A d, e \in EntriesAfter(c) : d.kind = e.kind /\ d.src = e.src => d = e
    <3>1. CASE Posts(c)
      <4>1. NewEntry(c).kind = c.kind /\ NewEntry(c).src = c.src
        BY DEF NewEntry
      <4>2. \A e \in entries : ~(e.kind = c.kind /\ e.src = c.src)
        BY <2>1, <3>1 DEF StillAdmitted, FreshSource, SourceKey
      <4>3. EntriesAfter(c) = entries \cup {NewEntry(c)}
        BY <3>1 DEF EntriesAfter
      <4> QED BY <4>1, <4>2, <4>3 DEF OnePerSource
    <3>2. CASE ~Posts(c)
      BY <3>2 DEF EntriesAfter, OnePerSource
    <3> QED BY <3>1, <3>2
  <2>3. \A o, q \in Sources : OpeningAfter(c)[o] = "posted" /\ OpeningAfter(c)[q] = "posted" => o = q
    BY <2>1 DEF StillAdmitted, LiveOpenings, OpeningAfter, OnePerSource
  <2> QED BY <2>1, <2>2, <2>3 DEF OnePerSource
<1> QED BY <1>1, <1>2, OnlyCommitsWrite

LEMMA CurrencyStep ==
  ASSUME TypeOK, DecisionsStand, BooksInOneCurrency, [Next]_vars
  PROVE  BooksInOneCurrency'
<1>1. CASE UNCHANGED books
  BY <1>1 DEF books, BooksInOneCurrency
<1>2. ASSUME NEW s \in Sessions, Commit(s) PROVE BooksInOneCurrency'
  <2> DEFINE c == cmd[s]
  <2>1. /\ c \in Commands /\ StillAdmitted(c)
        /\ entries' = EntriesAfter(c) /\ started' = StartedAfter(c)
        /\ currency' = (IF c.kind = "currency" THEN c.cur ELSE currency)
    BY <1>2 DEF Commit, DecisionsStand, TypeOK
  <2> HIDE DEF c
  <2>2. CASE c.kind = "currency"
    <3>1. entries = {} /\ ~started
      BY <2>1, <2>2 DEF StillAdmitted, BooksInOneCurrency
    <3>2. entries' = entries /\ ~started'
      BY <2>1, <2>2, <3>1 DEF EntriesAfter, StartedAfter, Posts
    <3> QED BY <3>1, <3>2 DEF BooksInOneCurrency
  <2>3. CASE c.kind \in {"post", "document", "opening"}
    <3>1. NewEntry(c).cur = currency
      BY <2>1, <2>3 DEF StillAdmitted, NewEntry
    <3>2. entries' = entries \cup {NewEntry(c)} /\ started' /\ currency' = currency
      BY <2>1, <2>3 DEF EntriesAfter, Posts, StartedAfter
    <3> QED BY <3>1, <3>2 DEF BooksInOneCurrency
  <2>4. CASE c.kind = "reverse"
    <3>1. Originals(c) # {} /\ Originals(c) \subseteq entries
      BY <2>1, <2>4 DEF StillAdmitted, Originals
    <3>2. (CHOOSE e \in Originals(c) : TRUE) \in Originals(c)
      BY <3>1
    <3>3. NewEntry(c).cur = currency /\ started
      BY <2>4, <3>1, <3>2 DEF NewEntry, BooksInOneCurrency
    <3> QED BY <2>1, <2>4, <3>3 DEF EntriesAfter, StartedAfter, BooksInOneCurrency
  <2>5. CASE c.kind \in PeriodKinds
    BY <2>1, <2>5 DEF EntriesAfter, Posts, PeriodKinds, StartedAfter, BooksInOneCurrency
  <2> QED BY <2>1, <2>2, <2>3, <2>4, <2>5, CommandAssumption DEF Kinds, PeriodKinds
<1> QED BY <1>1, <1>2, OnlyCommitsWrite

\* An open period that covers a day has every closed period behind it.
LEMMA GuardMeansBehind ==
  ASSUME TypeOK, TopologyHolds, NEW c \in Commands, PostingGuard(c), NEW p \in periods, p.closed
  PROVE  p.end < c.date
<1>1. PICK o \in periods : Covers(o, c.date) /\ ~o.closed
  BY DEF PostingGuard, ClosedHistory
<1>2. o.start \in Nat /\ p.start \in Nat /\ o.end \in Nat /\ p.end \in Nat /\ p.start <= p.end /\ o.start <= o.end
  BY DEF TypeOK
<1>3. o.start <= c.date /\ c.date \in Nat
  BY <1>1, CommandAssumption DEF Covers
<1>4. p # o /\ ~(o.start < p.start)
  BY <1>1 DEF TopologyHolds
<1> QED BY <1>2, <1>3, <1>4 DEF TopologyHolds

LEMMA ClosedStep ==
  ASSUME TypeOK, DecisionsStand, TopologyHolds, [Next]_vars
  PROVE  \A e \in entries' \ entries, p \in periods : p.closed => p.end < e.date
<1>1. CASE UNCHANGED books
  BY <1>1 DEF books
<1>2. ASSUME NEW s \in Sessions, Commit(s)
      PROVE  \A e \in entries' \ entries, p \in periods : p.closed => p.end < e.date
  <2> DEFINE c == cmd[s]
  <2>1. c \in Commands /\ StillAdmitted(c) /\ entries' = EntriesAfter(c)
    BY <1>2 DEF Commit, DecisionsStand, TypeOK
  <2> HIDE DEF c
  <2>2. Posts(c) => PostingGuard(c)
    BY <2>1 DEF StillAdmitted
  <2>3. \A e \in entries' \ entries : Posts(c) /\ e.date = c.date
    BY <2>1 DEF EntriesAfter, NewEntry
  <2> QED BY <2>1, <2>2, <2>3, GuardMeansBehind
<1> QED BY <1>1, <1>2, OnlyCommitsWrite

-----------------------------------------------------------------------------
\* Commands that are repeated.

\* The command was carried out, whatever has happened since: its entry or its
\* operation is there, its opening balance is at most superseded.
TookEffect(c) ==
  /\ c.kind # "currency"
  /\ c.kind = "opening" => opening[c.src] \in {"posted", "superseded"}
  /\ c.kind \in Entered => Posted(c)
  /\ c.kind \in PeriodKinds => c \in operations

RepeatsTookEffect == \A s \in repeat : TookEffect(cmd[s])

RepeatsInv == RepeatsTookEffect /\ RepeatsAreAnswered

\* What was answered once has taken effect.
LEMMA AnsweredTookEffect ==
  ASSUME NEW c \in Commands, Answered(c)
  PROVE  TookEffect(c)
<1>1. c.kind \in Kinds
  BY CommandAssumption
<1>2. CASE c.kind \in {"opening", "currency"}
  BY <1>2 DEF Answered, TookEffect, PeriodKinds, Entered
<1>3. CASE c.kind \in {"post", "document", "reverse"}
  BY <1>3 DEF Answered, TookEffect, PeriodKinds, Entered
<1>4. CASE c.kind \in PeriodKinds
  BY <1>4 DEF Answered, TookEffect, PeriodKinds, Entered
<1> QED BY <1>1, <1>2, <1>3, <1>4 DEF Kinds, PeriodKinds, Entered

\* A command that took effect is refused only when it is an opening balance
\* superseded since.
LEMMA RefusedIsSuperseded ==
  ASSUME TypeOK, BooksInOneCurrency, NEW c \in Commands, TookEffect(c),
         WrongCurrency(c) \/ (~Answered(c) /\ ~Admits(c))
  PROVE  c.kind = "opening" /\ opening[c.src] = "superseded"
<1>1. c.kind \in Kinds
  BY CommandAssumption
<1>2. ~WrongCurrency(c)
  BY DEF WrongCurrency, TookEffect, Posted, Entered, Originals, BooksInOneCurrency
<1>3. ~Answered(c)
  BY <1>2
<1>4. c.kind \notin Entered
  BY <1>3 DEF Answered, TookEffect, Entered
<1>5. c.kind \notin PeriodKinds
  BY <1>3 DEF Answered, TookEffect, Entered, PeriodKinds
<1>6. c.kind = "opening"
  BY <1>1, <1>4, <1>5 DEF TookEffect, Kinds, PeriodKinds, Entered
<1>7. opening[c.src] # "posted"
  BY <1>3, <1>6 DEF Answered, Entered
<1> QED BY <1>6, <1>7 DEF TookEffect

\* Entries and operations are never taken back, and an opening balance that
\* is not a draft never becomes one; a superseded one stays superseded.
LEMMA EffectsStay ==
  ASSUME TypeOK, DecisionsStand, [Next]_vars, NEW c \in Commands
  PROVE  /\ TookEffect(c) => TookEffect(c)'
         /\ opening[c.src] = "superseded" => opening'[c.src] = "superseded"
<1>1. CASE UNCHANGED books
  BY <1>1 DEF books, TookEffect, Posted
<1>2. ASSUME NEW s \in Sessions, Commit(s)
      PROVE  /\ TookEffect(c) => TookEffect(c)'
             /\ opening[c.src] = "superseded" => opening'[c.src] = "superseded"
  <2>1. StillAdmitted(cmd[s])
    BY <1>2 DEF Commit, DecisionsStand
  <2>2. entries \subseteq entries' /\ operations \subseteq operations'
    BY <1>2 DEF Commit, EntriesAfter
  <2>3. Posted(c) => Posted(c)'
    BY <2>2 DEF Posted
  <2>4. opening' = OpeningAfter(cmd[s])
    BY <1>2 DEF Commit
  <2>5. c.src \in Sources
    BY CommandAssumption
  <2>6. opening[c.src] \in {"posted", "superseded"} => opening'[c.src] \in {"posted", "superseded"}
    BY <2>4, <2>5 DEF OpeningAfter
  <2>7. opening[c.src] = "superseded" => opening'[c.src] = "superseded"
    BY <2>1, <2>4, <2>5 DEF OpeningAfter, StillAdmitted
  <2> QED BY <2>2, <2>3, <2>6, <2>7 DEF TookEffect
<1> QED BY <1>1, <1>2, OnlyCommitsWrite

LEMMA RepeatsStep ==
  ASSUME BooksInv, RepeatsInv, [Next]_vars
  PROVE  RepeatsInv'
<1>1. TypeOK /\ DecisionsStand /\ BooksInOneCurrency
  BY DEF BooksInv
<1>2. SUFFICES ASSUME NEW t \in repeat'
               PROVE  /\ TookEffect(cmd[t])'
                      /\ answer'[t] = "refused" => cmd'[t].kind = "opening" /\ opening'[cmd'[t].src] = "superseded"
  BY DEF RepeatsInv, RepeatsTookEffect, RepeatsAreAnswered
<1>3. ASSUME t \in repeat, cmd'[t] = cmd[t],
             answer'[t] = "refused" => cmd[t].kind = "opening" /\ opening[cmd[t].src] = "superseded"
      PROVE  /\ TookEffect(cmd[t])'
             /\ answer'[t] = "refused" => cmd'[t].kind = "opening" /\ opening'[cmd'[t].src] = "superseded"
  <2>1. cmd[t] \in Commands /\ TookEffect(cmd[t])
    BY <1>1, <1>3 DEF TypeOK, RepeatsInv, RepeatsTookEffect
  <2>2. TookEffect(cmd[t])' /\ (opening[cmd[t].src] = "superseded" => opening'[cmd[t].src] = "superseded")
    <3>1. PICK d \in Commands : d = cmd[t] /\ TookEffect(d) /\ cmd'[t] = d
      BY <1>3, <2>1
    <3>2. TookEffect(d)' /\ (opening[d.src] = "superseded" => opening'[d.src] = "superseded")
      BY <1>1, <3>1, EffectsStay
    <3> QED BY <3>1, <3>2 DEF TookEffect, Posted
  <2> QED BY <1>3, <2>2
<1>4. CASE UNCHANGED vars
  BY <1>2, <1>3, <1>4 DEF vars, RepeatsInv, RepeatsAreAnswered
<1>5. ASSUME NEW s \in Sessions, NEW c \in Commands, Begin(s, c)
      PROVE  /\ TookEffect(cmd[t])'
             /\ answer'[t] = "refused" => cmd'[t].kind = "opening" /\ opening'[cmd'[t].src] = "superseded"
  <2>1. CASE t = s
    <3>1. Answered(c) /\ cmd'[s] = c /\ answer'[s] = "none" /\ UNCHANGED books
      BY <1>1, <1>2, <1>5, <2>1 DEF Begin, TypeOK
    <3>2. TookEffect(c)
      BY <3>1, AnsweredTookEffect
    <3> QED BY <2>1, <3>1, <3>2 DEF TookEffect, Posted, books
  <2>2. CASE t # s
    <3>1. t \in repeat /\ cmd'[t] = cmd[t] /\ answer'[t] = answer[t]
      BY <1>1, <1>2, <1>5, <2>2 DEF Begin, TypeOK
    <3> QED BY <1>3, <3>1 DEF RepeatsInv, RepeatsAreAnswered
  <2> QED BY <2>1, <2>2
<1>6. ASSUME NEW s \in Sessions,
             InsertHeader(s) \/ TakeWorkflowKey(s) \/ Probe(s) \/ LockBusiness(s) \/ LockSource(s) \/ Accept(s)
      PROVE  /\ TookEffect(cmd[t])'
             /\ answer'[t] = "refused" => cmd'[t].kind = "opening" /\ opening'[cmd'[t].src] = "superseded"
  <2>1. cmd' = cmd /\ answer' = answer /\ repeat' = repeat
    BY <1>6 DEF InsertHeader, TakeWorkflowKey, Probe, LockBusiness, LockSource, Accept
  <2> QED BY <1>2, <1>3, <2>1 DEF RepeatsInv, RepeatsAreAnswered
<1>7. ASSUME NEW s \in Sessions, Replay(s) \/ Commit(s) \/ AbortVictim(s) \/ Crash(s)
      PROVE  /\ TookEffect(cmd[t])'
             /\ answer'[t] = "refused" => cmd'[t].kind = "opening" /\ opening'[cmd'[t].src] = "superseded"
  <2>1. PICK a \in {"replayed", "done", "deadlock", "lost"} : End(s, a)
    BY <1>7 DEF Replay, Commit, AbortVictim, Crash
  <2>2. cmd' = cmd /\ repeat' = repeat /\ answer'[t] \in {answer[t], a}
    BY <1>1, <2>1 DEF End, TypeOK
  <2> QED BY <1>2, <1>3, <2>1, <2>2 DEF RepeatsInv, RepeatsAreAnswered
<1>8. ASSUME NEW s \in Sessions, Refuse(s)
      PROVE  /\ TookEffect(cmd[t])'
             /\ answer'[t] = "refused" => cmd'[t].kind = "opening" /\ opening'[cmd'[t].src] = "superseded"
  <2>1. cmd' = cmd /\ repeat' = repeat /\ (t # s => answer'[t] = answer[t])
    BY <1>1, <1>8 DEF Refuse, End, TypeOK
  <2>2. CASE t = s
    <3>1. cmd[s] \in Commands /\ TookEffect(cmd[s])
      BY <1>1, <1>2, <2>1, <2>2 DEF TypeOK, RepeatsInv, RepeatsTookEffect
    <3>2. cmd[s].kind = "opening" /\ opening[cmd[s].src] = "superseded"
      BY <1>1, <1>8, <3>1, RefusedIsSuperseded DEF Refuse
    <3> QED BY <1>2, <1>3, <2>1, <2>2, <3>2
  <2>3. CASE t # s
    BY <1>2, <1>3, <2>1, <2>3 DEF RepeatsInv, RepeatsAreAnswered
  <2> QED BY <2>2, <2>3
<1> QED BY <1>4, <1>5, <1>6, <1>7, <1>8 DEF Next, Step

\* The periods move only with a commit, which is then of a period operation.
LEMMA OperationsStep ==
  ASSUME TypeOK, DecisionsStand, [Next]_vars, periods' # periods
  PROVE  \E o \in operations' : \A q \in operations : q.op # o.op
<1>1. PICK s \in Sessions : Commit(s)
  BY OnlyCommitsWrite DEF books
<1>2. cmd[s].kind \in PeriodKinds
  BY <1>1 DEF Commit, PeriodsAfter, PeriodKinds
<1>3. cmd[s] \in operations'
  BY <1>1, <1>2 DEF Commit
<1>4. FreshOperation(cmd[s])
  BY <1>1, <1>2 DEF Commit, DecisionsStand, StillAdmitted
<1> QED BY <1>3, <1>4 DEF FreshOperation

-----------------------------------------------------------------------------
\* Theorems of the specification.

\* The invariant of the books is inductive.
THEOREM BooksLawful == Spec => []BooksInv
<1>1. BooksInv /\ [Next]_vars => BooksInv'
  BY TypeStep, LocksStep, DecisionsStep, TopologyStep, SourcesStep, CurrencyStep DEF BooksInv
<1> QED BY InitBooks, <1>1, PTL DEF Spec

\* Every variable keeps its type.
THEOREM BooksTyped == Spec => []TypeOK
<1>1. BooksInv => TypeOK
  BY DEF BooksInv
<1> QED BY BooksLawful, <1>1, PTL

\* Whatever create, close and reopen race, the periods of a business keep
\* their shape (0049:571).
THEOREM PeriodsKeepTheirShape == Spec => []TopologyHolds
<1>1. BooksInv => TopologyHolds
  BY DEF BooksInv
<1> QED BY BooksLawful, <1>1, PTL

\* No entry is committed on or before the last day of a closed period,
\* however the posting and the close interleave (0049:684-764).
THEOREM CloseIsFinal == Spec => ClosedBooksFinal
<1>1. BooksInv /\ [Next]_vars
        => \A e \in entries' \ entries, p \in periods : p.closed => p.end < e.date
  BY ClosedStep DEF BooksInv
<1> QED BY BooksLawful, <1>1, PTL DEF Spec, ClosedBooksFinal

\* One entry for one source and one posted opening balance (0045:720).
THEOREM SourcesPostOnce == Spec => []OnePerSource
<1>1. BooksInv => OnePerSource
  BY DEF BooksInv
<1> QED BY BooksLawful, <1>1, PTL

\* All entries of a business are in its base currency, and it is marked as
\* started exactly when it has entries (tenancy.service.ts:446, 0045:816).
THEOREM OneCurrencyForEver == Spec => []BooksInOneCurrency
<1>1. BooksInv => BooksInOneCurrency
  BY DEF BooksInv
<1> QED BY BooksLawful, <1>1, PTL

\* A client that repeats a command that had taken effect is told so, whatever
\* was closed, reopened or reversed since; only an opening balance superseded
\* by another is refused (0045:730, 0049:663).
THEOREM RepeatsRecognised == Spec => []RepeatsAreAnswered
<1>1. Init => RepeatsInv
  BY DEF Init, RepeatsInv, RepeatsTookEffect, RepeatsAreAnswered
<1>2. BooksInv /\ RepeatsInv /\ [Next]_vars => RepeatsInv'
  BY RepeatsStep
<1>3. RepeatsInv => RepeatsAreAnswered
  BY DEF RepeatsInv
<1> QED BY BooksLawful, <1>1, <1>2, <1>3, PTL DEF Spec

\* No identity of a period operation moves the periods twice, however late or
\* often its request arrives (0049:262).
THEOREM PeriodsMoveOnce == Spec => OperationsOnce
<1>1. BooksInv /\ [Next]_vars
        => (periods' # periods => \E o \in operations' : \A q \in operations : q.op # o.op)
  BY OperationsStep DEF BooksInv
<1> QED BY BooksLawful, <1>1, PTL DEF Spec, OperationsOnce

=============================================================================
