---------------------- MODULE CustomerSettlementProofs ----------------------
(***************************************************************************)
(* Customer settlement for every set of requests, commands, invoices and   *)
(* credits: that it never deadlocks, that its answers are true, that it    *)
(* implements the receivables that know no locks, that the chains and the  *)
(* control accounts are those of the documents, and that no release is     *)
(* reversed or leaves a unit behind.                                       *)
(***************************************************************************)
EXTENDS CustomerSettlement, SumTheorems

-----------------------------------------------------------------------------
(* Requests: what a step may do to one. *)

Shaped(q) == DOMAIN q = {"pc", "cmd", "seen", "plan", "held", "answer", "repeat"}

\* Nothing happens to the requests other than r.
Only(r) == /\ DOMAIN req' = Requests /\ Shaped(req'[r])
           /\ \A s \in Requests \ {r} : req'[s] = req[s]

Begins(r) ==
  /\ Only(r) /\ Unwritten
  /\ req[r].pc \in {"idle", "done"}
  /\ \E c \in Commands :
       /\ req'[r].cmd = c /\ req'[r].held = {} /\ req'[r].repeat = (c \in documents)
       /\ \/ req'[r].pc \in {"read", "looked"} /\ req'[r].answer = None /\ (req'[r].pc = "looked" => ~Stored(c.doc))
          \/ req'[r].pc = "done" /\ Stored(c.doc) /\ req'[r].answer = Repeat(c)

Same(r) == req'[r].cmd = req[r].cmd /\ req'[r].repeat = req[r].repeat

Proceeds(r) ==
  /\ Only(r) /\ Unwritten /\ Same(r)
  /\ req[r].pc \in {"read", "looked", "bind"} /\ req'[r].pc \in {"bind", "routine"}
  /\ req[r].pc = "read" => ~Stored(req[r].cmd.doc)
  /\ req'[r].held = req[r].held /\ req'[r].answer = req[r].answer

Ends(r) ==
  /\ Only(r) /\ Unwritten /\ Same(r)
  /\ req[r].pc \in {"read", "bind", "routine"} /\ req'[r].pc = "done"
  /\ req'[r].held = {}
  /\ \/ req'[r].answer = "lost"
     \/ req'[r].answer = "refused" /\ req[r].pc # "read"
     \/ req'[r].answer = Repeat(req[r].cmd) /\ Stored(req[r].cmd.doc)

TakesLock(r) ==
  /\ Only(r) /\ Unwritten /\ Same(r)
  /\ req[r].pc = "routine" /\ req'[r].pc = "routine" /\ req'[r].answer = req[r].answer
  /\ Missing(r) # {} /\ Free(r, NextLock(r))
  /\ req'[r].held = req[r].held \cup {NextLock(r)}
  /\ req[r].held = {} => ~Stored(req[r].cmd.doc)

\* The document of c is carried out.
Carries(c) ==
  /\ Accepted(c, Snapshot(c)) /\ CreditIdFree(c)
  /\ documents' = documents \cup {c}
  /\ reducers' = reducers \cup Plan(c, Snapshot(c)).rows
  /\ credits' = IF c.credit = None THEN credits ELSE [credits EXCEPT ![c.credit] = Plan(c, Snapshot(c)).credit]
  /\ journal' = journal \cup Entries(c, Plan(c, Snapshot(c)))

Settles(r) ==
  /\ Only(r) /\ Same(r) /\ Carries(req[r].cmd)
  /\ req[r].pc = "routine" /\ Missing(r) = {}
  /\ req'[r].pc = "done" /\ req'[r].held = {} /\ req'[r].answer = "accepted"

\* Nothing that a property looks at.
Idles == Unwritten /\ req' = req

Shapes == DOMAIN req = Requests /\ \A r \in Requests : Shaped(req[r])

\* A request proceeds, or is answered: the other requests stay as they are.
LEMMA ProgressIs ==
  ASSUME NEW r \in Requests, Shapes, NEW q, Shaped(q), Progress(r, q)
  PROVE  Only(r) /\ req'[r] = q
BY DEF Progress, Only, Shapes

LEMMA AnswerIs ==
  ASSUME NEW r \in Requests, Shapes, NEW a, Answer(r, a)
  PROVE  /\ Only(r) /\ Same(r)
         /\ req'[r].pc = "done" /\ req'[r].answer = a /\ req'[r].held = {}
<1> DEFINE n == [req[r] EXCEPT !.pc = "done", !.answer = a, !.held = {}, !.seen = None, !.plan = None]
<1>1. /\ Shaped(n) /\ n.pc = "done" /\ n.answer = a /\ n.held = {}
      /\ n.cmd = req[r].cmd /\ n.repeat = req[r].repeat
  BY DEF Shapes, Shaped
<1>2. Progress(r, n)
  BY DEF Answer
<1> HIDE DEF n
<1> QED
  BY <1>1, <1>2, ProgressIs DEF Same

\* Each action is one of the kinds of step above.
LEMMA SubmitIs ==
  ASSUME NEW r \in Requests, NEW c \in Commands, Shapes, Submit(r, c)
  PROVE  Begins(r)
<1> DEFINE new == [Idle EXCEPT !.cmd = c, !.repeat = c \in documents]
           n1 == [new EXCEPT !.pc = "read", !.seen = Snapshot(c)]
           n2 == [new EXCEPT !.pc = "done", !.answer = Repeat(c)]
           n3 == [new EXCEPT !.pc = "looked"]
<1>1. /\ Shaped(new) /\ new.cmd = c /\ new.repeat = (c \in documents) /\ new.held = {} /\ new.answer = None
  BY DEF Idle, Shaped
<1>a. Unwritten /\ req[r].pc \in {"idle", "done"}
  BY DEF Submit, Quiet
<1>2. CASE c.kind = "collect"
  <2>1. req' = [req EXCEPT ![r] = n1]
    BY <1>2 DEF Submit
  <2> HIDE DEF new
  <2>2. Shaped(n1) /\ n1.cmd = c /\ n1.repeat = (c \in documents) /\ n1.held = {} /\ n1.answer = None /\ n1.pc = "read"
    BY <1>1 DEF Shaped
  <2> HIDE DEF n1
  <2>3. Only(r) /\ req'[r] = n1
    BY <2>1, <2>2 DEF Only, Shapes
  <2> QED  BY <1>a, <2>2, <2>3 DEF Begins
<1>3. CASE c.kind # "collect" /\ Stored(c.doc)
  <2>1. req' = [req EXCEPT ![r] = n2]
    BY <1>3 DEF Submit
  <2> HIDE DEF new
  <2>2. Shaped(n2) /\ n2.cmd = c /\ n2.repeat = (c \in documents) /\ n2.held = {} /\ n2.answer = Repeat(c) /\ n2.pc = "done"
    BY <1>1 DEF Shaped
  <2> HIDE DEF n2
  <2>3. Only(r) /\ req'[r] = n2
    BY <2>1, <2>2 DEF Only, Shapes
  <2> QED  BY <1>a, <1>3, <2>2, <2>3 DEF Begins
<1>4. CASE c.kind # "collect" /\ ~Stored(c.doc)
  <2>1. req' = [req EXCEPT ![r] = n3]
    BY <1>4 DEF Submit
  <2> HIDE DEF new
  <2>2. Shaped(n3) /\ n3.cmd = c /\ n3.repeat = (c \in documents) /\ n3.held = {} /\ n3.answer = None /\ n3.pc = "looked"
    BY <1>1 DEF Shaped
  <2> HIDE DEF n3
  <2>3. Only(r) /\ req'[r] = n3
    BY <2>1, <2>2 DEF Only, Shapes
  <2> QED  BY <1>a, <1>4, <2>2, <2>3 DEF Begins
<1> QED  BY <1>2, <1>3, <1>4

LEMMA ReadsAre ==
  ASSUME NEW r \in Requests, Shapes, FindIntent(r) \/ ReadState(r)
  PROVE  Proceeds(r) \/ Ends(r)
<1>1. CASE FindIntent(r) /\ Stored(req[r].cmd.doc)
  <2>1. Answer(r, Repeat(req[r].cmd)) /\ Unwritten /\ req[r].pc = "read"
    BY <1>1 DEF FindIntent, Quiet
  <2> QED  BY <1>1, <2>1, AnswerIs DEF Ends
<1>2. CASE FindIntent(r) /\ ~Stored(req[r].cmd.doc)
  <2> DEFINE n == [req[r] EXCEPT !.pc = "bind"]
  <2>1. Progress(r, n) /\ Unwritten /\ req[r].pc = "read"
    BY <1>2 DEF FindIntent, Quiet
  <2>2. /\ Shaped(n) /\ n.pc = "bind" /\ n.answer = req[r].answer /\ n.held = req[r].held
        /\ n.cmd = req[r].cmd /\ n.repeat = req[r].repeat
    BY DEF Shapes, Shaped
  <2> HIDE DEF n
  <2> QED  BY <1>2, <2>1, <2>2, ProgressIs DEF Proceeds, Same
<1>3. CASE ReadState(r)
  <2> DEFINE n == [req[r] EXCEPT !.pc = "bind", !.seen = Snapshot(req[r].cmd)]
  <2>1. Progress(r, n) /\ Unwritten /\ req[r].pc = "looked"
    BY <1>3 DEF ReadState, Quiet
  <2>2. /\ Shaped(n) /\ n.pc = "bind" /\ n.answer = req[r].answer /\ n.held = req[r].held
        /\ n.cmd = req[r].cmd /\ n.repeat = req[r].repeat
    BY DEF Shapes, Shaped
  <2> HIDE DEF n
  <2> QED  BY <2>1, <2>2, ProgressIs DEF Proceeds, Same
<1> QED  BY <1>1, <1>2, <1>3

LEMMA BindIs ==
  ASSUME NEW r \in Requests, Shapes, Bind(r)
  PROVE  Proceeds(r) \/ Ends(r)
<1>1. Unwritten /\ req[r].pc = "bind"
  BY DEF Bind, Quiet
<1>2. \/ Answer(r, "refused")
      \/ \E p : Progress(r, [req[r] EXCEPT !.pc = "routine", !.seen = None, !.plan = p])
  BY DEF Bind
<1>3. ASSUME NEW p, Progress(r, [req[r] EXCEPT !.pc = "routine", !.seen = None, !.plan = p])
      PROVE  Proceeds(r)
  <2> DEFINE n == [req[r] EXCEPT !.pc = "routine", !.seen = None, !.plan = p]
  <2>2. /\ Shaped(n) /\ n.pc = "routine" /\ n.answer = req[r].answer /\ n.held = req[r].held
        /\ n.cmd = req[r].cmd /\ n.repeat = req[r].repeat
    BY DEF Shapes, Shaped
  <2>3. Progress(r, n)
    BY <1>3
  <2> HIDE DEF n
  <2> QED  BY <1>1, <2>2, <2>3, ProgressIs DEF Proceeds, Same
<1> QED  BY <1>1, <1>2, <1>3, AnswerIs DEF Ends

LEMMA TakesAre ==
  ASSUME NEW r \in Requests, Shapes, req[r].cmd \in Commands, TakeKey(r) \/ TakeRow(r)
  PROVE  TakesLock(r) \/ Ends(r)
<1>1. Unwritten /\ req[r].pc = "routine" /\ Free(r, NextLock(r))
  BY DEF TakeKey, TakeRow, Quiet
<1>2. CASE TakeKey(r)
  <2>1. Missing(r) # {} /\ req[r].held = {}
    BY <1>2 DEF TakeKey, Missing, Locks
  <2>2. CASE Stored(req[r].cmd.doc)
    BY <1>1, <1>2, <2>2, AnswerIs DEF TakeKey, Ends
  <2>3. CASE ~Stored(req[r].cmd.doc) /\ Answer(r, "refused")
    BY <1>1, <2>3, AnswerIs DEF Ends
  <2>4. CASE ~Stored(req[r].cmd.doc) /\ Progress(r, [req[r] EXCEPT !.held = {NextLock(r)}])
    <3> DEFINE n == [req[r] EXCEPT !.held = {NextLock(r)}]
    <3>1. /\ Shaped(n) /\ n.pc = "routine" /\ n.answer = req[r].answer /\ n.held = req[r].held \cup {NextLock(r)}
          /\ n.cmd = req[r].cmd /\ n.repeat = req[r].repeat
      BY <1>1, <2>1 DEF Shapes, Shaped
    <3>2. Progress(r, n)
      BY <2>4
    <3> HIDE DEF n
    <3> QED  BY <1>1, <2>1, <2>4, <3>1, <3>2, ProgressIs DEF TakesLock, Same
  <2> QED  BY <1>2, <2>2, <2>3, <2>4 DEF TakeKey
<1>3. CASE TakeRow(r)
  <2> DEFINE n == [req[r] EXCEPT !.held = @ \cup {NextLock(r)}]
  <2>1. /\ Shaped(n) /\ n.pc = "routine" /\ n.answer = req[r].answer /\ n.held = req[r].held \cup {NextLock(r)}
        /\ n.cmd = req[r].cmd /\ n.repeat = req[r].repeat
    BY <1>1 DEF Shapes, Shaped
  <2>2. Progress(r, n) /\ Missing(r) # {} /\ req[r].held # {}
    BY <1>3 DEF TakeRow
  <2> HIDE DEF n
  <2> QED  BY <1>1, <2>1, <2>2, ProgressIs DEF TakesLock, Same
<1> QED  BY <1>2, <1>3

LEMMA SettleIs ==
  ASSUME NEW r \in Requests, Shapes, Settle(r)
  PROVE  Settles(r) \/ Ends(r)
<1> DEFINE c == req[r].cmd
           p == req[r].plan
           now == Snapshot(c)
<1>1. req[r].pc = "routine" /\ Missing(r) = {}
  BY DEF Settle
<1>2. CASE Accepted(c, now) /\ Agrees(c, p, now) /\ CreditIdFree(c)
  <2>1. /\ documents' = documents \cup {c}
        /\ reducers' = reducers \cup p.rows
        /\ credits' = IF c.credit = None THEN credits ELSE [credits EXCEPT ![c.credit] = p.credit]
        /\ journal' = journal \cup Entries(c, p)
        /\ Answer(r, "accepted")
    BY <1>2 DEF Settle
  <2>2. p = Plan(c, now)
    BY <1>2 DEF Agrees
  <2>3. Carries(c)
    BY <1>2, <2>1, <2>2 DEF Carries
  <2> QED  BY <1>1, <2>1, <2>3, AnswerIs DEF Settles
<1>3. CASE ~(Accepted(c, now) /\ Agrees(c, p, now) /\ CreditIdFree(c))
  <2>1. Unwritten /\ Answer(r, "refused")
    BY <1>3 DEF Settle
  <2> QED  BY <1>1, <2>1, AnswerIs DEF Ends
<1> QED  BY <1>2, <1>3

\* A request that is not idle carries a command.
Sent == /\ Shapes /\ documents \subseteq Commands
        /\ \A r \in Requests :
             /\ req[r].pc \in {"idle", "read", "looked", "bind", "routine", "done"}
             /\ req[r].pc # "idle" => req[r].cmd \in Commands

\* Every step does one of these.
LEMMA StepsAre ==
  ASSUME Sent, [Next]_vars
  PROVE  \/ Idles
         \/ \E r \in Requests : Begins(r) \/ Proceeds(r) \/ Ends(r) \/ TakesLock(r) \/ Settles(r)
<1>1. CASE \E r \in Requests, c \in Commands : Submit(r, c)
  BY <1>1, SubmitIs DEF Sent
<1>2. CASE \E r \in Requests : FindIntent(r) \/ ReadState(r) \/ Bind(r)
  BY <1>2, ReadsAre, BindIs DEF Sent
<1>3. CASE \E r \in Requests : TakeKey(r) \/ TakeRow(r)
  <2>1. PICK r \in Requests : TakeKey(r) \/ TakeRow(r)
    BY <1>3
  <2>2. req[r].cmd \in Commands
    BY <2>1 DEF Sent, TakeKey, TakeRow
  <2> QED  BY <2>1, <2>2, TakesAre DEF Sent
<1>4. CASE \E r \in Requests : Settle(r)
  BY <1>4, SettleIs DEF Sent
<1>5. CASE \E r \in Requests : Abort(r)
  BY <1>5, AnswerIs DEF Sent, Abort, Ends, Quiet
<1>6. CASE Change
  BY <1>6 DEF Change, Idles
<1>7. CASE UNCHANGED vars
  BY <1>7 DEF vars, Idles, Unwritten
<1> QED
  BY <1>1, <1>2, <1>3, <1>4, <1>5, <1>6, <1>7 DEF Next, Step

-----------------------------------------------------------------------------
(* Locks *)

\* A lock is held by a transaction whose document was not stored when it took
\* its key.
Locked ==
  \A r \in Requests :
    req[r].held # {} => /\ req[r].pc = "routine" /\ req[r].held \subseteq Locks(req[r].cmd)
                        /\ <<"key", req[r].cmd.doc>> \in req[r].held /\ ~Stored(req[r].cmd.doc)

Exclusive == \A r, s \in Requests : r # s => req[r].held \cap req[s].held = {}

\* What is missing comes after what is held.
InOrder == \A r \in Requests : \A h \in req[r].held : \A m \in Missing(r) : Rank(h) < Rank(m)

LockInv == Locked /\ Exclusive /\ InOrder

\* The least element of a set of numbers.
LEMMA LeastNat ==
  ASSUME NEW U, U \subseteq Nat, U # {}
  PROVE  \E x \in U : \A y \in U : x <= y
<1>1. PICK x \in U : \A y \in U : ~(<<y, x>> \in OpToRel(<, Nat))
  BY WFMin, NatLessThanWellFounded
<1>2. \A y \in U : ~(y < x)
  BY <1>1 DEF OpToRel
<1> QED
  BY <1>2

\* The ranks of a command's locks are numbers, no two the same.
LEMMA RankedLocks ==
  ASSUME NEW c \in Commands
  PROVE  /\ \A l \in Locks(c) : Rank(l) \in Nat /\ Rank(l) <= Len(Invoices) + 1
         /\ \A l, m \in Locks(c) : Rank(l) = Rank(m) => l = m
         /\ <<"key", c.doc>> \in Locks(c) /\ Rank(<<"key", c.doc>>) = 0
<1>1. DOMAIN Invoices = 1..Len(Invoices) /\ Len(Invoices) \in Nat
  BY InvoicesAssumption
<1>2. InvoicesOf(c) \subseteq 1..Len(Invoices)
  BY <1>1, CommandsAssumption DEF InvoicesOf, IsPayment, IsApplication
<1>3. ASSUME NEW l \in Locks(c)
      PROVE  \/ l = <<"key", c.doc>> /\ Rank(l) = 0
             \/ \E i \in 1..Len(Invoices) : l = <<"invoice", i>> /\ Rank(l) = i
             \/ l = <<"credit", c.credit>> /\ Rank(l) = Len(Invoices) + 1
  BY <1>2, <1>3 DEF Locks, Rank
<1>4. <<"key", c.doc>> \in Locks(c) /\ Rank(<<"key", c.doc>>) = 0
  BY DEF Locks, Rank
<1> QED
  BY <1>1, <1>3, <1>4

\* The rank of one lock.
LEMMA RankOfLock ==
  ASSUME NEW c \in Commands, NEW l \in Locks(c)
  PROVE  Rank(l) \in Nat /\ Rank(l) <= Len(Invoices) + 1
BY RankedLocks

\* The next lock is the missing one that comes first.
LEMMA NextLockIs ==
  ASSUME NEW r \in Requests, req[r].cmd \in Commands, Missing(r) # {}
  PROVE  NextLock(r) \in Missing(r) /\ \A m \in Missing(r) : Rank(NextLock(r)) <= Rank(m)
<1> DEFINE U == {Rank(m) : m \in Missing(r)}
<1>1. U \subseteq Nat /\ U # {} /\ \A m \in Missing(r) : Rank(m) \in Nat
  <2>1. \A m \in Missing(r) : Rank(m) \in Nat
    BY RankOfLock DEF Missing
  <2> QED  BY <2>1
<1>2. PICK x \in U : \A y \in U : x <= y
  BY <1>1, LeastNat
<1>4. \E l \in Missing(r) : \A m \in Missing(r) : Rank(l) <= Rank(m)
  BY <1>2
<1> QED
  BY <1>4 DEF NextLock

\* The set of the locks that a step of r leaves it.
LEMMA OthersMiss ==
  ASSUME NEW s \in Requests, req'[s] = req[s]
  PROVE  Missing(s)' = Missing(s)
BY DEF Missing

\* Requests and locks as they begin.
THEOREM InitServes == Init => Sent /\ LockInv
<1> SUFFICES ASSUME Init PROVE Sent /\ LockInv
  OBVIOUS
<1>1. Sent
  BY DEF Init, Sent, Shapes, Shaped, Idle
<1>2. LockInv
  BY DEF Init, LockInv, Locked, Exclusive, InOrder, Idle
<1> QED  BY <1>1, <1>2

\* What was sent is a command, and waits with nothing held until its routine.
LEMMA StepSent ==
  ASSUME Sent, [Next]_vars
  PROVE  Sent'
<1>1. CASE Idles
  BY <1>1 DEF Idles, Unwritten, Sent, Shapes
<1>2. CASE \E r \in Requests : Begins(r)
  BY <1>2 DEF Begins, Unwritten, Only, Sent, Shapes
<1>3. CASE \E r \in Requests : Proceeds(r)
  BY <1>3 DEF Proceeds, Unwritten, Only, Same, Sent, Shapes
<1>4. CASE \E r \in Requests : Ends(r)
  BY <1>4 DEF Ends, Unwritten, Only, Same, Sent, Shapes
<1>5. CASE \E r \in Requests : TakesLock(r)
  BY <1>5 DEF TakesLock, Unwritten, Only, Same, Sent, Shapes
<1>6. CASE \E r \in Requests : Settles(r)
  BY <1>6 DEF Settles, Carries, Only, Same, Sent, Shapes
<1> QED
  BY <1>1, <1>2, <1>3, <1>4, <1>5, <1>6, StepsAre

\* A request that took a lock, with the others as they were.
LEMMA StepTakes ==
  ASSUME Sent, LockInv, NEW r \in Requests, TakesLock(r)
  PROVE  LockInv'
<1> DEFINE c == req[r].cmd
           n == NextLock(r)
<1>1. c \in Commands
  BY DEF Sent, TakesLock
<1>2. n \in Missing(r) /\ \A m \in Missing(r) : Rank(n) <= Rank(m)
  BY <1>1, NextLockIs DEF TakesLock
<1>3. req'[r].held = req[r].held \cup {n} /\ req'[r].cmd = c /\ req'[r].pc = "routine" /\ n \in Locks(c)
  BY <1>2 DEF TakesLock, Same, Missing
<1>4. \A s \in Requests \ {r} : req'[s] = req[s] /\ n \notin req[s].held
  BY DEF TakesLock, Only, Free
<1>5. \A d : Stored(d)' = Stored(d)
  BY DEF TakesLock, Unwritten, Stored
<1> HIDE DEF n, c
<1>6. Exclusive'
  BY <1>3, <1>4 DEF LockInv, Exclusive
<1>7. Missing(r)' = Missing(r) \ {n} /\ Missing(r) \subseteq Locks(c)
  BY <1>3 DEF Missing, c
<1>8. \A h \in req'[r].held : \A m \in Missing(r)' : Rank(h) < Rank(m)
  <2> SUFFICES ASSUME NEW h \in req'[r].held, NEW m \in Missing(r)'
               PROVE  Rank(h) < Rank(m)
    OBVIOUS
  <2>1. m \in Missing(r) /\ m # n
    BY <1>7
  <2>2. CASE h \in req[r].held
    BY <2>1, <2>2 DEF LockInv, InOrder
  <2>3. CASE h = n
    <3>1. Rank(n) \in Nat /\ Rank(m) \in Nat /\ Rank(n) # Rank(m) /\ Rank(n) <= Rank(m)
      BY <1>1, <1>2, <1>3, <1>7, <2>1, RankedLocks
    <3> QED  BY <2>3, <3>1
  <2> QED  BY <1>3, <2>2, <2>3
<1>9. InOrder'
  BY <1>4, <1>8, OthersMiss DEF LockInv, InOrder
<1>10. <<"key", c.doc>> \in req'[r].held /\ ~Stored(c.doc)
  <2>1. CASE req[r].held = {}
    <3>1. Missing(r) = Locks(c)
      BY <2>1 DEF Missing, c
    <3>2. Rank(n) <= Rank(<<"key", c.doc>>) /\ Rank(<<"key", c.doc>>) = 0 /\ Rank(n) \in Nat
      BY <1>1, <1>2, <1>3, <3>1, RankedLocks
    <3>3. n = <<"key", c.doc>>
      <4>1. Rank(n) = Rank(<<"key", c.doc>>)
        BY <3>2
      <4> QED  BY <1>1, <1>3, <4>1, RankedLocks
    <3> QED  BY <1>3, <2>1, <3>3 DEF TakesLock, c
  <2>2. CASE req[r].held # {}
    BY <1>3, <2>2 DEF LockInv, Locked, c
  <2> QED  BY <2>1, <2>2
<1>11. req'[r].held \subseteq Locks(c)
  <2>1. CASE req[r].held = {}
    BY <1>3, <2>1
  <2>2. CASE req[r].held # {}
    BY <1>3, <2>2 DEF LockInv, Locked, c
  <2> QED  BY <2>1, <2>2
<1>12. Locked'
  BY <1>3, <1>4, <1>5, <1>10, <1>11 DEF LockInv, Locked
<1> QED
  BY <1>6, <1>9, <1>12 DEF LockInv

\* A request that holds nothing after the step, or what it held before.
LEMMA StepReleases ==
  ASSUME LockInv, NEW r \in Requests, Only(r),
         req'[r].held = {} \/ (req'[r].held = req[r].held /\ req[r].pc # "routine"),
         \A s \in Requests \ {r} : req[s].held # {} => (Stored(req[s].cmd.doc)' = Stored(req[s].cmd.doc))
  PROVE  LockInv'
<1>1. req'[r].held = {} /\ \A s \in Requests \ {r} : req'[s] = req[s]
  BY DEF LockInv, Locked, Only
<1>2. Exclusive' /\ InOrder'
  BY <1>1, OthersMiss DEF LockInv, Exclusive, InOrder
<1>3. Locked'
  BY <1>1 DEF LockInv, Locked
<1> QED
  BY <1>2, <1>3 DEF LockInv

\* Of two requests that hold locks, at most one holds the key of a document.
LEMMA KeysDiffer ==
  ASSUME LockInv, NEW r \in Requests, NEW s \in Requests, r # s,
         req[r].held # {}, req[s].held # {}
  PROVE  req[r].cmd.doc # req[s].cmd.doc
<1>1. <<"key", req[r].cmd.doc>> \in req[r].held /\ <<"key", req[s].cmd.doc>> \in req[s].held
  BY DEF LockInv, Locked
<1>2. <<"key", req[r].cmd.doc>> # <<"key", req[s].cmd.doc>>
  BY <1>1 DEF LockInv, Exclusive
<1> QED
  BY <1>2

\* A settling request holds its key.
LEMMA SettlerLocked ==
  ASSUME Sent, LockInv, NEW r \in Requests, Settles(r)
  PROVE  req[r].held # {} /\ req[r].cmd \in Commands /\ ~Stored(req[r].cmd.doc)
<1>1. req[r].cmd \in Commands
  BY DEF Sent, Settles
<1>2. req[r].held # {}
  BY <1>1, RankedLocks DEF Settles, Missing
<1> QED
  BY <1>1, <1>2 DEF LockInv, Locked

\* A step keeps the locks exclusive and taken in their order.
LEMMA StepLocks ==
  ASSUME Sent, LockInv, [Next]_vars
  PROVE  LockInv'
<1>0. Unwritten => \A d : Stored(d)' = Stored(d)
  BY DEF Unwritten, Stored
<1>1. CASE Idles
  BY <1>1, <1>0, OthersMiss DEF Idles, LockInv, Locked, Exclusive, InOrder
<1>2. ASSUME NEW r \in Requests, Begins(r) \/ Proceeds(r) \/ Ends(r)
      PROVE  LockInv'
  <2>1. Only(r) /\ Unwritten /\ (req'[r].held = {} \/ (req'[r].held = req[r].held /\ req[r].pc # "routine"))
    BY <1>2 DEF Begins, Proceeds, Ends
  <2>2. \A s \in Requests \ {r} : req[s].held # {} => (Stored(req[s].cmd.doc)' = Stored(req[s].cmd.doc))
    <3> SUFFICES ASSUME NEW s \in Requests \ {r}
                 PROVE  Stored(req[s].cmd.doc)' = Stored(req[s].cmd.doc)
      OBVIOUS
    <3> QED  BY <2>1 DEF Stored, Only, Unwritten
  <2> QED  BY <2>1, <2>2, StepReleases
<1>3. CASE \E r \in Requests : TakesLock(r)
  BY <1>3, StepTakes
<1>4. ASSUME NEW r \in Requests, Settles(r)
      PROVE  LockInv'
  <2>1. Only(r) /\ req'[r].held = {} /\ documents' = documents \cup {req[r].cmd}
    BY <1>4 DEF Settles, Carries
  <2>2. ASSUME NEW s \in Requests \ {r}, req[s].held # {}
        PROVE  Stored(req[s].cmd.doc)' = Stored(req[s].cmd.doc)
    <3>1. req'[s] = req[s] /\ req[s].cmd.doc # req[r].cmd.doc
      BY <1>4, <2>1, <2>2, KeysDiffer, SettlerLocked DEF Only
    <3> QED  BY <2>1, <3>1 DEF Stored
  <2> QED  BY <2>1, <2>2, StepReleases
<1> QED
  BY <1>1, <1>2, <1>3, <1>4, StepsAre

\* A request that holds a lock holds those before it, and no lock is held twice.
THEOREM Serves == Spec => [](Sent /\ LockInv)
<1>1. Sent /\ LockInv /\ [Next]_vars => (Sent /\ LockInv)'
  BY StepSent, StepLocks
<1> QED
  BY <1>1, InitServes, PTL DEF Spec

\* The request of R whose next lock has the greatest rank waits for none of
\* R: who holds that lock misses only locks of greater ranks.
LEMMA NobodyWaitsLast ==
  ASSUME Sent, LockInv
  PROVE  NoDeadlock
<1> DEFINE waits(r, q) == req[r].pc = "routine" /\ Missing(r) # {} /\ NextLock(r) \in req[q].held
<1> SUFFICES ASSUME NEW R \in (SUBSET Requests) \ {{}}, \A r \in R : \E q \in R \ {r} : waits(r, q)
             PROVE  FALSE
  BY Zenon DEF NoDeadlock
<1> DEFINE rank(r) == Rank(NextLock(r))
           N == Len(Invoices) + 1
           U == {N - rank(r) : r \in R}
<1>1. \A r \in R : req[r].cmd \in Commands /\ Missing(r) # {}
  BY DEF Sent
<1>2. \A r \in R : NextLock(r) \in Missing(r) /\ NextLock(r) \in Locks(req[r].cmd)
  BY <1>1, NextLockIs DEF Missing
<1>3. N \in Nat /\ \A r \in R : rank(r) \in Nat /\ rank(r) <= N
  <2>1. \A r \in R : rank(r) \in Nat /\ rank(r) <= Len(Invoices) + 1
    BY <1>1, <1>2, RankOfLock
  <2>2. Len(Invoices) \in Nat
    BY InvoicesAssumption
  <2> QED  BY <2>1, <2>2
<1> HIDE DEF N, rank
<1>4. U \subseteq Nat /\ U # {}
  BY <1>3
<1>6. PICK x \in U : \A y \in U : x <= y
  BY <1>4, LeastNat
<1>7. PICK r \in R : x = N - rank(r)
  OBVIOUS
<1>8. \A q \in R : rank(q) <= rank(r)
  <2> SUFFICES ASSUME NEW q \in R PROVE rank(q) <= rank(r)
    OBVIOUS
  <2>1. x <= N - rank(q)
    BY <1>6
  <2> HIDE DEF U
  <2> QED  BY <1>3, <1>7, <2>1
<1>9. PICK q \in R \ {r} : waits(r, q)
  OBVIOUS
<1>10. rank(r) < rank(q)
  BY <1>2, <1>9 DEF LockInv, InOrder, rank
<1> QED
  BY <1>3, <1>8, <1>10

\* No set of requests waits within itself: of those that wait, the one whose next
\* lock ranks highest waits for a request that holds a higher one.
THEOREM NeverDeadlocks == Spec => []NoDeadlock
BY Serves, NobodyWaitsLast, PTL

-----------------------------------------------------------------------------
(* Answers *)

\* Only a request that is done has an answer; one that repeats a stored
\* command is still to look for it, or has found it.
Truthful ==
  \A r \in Requests :
    /\ req[r].pc # "done" => req[r].answer = None
    /\ req[r].repeat => req[r].cmd \in documents /\ req[r].pc \in {"read", "done"}

AnswersInv == Truthful /\ AnswersAreTrue

\* What a repeated document is answered.
LEMMA RepeatIs ==
  ASSUME NEW c
  PROVE  /\ c \in documents => Repeat(c) = "replayed" /\ Stored(c.doc)
         /\ c \notin documents => Repeat(c) = "conflict"
         /\ Repeat(c) # "accepted" /\ Repeat(c) # "refused"
BY DEF Repeat, Stored

\* What AnswersAreTrue asks of one request, and of two.
TrueOf(r) ==
  /\ req[r].answer \in {"accepted", "replayed"} => req[r].cmd \in documents
  /\ req[r].answer = "conflict" => Stored(req[r].cmd.doc) /\ req[r].cmd \notin documents
  /\ req[r].repeat => req[r].answer \notin {"accepted", "conflict", "refused"}

OnceOf(r, q) ==
  req[r].answer = "accepted" /\ req[q].answer = "accepted" => req[r].cmd.doc # req[q].cmd.doc

\* The answers, request by request and pair by pair.
LEMMA AnswersSplit ==
  AnswersAreTrue <=> (\A r \in Requests : TrueOf(r) /\ \A q \in Requests \ {r} : OnceOf(r, q))
BY DEF AnswersAreTrue, TrueOf, OnceOf

\* A step of r that writes nothing and does not accept.
LEMMA StepTells ==
  ASSUME AnswersInv, NEW r \in Requests, Only(r), Unwritten,
         TrueOf(r)', req'[r].answer # "accepted",
         req'[r].pc # "done" => req'[r].answer = None,
         req'[r].repeat => req'[r].cmd \in documents /\ req'[r].pc \in {"read", "done"}
  PROVE  AnswersInv'
<1>1. documents' = documents /\ \A s \in Requests \ {r} : req'[s] = req[s]
  BY DEF Only, Unwritten
<1>2. Truthful'
  BY <1>1 DEF AnswersInv, Truthful
<1>3. \A s \in Requests \ {r} : TrueOf(s)'
  BY <1>1, AnswersSplit DEF AnswersInv, TrueOf, Stored
<1>4. \A s \in Requests : \A q \in Requests \ {s} : OnceOf(s, q)'
  <2> SUFFICES ASSUME NEW s \in Requests, NEW q \in Requests \ {s} PROVE OnceOf(s, q)'
    OBVIOUS
  <2>1. CASE s = r \/ q = r
    BY <2>1 DEF OnceOf
  <2>2. CASE s # r /\ q # r
    BY <1>1, <2>2, AnswersSplit DEF AnswersInv, OnceOf
  <2> QED  BY <2>1, <2>2
<1>5. AnswersAreTrue'
  BY <1>3, <1>4 DEF AnswersAreTrue, TrueOf, OnceOf
<1> QED
  BY <1>2, <1>5 DEF AnswersInv

\* A step keeps every answer true, whichever request it is of.
LEMMA StepAnswers ==
  ASSUME Sent, LockInv, AnswersInv, [Next]_vars
  PROVE  AnswersInv'
<1>n. None \notin {"accepted", "replayed", "conflict", "refused"}
  BY NoneAssumption
<1>u. Unwritten => documents' = documents /\ \A d : Stored(d)' = Stored(d)
  BY DEF Unwritten, Stored
<1>1. CASE Idles
  BY <1>1 DEF Idles, Unwritten, AnswersInv, Truthful, AnswersAreTrue, Stored
<1>2. ASSUME NEW r \in Requests, Begins(r)
      PROVE  AnswersInv'
  <2>1. PICK c \in Commands :
          /\ req'[r].cmd = c /\ req'[r].repeat = (c \in documents)
          /\ \/ req'[r].pc \in {"read", "looked"} /\ req'[r].answer = None /\ (req'[r].pc = "looked" => ~Stored(c.doc))
             \/ req'[r].pc = "done" /\ Stored(c.doc) /\ req'[r].answer = Repeat(c)
    BY <1>2 DEF Begins
  <2>2. Only(r) /\ Unwritten
    BY <1>2 DEF Begins
  <2>3. TrueOf(r)' /\ req'[r].answer # "accepted"
    BY <1>n, <1>u, <2>1, <2>2, RepeatIs DEF TrueOf
  <2>4. req'[r].repeat => req'[r].cmd \in documents /\ req'[r].pc \in {"read", "done"}
    BY <2>1, RepeatIs
  <2> QED  BY <2>1, <2>2, <2>3, <2>4, StepTells
<1>3. ASSUME NEW r \in Requests, Proceeds(r) \/ TakesLock(r)
      PROVE  AnswersInv'
  <2>1. /\ Only(r) /\ Unwritten /\ Same(r) /\ req'[r].answer = req[r].answer
        /\ req[r].pc # "done" /\ req'[r].pc # "done"
        /\ req[r].pc = "read" => ~Stored(req[r].cmd.doc)
    BY <1>3 DEF Proceeds, TakesLock
  <2>2. req[r].answer = None /\ ~req[r].repeat
    BY <2>1, RepeatIs DEF AnswersInv, Truthful
  <2>3. TrueOf(r)' /\ req'[r].answer # "accepted" /\ ~req'[r].repeat
    BY <1>n, <2>1, <2>2 DEF TrueOf, Same
  <2> QED  BY <2>1, <2>2, <2>3, StepTells
<1>4. ASSUME NEW r \in Requests, Ends(r)
      PROVE  AnswersInv'
  <2>1. /\ Only(r) /\ Unwritten /\ Same(r) /\ req'[r].pc = "done" /\ req[r].pc # "done"
        /\ \/ req'[r].answer = "lost"
           \/ req'[r].answer = "refused" /\ req[r].pc # "read"
           \/ req'[r].answer = Repeat(req[r].cmd) /\ Stored(req[r].cmd.doc)
    BY <1>4 DEF Ends
  <2>2. req[r].repeat => req[r].cmd \in documents /\ req[r].pc = "read"
    BY <2>1 DEF AnswersInv, Truthful
  <2>3. TrueOf(r)' /\ req'[r].answer # "accepted"
    BY <1>u, <2>1, <2>2, RepeatIs DEF TrueOf, Same
  <2> QED  BY <2>1, <2>2, <2>3, StepTells DEF Same
<1>5. ASSUME NEW r \in Requests, Settles(r)
      PROVE  AnswersInv'
  <2> DEFINE c == req[r].cmd
  <2>1. /\ Only(r) /\ Same(r) /\ documents' = documents \cup {c} /\ req[r].pc = "routine"
        /\ req'[r].pc = "done" /\ req'[r].answer = "accepted"
    BY <1>5 DEF Settles, Carries
  <2>2. c \in Commands /\ ~Stored(c.doc)
    BY <1>5, SettlerLocked
  <2>3. \A d : Stored(d)' <=> (Stored(d) \/ d = c.doc)
    BY <2>1 DEF Stored
  <2>4. ~req'[r].repeat
    BY <2>1 DEF Same, AnswersInv, Truthful
  <2>5. \A s \in Requests \ {r} : req'[s] = req[s]
    BY <2>1 DEF Only
  <2>6. Truthful'
    BY <2>1, <2>4, <2>5 DEF AnswersInv, Truthful
  <2>7. TrueOf(r)'
    BY <2>1, <2>4 DEF TrueOf, Same
  <2>8. ASSUME NEW s \in Requests \ {r} PROVE TrueOf(s)'
    <3>1. TrueOf(s)
      BY AnswersSplit DEF AnswersInv
    <3>2. Stored(req[s].cmd.doc) => req[s].cmd # c
      BY <2>2
    <3> QED  BY <2>1, <2>3, <2>5, <3>1, <3>2 DEF TrueOf
  <2>9. ASSUME NEW s \in Requests, NEW q \in Requests \ {s} PROVE OnceOf(s, q)'
    <3>1. CASE s # r /\ q # r
      BY <2>5, <3>1, AnswersSplit DEF AnswersInv, OnceOf
    <3>2. \A t \in Requests \ {r} : req[t].answer = "accepted" => req[t].cmd.doc # c.doc
      BY <2>2, AnswersSplit DEF AnswersInv, TrueOf, Stored
    <3>3. CASE s = r \/ q = r
      BY <2>1, <2>5, <3>2, <3>3 DEF OnceOf, Same
    <3> QED  BY <3>1, <3>3
  <2>10. AnswersAreTrue'
    BY <2>7, <2>8, <2>9 DEF AnswersAreTrue, TrueOf, OnceOf
  <2> QED  BY <2>6, <2>10 DEF AnswersInv
<1> QED
  BY <1>1, <1>2, <1>3, <1>4, <1>5, StepsAre

\* What a request is told is what happened: an accepted or replayed document is
\* stored, a conflict is with another one, and a repetition is never refused.
THEOREM AnswersTold == Spec => []AnswersAreTrue
<1>1. Init => AnswersInv
  <2> SUFFICES ASSUME Init PROVE AnswersInv
    OBVIOUS
  <2>1. \A r \in Requests : req[r].pc = "idle" /\ req[r].answer = None /\ req[r].repeat = FALSE
    BY DEF Init, Idle
  <2>2. None \notin {"accepted", "replayed", "conflict", "refused"}
    BY NoneAssumption
  <2> QED  BY <2>1, <2>2 DEF AnswersInv, Truthful, AnswersAreTrue
<1>2. Sent /\ LockInv /\ AnswersInv /\ [Next]_vars => AnswersInv'
  BY StepAnswers
<1>3. AnswersInv => AnswersAreTrue
  BY DEF AnswersInv
<1> QED
  BY <1>1, <1>2, <1>3, Serves, PTL DEF Spec

-----------------------------------------------------------------------------
(* The rows a command writes. *)

\* The arithmetic stays within the integers.
LEMMA HalfEvenTyped ==
  ASSUME NEW n \in Int, NEW d \in Nat \ {0}
  PROVE  HalfEven(n, d) \in Int
BY DEF HalfEven

LEMMA ConvertTyped ==
  ASSUME NEW x \in Int, NEW rate \in PositiveRate
  PROVE  ConvertToBase(x, rate) \in Int
<1>1. rate[1] \in Nat /\ rate[2] \in Nat \ {0}
  BY DEF PositiveRate
<1>2. x * rate[1] \in Int
  BY <1>1
<1> QED
  BY <1>1, <1>2, HalfEvenTyped DEF ConvertToBase

LEMMA ReleasedTyped ==
  ASSUME NEW T \in Nat \ {0}, NEW B \in Int, NEW x \in Int
  PROVE  Released(T, B, x) \in Int
<1>1. B * x \in Int
  OBVIOUS
<1> QED
  BY <1>1, HalfEvenTyped DEF Released

LEMMA ReleaseTyped ==
  ASSUME NEW T \in Nat \ {0}, NEW B \in Int, NEW x \in Int, NEW a \in Int
  PROVE  Release(T, B, x, a) \in Int
<1>1. Released(T, B, x + a) \in Int /\ Released(T, B, x) \in Int
  <2>1. x + a \in Int
    OBVIOUS
  <2> QED  BY <2>1, ReleasedTyped
<1> QED
  BY <1>1 DEF Release

\* The amounts of an invoice.
LEMMA InvoiceTyped ==
  ASSUME NEW i \in DOMAIN Invoices
  PROVE  /\ Invoices[i].total \in Nat \ {0} /\ Invoices[i].base \in Nat
         /\ Invoices[i].rate \in PositiveRate
<1>1. Invoices[i] \in Invoice
  BY InvoicesAssumption
<1> QED
  BY <1>1 DEF Invoice

RowTyped(d) ==
  /\ d.invoice \in DOMAIN Invoices /\ d.applied \in Nat \ {0}
  /\ d.before \in Int /\ d.released \in Int /\ d.dust \in Int /\ d.money \in Int
  /\ d.realized = d.money - d.released
  /\ d.credit \in CreditIds \cup {None} /\ d.consumed \in Int /\ d.level \in Int

\* The rows, credits and settings of a state; a row's document is stored.
Rows == IsFiniteSet(reducers) /\ \A d \in reducers : RowTyped(d) /\ Stored(d.doc)
Credits ==
  /\ DOMAIN credits = CreditIds
  /\ \A k \in Born : /\ credits[k] \in Credit /\ credits[k].original >= 1 /\ credits[k].remaining >= 0
                     /\ credits[k].carrying = CreditCarrying(credits[k].original, credits[k].originalCarrying, credits[k].remaining)
World == world \in [rate : PositiveRate, active : BOOLEAN, account : Accounts]

\* What is paid of an invoice is a sum.
LEMMA PaidTyped ==
  ASSUME Rows, NEW i
  PROVE  /\ IsFiniteSet(Of(i)) /\ [d \in Of(i) |-> d.applied] \in [Of(i) -> Int]
         /\ Paid(i) \in Int
<1>1. IsFiniteSet(Of(i))
  BY FS_Subset DEF Rows, Of
<1>2. [d \in Of(i) |-> d.applied] \in [Of(i) -> Int]
  BY DEF Rows, RowTyped, Of
<1> HIDE DEF Of
<1> QED
  BY <1>1, <1>2, TotalSplits DEF Paid

\* d is the row by which the document of c applies a to invoice i.
Written(c, d, i, a) ==
  /\ d.doc = c.doc /\ d.invoice = i /\ d.applied = a
  /\ a \in Nat \ {0} /\ a <= Owed(i)
  /\ d.before = Paid(i)
  /\ d.released = Release(Invoices[i].total, Invoices[i].base, Paid(i), a)
  /\ d.dust \in Int /\ d.money \in Int /\ d.realized = d.money - d.released

Legs(c) == Receivable!Legs(c)

\* The rows of c: one for every leg, and no two for one invoice.
Whole(c, rows) ==
  /\ IsFiniteSet(rows)
  /\ \A d \in rows : \E l \in Legs(c) : Written(c, d, l.invoice, l.applied)
  /\ \A l \in Legs(c) : \E d \in rows : Written(c, d, l.invoice, l.applied)
  /\ \A d, e \in rows : d.invoice = e.invoice => d = e

\* The row that applies an accepted amount.
LEMMA RowIs ==
  ASSUME Rows, NEW c, NEW i \in DOMAIN Invoices, NEW a, ArAccepted(i, Owed(i), a), NEW money \in Int,
         NEW d, d = Row(c, i, a, ArSide(i, Owed(i), a), money)
  PROVE  /\ Written(c, d, i, a) /\ d.money = money
         /\ d.credit = None /\ d.consumed = 0 /\ d.level = 0
<1> DEFINE inv == Invoices[i]
           x   == inv.total - Owed(i)
           rel == Release(inv.total, inv.base, x, a)
<1>1. inv.total \in Nat \ {0} /\ inv.base \in Nat /\ inv.rate \in PositiveRate
  BY InvoiceTyped
<1>2. Paid(i) \in Int /\ Owed(i) = inv.total - Paid(i)
  BY PaidTyped DEF Owed
<1>3. x = Paid(i)
  BY <1>1, <1>2
<1>4. a \in Nat \ {0} /\ a <= Owed(i)
  BY <1>1, <1>2 DEF ArAccepted
<1>5. rel \in Int /\ ConvertToBase(a, inv.rate) \in Int
  <2> HIDE DEF inv, x
  <2>1. x \in Int /\ a \in Int /\ inv.base \in Int
    BY <1>1, <1>2, <1>3, <1>4
  <2>2. rel \in Int
    BY <1>1, <2>1, ReleaseTyped
  <2> QED  BY <1>1, <2>1, <2>2, ConvertTyped
<1>6. ArSide(i, Owed(i), a) = [before |-> x, released |-> rel, dust |-> rel - ConvertToBase(a, inv.rate)]
  BY DEF ArSide
<1>7. /\ d.doc = c.doc /\ d.invoice = i /\ d.applied = a /\ d.before = x /\ d.released = rel
      /\ d.dust = rel - ConvertToBase(a, inv.rate) /\ d.money = money /\ d.realized = money - rel
      /\ d.credit = None /\ d.consumed = 0 /\ d.level = 0
  BY <1>6 DEF Row
<1> QED
  BY <1>2, <1>3, <1>4, <1>5, <1>7 DEF Written

\* A snapshot has the balances of its state.
LEMMA SnapshotIs ==
  ASSUME NEW c \in Commands
  PROVE  /\ \A i \in InvoicesOf(c) : Snapshot(c).owed[i] = Owed(i)
         /\ c.kind = "collect" => Snapshot(c).world = world
         /\ c.kind = "apply" => Snapshot(c).credit = credits[c.credit]
BY DEF Snapshot

\* The rate a payment converts by.
LEMMA RateTyped ==
  ASSUME NEW c, World
  PROVE  PaymentRate(c, world) \in PositiveRate
BY DEF PaymentRate, World, PositiveRate, One

\* The rows of an accepted payment.
LEMMA PaymentRows ==
  ASSUME Rows, World, NEW c \in Commands, c.kind = "collect", PaymentAccepted(c, Snapshot(c))
  PROVE  /\ Whole(c, PaymentPlan(c, Snapshot(c)).rows)
         /\ \A d \in PaymentPlan(c, Snapshot(c)).rows : d.credit = None /\ d.consumed = 0 /\ d.level = 0
<1> DEFINE s == Snapshot(c)
           rows == {AllocationRow(c, l, s) : l \in c.legs}
           rate == PaymentRate(c, world)
<1>1. IsPayment(c)
  BY CommandsAssumption DEF IsApplication
<1>2. PaymentPlan(c, s).rows = rows
  BY DEF PaymentPlan
<1>3. Legs(c) = c.legs
  BY DEF Legs, Receivable!Legs
<1>4. ASSUME NEW l \in c.legs
      PROVE  LET d == AllocationRow(c, l, s) IN
             /\ Written(c, d, l.invoice, l.applied)
             /\ d.credit = None /\ d.consumed = 0 /\ d.level = 0
  <2> DEFINE d == AllocationRow(c, l, s)
             money == ConvertToBase(l.pay, rate)
  <2>1. l.invoice \in InvoicesOf(c) /\ l.invoice \in DOMAIN Invoices /\ l.pay \in Int
    BY <1>1 DEF IsPayment, InvoicesOf
  <2>2. s.owed[l.invoice] = Owed(l.invoice) /\ s.world = world
    BY <2>1, SnapshotIs
  <2>3. ArAccepted(l.invoice, Owed(l.invoice), l.applied)
    BY <2>2 DEF PaymentAccepted
  <2>4. money \in Int
    BY <2>1, RateTyped, ConvertTyped
  <2>5. d = Row(c, l.invoice, l.applied, ArSide(l.invoice, Owed(l.invoice), l.applied), money)
    BY <2>2 DEF AllocationRow
  <2> HIDE DEF d, money
  <2> QED  BY <2>1, <2>3, <2>4, <2>5, RowIs DEF d
<1>5. IsFiniteSet(rows)
  <2>1. IsFiniteSet(c.legs)
    BY <1>1 DEF IsPayment
  <2> DEFINE f == [l \in c.legs |-> AllocationRow(c, l, s)]
  <2>2. f \in Surjection(c.legs, rows)
    <3> HIDE DEF s
    <3>1. f \in [c.legs -> rows] /\ \A d \in rows : \E l \in c.legs : f[l] = d
      OBVIOUS
    <3> QED  BY <3>1 DEF Surjection
  <2> HIDE DEF f, rows
  <2> QED  BY <2>1, <2>2, FS_Surjection
<1> HIDE DEF s
<1>6. \A d \in rows : \E l \in c.legs : Written(c, d, l.invoice, l.applied) /\ d = AllocationRow(c, l, s)
  BY <1>4
<1>7. \A l \in c.legs : \E d \in rows : Written(c, d, l.invoice, l.applied)
  BY <1>4
<1>8. \A d, e \in rows : d.invoice = e.invoice => d = e
  BY <1>1, <1>6 DEF IsPayment, Written
<1>9. \A d \in rows : d.credit = None /\ d.consumed = 0 /\ d.level = 0
  BY <1>4
<1> QED
  BY <1>2, <1>3, <1>5, <1>6, <1>7, <1>8, <1>9 DEF Whole, s

\* A credit that was born.
LEMMA CreditTyped ==
  ASSUME Credits, NEW k \in Born
  PROVE  /\ credits[k] \in Credit /\ credits[k] # None
         /\ credits[k].original \in Nat \ {0} /\ credits[k].originalCarrying \in Int
         /\ credits[k].remaining \in Nat /\ credits[k].carrying \in Int
         /\ credits[k].rate \in PositiveRate
<1>1. credits[k] \in Credit /\ credits[k] # None /\ credits[k].original >= 1 /\ credits[k].remaining >= 0
  BY DEF Credits, Born
<1> QED
  BY <1>1 DEF Credit

\* What a credit carries.
LEMMA CarryingTyped ==
  ASSUME NEW OA \in Nat \ {0}, NEW OB \in Int, NEW r \in Int
  PROVE  CreditCarrying(OA, OB, r) \in Int
<1>1. OB * (OA - r) \in Int
  OBVIOUS
<1>2. HalfEven(OB * (OA - r), OA) \in Int
  BY <1>1, HalfEvenTyped
<1> QED
  BY <1>2 DEF CreditCarrying

\* What an application draws from its credit, and the credit it leaves.
Drawn(c) ==
  LET k == credits[c.credit]
  IN CreditRelease(k.original, k.originalCarrying, k.remaining, c.consumed)

Lower(k, n) ==
  [k EXCEPT !.remaining = @ - n, !.carrying = CreditCarrying(k.original, k.originalCarrying, k.remaining - n)]

\* The credit left has less remaining, and carries what is due for it.
LEMMA LowerIs ==
  ASSUME NEW k \in Credit, k.original \in Nat \ {0}, NEW n \in Int
  PROVE  /\ Lower(k, n) \in Credit
         /\ Lower(k, n).original = k.original /\ Lower(k, n).originalCarrying = k.originalCarrying
         /\ Lower(k, n).remaining = k.remaining - n
         /\ Lower(k, n).carrying = CreditCarrying(k.original, k.originalCarrying, k.remaining - n)
<1> DEFINE g == CreditCarrying(k.original, k.originalCarrying, k.remaining - n)
<1>1. k.originalCarrying \in Int /\ k.remaining \in Int /\ k.remaining - n \in Int
  BY DEF Credit
<1>2. g \in Int
  BY <1>1, CarryingTyped
<1>3. Lower(k, n) = [k EXCEPT !.remaining = @ - n, !.carrying = g]
  BY DEF Lower
<1> HIDE DEF g
<1>4. /\ [k EXCEPT !.remaining = @ - n, !.carrying = g] \in Credit
      /\ [k EXCEPT !.remaining = @ - n, !.carrying = g].original = k.original
      /\ [k EXCEPT !.remaining = @ - n, !.carrying = g].originalCarrying = k.originalCarrying
      /\ [k EXCEPT !.remaining = @ - n, !.carrying = g].remaining = k.remaining - n
      /\ [k EXCEPT !.remaining = @ - n, !.carrying = g].carrying = g
  BY <1>1, <1>2 DEF Credit
<1> QED
  BY <1>3, <1>4 DEF g

\* What an application draws.
LEMMA DrawnTyped ==
  ASSUME Credits, NEW c, c.credit \in Born, c.consumed \in Int
  PROVE  Drawn(c) \in Int
<1> DEFINE k == credits[c.credit]
<1>1. k.original \in Nat \ {0} /\ k.originalCarrying \in Int /\ k.remaining \in Int
  BY CreditTyped
<1>2. k.remaining - c.consumed \in Int
  BY <1>1
<1>3. /\ CreditCarrying(k.original, k.originalCarrying, k.remaining) \in Int
      /\ CreditCarrying(k.original, k.originalCarrying, k.remaining - c.consumed) \in Int
  BY <1>1, <1>2, CarryingTyped
<1> QED
  BY <1>3 DEF Drawn, CreditRelease

\* The one row of an application.
LEMMA ApplicationRow ==
  ASSUME Rows, Credits, NEW c \in Commands, c.kind = "apply", ApplicationAccepted(c, Snapshot(c))
  PROVE  /\ c.credit \in Born /\ c.consumed \in 1..credits[c.credit].remaining
         /\ ApplicationPlan(c, Snapshot(c)).credit = Lower(credits[c.credit], c.consumed)
         /\ \E d : /\ ApplicationPlan(c, Snapshot(c)).rows = {d}
                   /\ Written(c, d, c.invoice, c.applied) /\ d.money = Drawn(c)
                   /\ d.credit = c.credit /\ d.consumed = c.consumed /\ d.level = credits[c.credit].remaining
<1> DEFINE s == Snapshot(c)
           k == credits[c.credit]
           row == Row(c, c.invoice, c.applied, ArSide(c.invoice, Owed(c.invoice), c.applied), Drawn(c))
           d == [row EXCEPT !.credit = c.credit, !.consumed = c.consumed, !.level = k.remaining]
<1>1. IsApplication(c)
  BY CommandsAssumption DEF IsPayment
<1>2. s.owed[c.invoice] = Owed(c.invoice) /\ s.credit = k
  BY SnapshotIs DEF InvoicesOf
<1>3. c.credit \in Born
  BY <1>1, <1>2 DEF ApplicationAccepted, Born, IsApplication
<1>4. c.consumed \in 1..k.remaining /\ ArAccepted(c.invoice, Owed(c.invoice), c.applied)
  BY <1>2 DEF ApplicationAccepted
<1>5. ApplicationPlan(c, s).credit = Lower(k, c.consumed)
  BY <1>2 DEF ApplicationPlan, Lower
<1>6. ApplicationPlan(c, s).rows = {d}
  BY <1>2 DEF ApplicationPlan, Drawn
<1>7. Drawn(c) \in Int
  BY <1>1, <1>3, DrawnTyped DEF IsApplication
<1>8. Written(c, row, c.invoice, c.applied) /\ row.money = Drawn(c)
  BY <1>1, <1>4, <1>7, RowIs DEF IsApplication
<1>9. /\ d.doc = row.doc /\ d.invoice = row.invoice /\ d.applied = row.applied /\ d.before = row.before
      /\ d.released = row.released /\ d.dust = row.dust /\ d.money = row.money /\ d.realized = row.realized
      /\ d.credit = c.credit /\ d.consumed = c.consumed /\ d.level = k.remaining
  BY DEF Row
<1> HIDE DEF row, d, s
<1>10. Written(c, d, c.invoice, c.applied)
  BY <1>8, <1>9 DEF Written
<1> QED
  BY <1>3, <1>4, <1>5, <1>6, <1>8, <1>9, <1>10 DEF s

\* What a payment leaves over.
LEMMA SurplusTyped ==
  ASSUME NEW c \in Commands, c.kind = "collect"
  PROVE  Surplus(c) \in Int
<1>1. IsPayment(c)
  BY CommandsAssumption DEF IsApplication
<1>2. [l \in c.legs |-> l.pay] \in [c.legs -> Int] /\ IsFiniteSet(c.legs)
  BY <1>1 DEF IsPayment
<1>3. Allocated(c) \in Int
  BY <1>2, TotalSplits DEF Allocated
<1> QED
  BY <1>1, <1>3 DEF Surplus, IsPayment

\* The credit a payment's surplus leaves, if any.
LEMMA PaymentCredit ==
  ASSUME World, NEW c \in Commands, c.kind = "collect", PaymentAccepted(c, Snapshot(c)),
         NEW k, k = PaymentPlan(c, Snapshot(c)).credit
  PROVE  \/ Surplus(c) = 0 /\ c.credit = None /\ k = None
         \/ /\ Surplus(c) # 0 /\ c.credit \in CreditIds /\ k \in Credit
            /\ k.original = Surplus(c) /\ k.remaining = Surplus(c) /\ Surplus(c) >= 1
            /\ k.carrying = k.originalCarrying /\ k.carrying >= 1
<1> DEFINE s == Snapshot(c)
           rate == PaymentRate(c, world)
           ob == ConvertToBase(Surplus(c), rate)
<1>1. IsPayment(c) /\ s.world = world
  BY CommandsAssumption, SnapshotIs DEF IsApplication
<1>2. Surplus(c) \in Int /\ rate \in PositiveRate
  BY SurplusTyped, RateTyped
<1>3. ob \in Int
  BY <1>2, ConvertTyped
<1>4. Surplus(c) >= 0 /\ (Surplus(c) = 0) = (c.credit = None) /\ (Surplus(c) > 0 => ob > 0)
  BY <1>1 DEF PaymentAccepted
<1>5. k = IF Surplus(c) = 0 THEN None
          ELSE [original |-> Surplus(c), originalCarrying |-> ob, remaining |-> Surplus(c),
                carrying |-> ob, rate |-> rate, ccy |-> c.ccy]
  BY <1>1 DEF PaymentPlan
<1> HIDE DEF ob, rate, s
<1>6. CASE Surplus(c) = 0
  BY <1>4, <1>5, <1>6
<1>7. CASE Surplus(c) # 0
  <2>1. c.credit \in CreditIds /\ Surplus(c) >= 1 /\ ob >= 1
    BY <1>1, <1>2, <1>3, <1>4, <1>7 DEF IsPayment
  <2>2. k = [original |-> Surplus(c), originalCarrying |-> ob, remaining |-> Surplus(c),
             carrying |-> ob, rate |-> rate, ccy |-> c.ccy]
    BY <1>5, <1>7
  <2>3. k \in Credit
    BY <1>1, <1>2, <1>3, <2>2 DEF Credit, IsPayment
  <2> QED  BY <1>7, <2>1, <2>2, <2>3
<1> QED
  BY <1>6, <1>7

-----------------------------------------------------------------------------
(* What carrying out a document does to the rows and the credits. *)

NewRows(c) == Plan(c, Snapshot(c)).rows

\* Money with no surplus; with one; an application.
Squares(c) ==
  /\ c.kind = "collect" /\ Surplus(c) = 0 /\ c.credit = None
  /\ Plan(c, Snapshot(c)).credit = None
  /\ credits' = credits
  /\ \A d \in NewRows(c) : d.credit = None /\ d.consumed = 0 /\ d.level = 0

Leaves(c, k) ==
  /\ c.kind = "collect" /\ Surplus(c) # 0 /\ Surplus(c) >= 1
  /\ c.credit \in CreditIds \ Born /\ credits[c.credit] = None
  /\ k \in Credit /\ k.original = Surplus(c) /\ k.remaining = Surplus(c)
  /\ k.carrying = k.originalCarrying /\ k.carrying >= 1
  /\ Plan(c, Snapshot(c)).credit = k
  /\ credits' = [credits EXCEPT ![c.credit] = k]
  /\ \A d \in NewRows(c) : d.credit = None /\ d.consumed = 0 /\ d.level = 0

Draws(c, d) ==
  /\ c.kind = "apply" /\ c.credit \in Born /\ c.consumed \in 1..credits[c.credit].remaining
  /\ credits' = [credits EXCEPT ![c.credit] = Lower(credits[c.credit], c.consumed)]
  /\ NewRows(c) = {d}
  /\ d.credit = c.credit /\ d.consumed = c.consumed /\ d.level = credits[c.credit].remaining
  /\ d.money = Drawn(c)
  /\ Plan(c, Snapshot(c)).credit = Lower(credits[c.credit], c.consumed)

Books == Rows /\ Credits /\ World

\* A command is a payment or an application.
LEMMA KindIs ==
  ASSUME NEW c \in Commands
  PROVE  c.kind = "collect" \/ (c.kind = "apply" /\ c.credit \in CreditIds)
BY CommandsAssumption DEF IsPayment, IsApplication

\* A document that is carried out writes a row for each of its legs.
LEMMA CarriesWhole ==
  ASSUME Books, NEW c \in Commands, Carries(c)
  PROVE  Whole(c, NewRows(c)) /\ reducers' = reducers \cup NewRows(c)
<1>1. reducers' = reducers \cup NewRows(c)
  BY DEF Carries, NewRows
<1>2. CASE c.kind = "collect"
  BY <1>1, <1>2, PaymentRows DEF Books, Carries, NewRows, Accepted, Plan
<1>3. CASE c.kind = "apply"
  <2>1. PICK d : NewRows(c) = {d} /\ Written(c, d, c.invoice, c.applied)
    BY <1>3, ApplicationRow DEF Books, Carries, NewRows, Accepted, Plan
  <2>2. Legs(c) = {[invoice |-> c.invoice, pay |-> c.consumed, applied |-> c.applied]}
    BY <1>3 DEF Legs, Receivable!Legs
  <2>3. IsFiniteSet({d})
    BY FS_Singleton
  <2> QED  BY <1>1, <2>1, <2>2, <2>3 DEF Whole
<1> QED
  BY <1>2, <1>3, KindIs

\* It leaves the credits alone, leaves a new one, or draws on one.
LEMMA CarriesCredit ==
  ASSUME Books, NEW c \in Commands, Carries(c)
  PROVE  \/ Squares(c)
         \/ \E k : Leaves(c, k)
         \/ \E d : Draws(c, d)
<1> DEFINE k == Plan(c, Snapshot(c)).credit
<1>1. /\ credits' = IF c.credit = None THEN credits ELSE [credits EXCEPT ![c.credit] = k]
      /\ CreditIdFree(c) /\ Accepted(c, Snapshot(c))
  BY DEF Carries
<1>2. CASE c.kind = "collect"
  <2>1. k = PaymentPlan(c, Snapshot(c)).credit /\ PaymentAccepted(c, Snapshot(c))
        /\ NewRows(c) = PaymentPlan(c, Snapshot(c)).rows
    BY <1>1, <1>2 DEF Plan, Accepted, NewRows
  <2>2. \A d \in NewRows(c) : d.credit = None /\ d.consumed = 0 /\ d.level = 0
    BY <1>2, <2>1, PaymentRows DEF Books
  <2>3. k = Plan(c, Snapshot(c)).credit
    OBVIOUS
  <2> HIDE DEF k
  <2>4. \/ Surplus(c) = 0 /\ c.credit = None /\ k = None
        \/ /\ Surplus(c) # 0 /\ c.credit \in CreditIds /\ k \in Credit
           /\ k.original = Surplus(c) /\ k.remaining = Surplus(c) /\ Surplus(c) >= 1
           /\ k.carrying = k.originalCarrying /\ k.carrying >= 1
    BY <1>2, <2>1, PaymentCredit DEF Books
  <2>5. CASE Surplus(c) = 0
    BY <1>1, <1>2, <2>2, <2>3, <2>4, <2>5 DEF Squares
  <2>6. CASE Surplus(c) # 0
    <3>1. c.credit # None
      BY <2>4, <2>6, NoneAssumption
    <3>2. credits[c.credit] = None
      BY <1>1, <1>2, <3>1 DEF CreditIdFree
    <3>3. Leaves(c, k)
      BY <1>1, <1>2, <2>2, <2>3, <2>4, <2>6, <3>1, <3>2 DEF Leaves, Born
    <3> QED  BY <3>3
  <2> QED  BY <2>5, <2>6
<1>3. CASE c.kind = "apply"
  <2>1. /\ c.credit \in Born /\ c.consumed \in 1..credits[c.credit].remaining
        /\ k = Lower(credits[c.credit], c.consumed)
        /\ \E d : /\ NewRows(c) = {d} /\ d.money = Drawn(c)
                  /\ d.credit = c.credit /\ d.consumed = c.consumed /\ d.level = credits[c.credit].remaining
    BY <1>1, <1>3, ApplicationRow DEF Books, NewRows, Accepted, Plan
  <2>2. c.credit # None
    BY <2>1, NoneAssumption DEF Born
  <2> QED  BY <1>1, <1>3, <2>1, <2>2 DEF Draws
<1> QED
  BY <1>2, <1>3, KindIs

\* What is owed of an invoice.
LEMMA OwedTyped ==
  ASSUME Rows, NEW i \in DOMAIN Invoices
  PROVE  Owed(i) \in Int /\ Owed(i) = Invoices[i].total - Paid(i)
BY PaidTyped, InvoiceTyped DEF Owed

\* A leg names an invoice.
LEMMA LegTyped ==
  ASSUME NEW c \in Commands, NEW l \in Legs(c)
  PROVE  l.invoice \in DOMAIN Invoices
<1>1. CASE c.kind = "collect"
  BY <1>1, CommandsAssumption DEF Legs, Receivable!Legs, IsPayment, IsApplication
<1>2. CASE c.kind = "apply"
  BY <1>2, CommandsAssumption DEF Legs, Receivable!Legs, IsPayment, IsApplication
<1> QED
  BY <1>1, <1>2, KindIs

\* A row written is a row.
LEMMA WrittenTyped ==
  ASSUME Rows, NEW c, NEW d, NEW i \in DOMAIN Invoices, NEW a, Written(c, d, i, a)
  PROVE  /\ d.invoice \in DOMAIN Invoices /\ d.applied \in Nat \ {0} /\ d.before \in Int /\ d.released \in Int
         /\ d.dust \in Int /\ d.money \in Int /\ d.realized = d.money - d.released
<1>1. Paid(i) \in Int /\ a \in Int /\ Invoices[i].total \in Nat \ {0} /\ Invoices[i].base \in Int
  BY PaidTyped, InvoiceTyped DEF Written
<1>2. Release(Invoices[i].total, Invoices[i].base, Paid(i), a) \in Int
  BY <1>1, ReleaseTyped
<1> QED
  BY <1>1, <1>2 DEF Written

\* A new row, of whichever document.
LEMMA NewRowTyped ==
  ASSUME Books, NEW c \in Commands, Carries(c), NEW d \in NewRows(c)
  PROVE  RowTyped(d) /\ d.doc = c.doc
<1>1. PICK l \in Legs(c) : Written(c, d, l.invoice, l.applied)
  BY CarriesWhole DEF Whole
<1>2. l.invoice \in DOMAIN Invoices
  BY LegTyped
<1>3. /\ d.invoice \in DOMAIN Invoices /\ d.applied \in Nat \ {0} /\ d.before \in Int /\ d.released \in Int
      /\ d.dust \in Int /\ d.money \in Int /\ d.realized = d.money - d.released
  BY <1>1, <1>2, WrittenTyped DEF Books
<1>4. d.credit \in CreditIds \cup {None} /\ d.consumed \in Int /\ d.level \in Int
  <2>1. CASE Squares(c)
    BY <2>1 DEF Squares
  <2>2. CASE \E k : Leaves(c, k)
    BY <2>2 DEF Leaves
  <2>3. CASE \E e : Draws(c, e)
    <3>1. PICK e : Draws(c, e)
      BY <2>3
    <3>2. credits[c.credit].remaining \in Nat /\ c.credit \in CreditIds
      BY <3>1, CreditTyped DEF Draws, Books, Born
    <3> QED  BY <3>1, <3>2 DEF Draws
  <2> QED  BY <2>1, <2>2, <2>3, CarriesCredit
<1> QED
  BY <1>1, <1>3, <1>4 DEF RowTyped, Written

\* The rows after the step: the old ones, and those of a document now stored.
LEMMA StepRows ==
  ASSUME Books, NEW c \in Commands, Carries(c)
  PROVE  Rows'
<1>1. IsFiniteSet(NewRows(c)) /\ reducers' = reducers \cup NewRows(c)
  BY CarriesWhole DEF Whole
<1>2. IsFiniteSet(reducers')
  BY <1>1, FS_Union DEF Books, Rows
<1>3. documents' = documents \cup {c}
  BY DEF Carries
<1>4. \A d \in NewRows(c) : RowTyped(d) /\ d.doc = c.doc
  BY NewRowTyped
<1>5. \A d \in reducers' : RowTyped(d) /\ Stored(d.doc)'
  BY <1>1, <1>3, <1>4 DEF Books, Rows, Stored
<1> QED
  BY <1>2, <1>5 DEF Rows, RowTyped

\* A credit as it is born carries what it was worth.
LEMMA BornCarrying ==
  ASSUME NEW OA \in Nat \ {0}, NEW OB \in Int, OB >= 1
  PROVE  CreditCarrying(OA, OB, OA) = OB
<1>1. OB * (OA - OA) = 0
  OBVIOUS
<1>2. HalfEven(0, OA) = 0
  BY DEF HalfEven
<1> QED
  BY <1>1, <1>2 DEF CreditCarrying

\* The credits after the step: the one the document names, and the others.
LEMMA StepCredits ==
  ASSUME Books, NEW c \in Commands, Carries(c)
  PROVE  Credits'
<1>1. DOMAIN credits = CreditIds
  BY DEF Books, Credits
<1>2. CASE Squares(c)
  BY <1>2 DEF Squares, Books, Credits, Born
<1>3. ASSUME NEW k, Leaves(c, k) PROVE Credits'
  <2>1. k.original \in Nat \ {0} /\ k.originalCarrying \in Int /\ k.originalCarrying >= 1 /\ k.remaining = k.original
        /\ k.carrying = k.originalCarrying /\ k \in Credit
    BY <1>3, SurplusTyped DEF Leaves, Credit
  <2>2. k.carrying = CreditCarrying(k.original, k.originalCarrying, k.remaining)
    BY <2>1, BornCarrying
  <2>3. credits' = [credits EXCEPT ![c.credit] = k]
    BY <1>3 DEF Leaves
  <2> QED  BY <1>1, <2>1, <2>2, <2>3 DEF Books, Credits, Born
<1>4. ASSUME NEW d, Draws(c, d) PROVE Credits'
  <2> DEFINE o == credits[c.credit]
             k == Lower(o, c.consumed)
  <2>1. o \in Credit /\ o.original \in Nat \ {0} /\ o.originalCarrying \in Int /\ o.remaining \in Nat
        /\ c.consumed \in 1..o.remaining
    BY <1>4, CreditTyped DEF Draws, Books
  <2>2. /\ k \in Credit /\ k.original = o.original /\ k.originalCarrying = o.originalCarrying
        /\ k.remaining = o.remaining - c.consumed
        /\ k.carrying = CreditCarrying(o.original, o.originalCarrying, o.remaining - c.consumed)
    BY <2>1, LowerIs
  <2>3. credits' = [credits EXCEPT ![c.credit] = k]
    BY <1>4 DEF Draws
  <2> HIDE DEF k, o
  <2>4. k.original >= 1 /\ k.remaining >= 0
    BY <2>1, <2>2
  <2>5. k.carrying = CreditCarrying(k.original, k.originalCarrying, k.remaining)
    BY <2>2
  <2> QED  BY <1>1, <2>2, <2>3, <2>4, <2>5 DEF Books, Credits, Born
<1> QED
  BY <1>2, <1>3, <1>4, CarriesCredit

\* The registry, the customer and the method stay what they may be.
LEMMA StepWorld ==
  ASSUME World, [Next]_vars
  PROVE  World'
<1>1. CASE Change
  BY <1>1, RatesAssumption DEF Change, World
<1>2. CASE \E r \in Requests, c \in Commands : Submit(r, c)
  BY <1>2 DEF Submit, Quiet, World
<1>3. CASE \E r \in Requests : Step(r) \/ Abort(r)
  BY <1>3 DEF Step, ReadState, FindIntent, Bind, TakeKey, TakeRow, Settle, Abort, Quiet, World
<1>4. CASE UNCHANGED vars
  BY <1>4 DEF vars, World
<1> QED
  BY <1>1, <1>2, <1>3, <1>4 DEF Next

\* A step writes nothing, or carries out the document of a request.
LEMMA StepWrites ==
  ASSUME Sent, LockInv, [Next]_vars
  PROVE  \/ Unwritten
         \/ \E c \in Commands : Carries(c) /\ ~Stored(c.doc)
<1>1. CASE Idles \/ \E r \in Requests : Begins(r) \/ Proceeds(r) \/ Ends(r) \/ TakesLock(r)
  BY <1>1 DEF Idles, Begins, Proceeds, Ends, TakesLock
<1>2. CASE \E r \in Requests : Settles(r)
  BY <1>2, SettlerLocked DEF Settles
<1> QED
  BY <1>1, <1>2, StepsAre

\* A step keeps the books.
LEMMA StepBooks ==
  ASSUME Sent, LockInv, Books, [Next]_vars
  PROVE  Books'
<1>1. CASE Unwritten
  BY <1>1, StepWorld DEF Books, Unwritten, Rows, Stored, Credits, Born
<1>2. CASE \E c \in Commands : Carries(c)
  BY <1>2, StepRows, StepCredits, StepWorld DEF Books
<1> QED
  BY <1>1, <1>2, StepWrites

\* The books as they begin.
LEMMA InitBooks == Init => Books
<1> SUFFICES ASSUME Init PROVE Books
  OBVIOUS
<1>1. Rows
  BY FS_EmptySet DEF Init, Rows
<1>2. Credits
  BY DEF Init, Credits, Born
<1>3. World
  BY RatesAssumption, AccountsAssumption DEF Init, World
<1> QED
  BY <1>1, <1>2, <1>3 DEF Books

-----------------------------------------------------------------------------
(* Receivables *)

\* An invoice gets at most one row of a document, and is paid by it.
LEMMA PaidMore ==
  ASSUME Rows, NEW c, ~Stored(c.doc), NEW rows, Whole(c, rows), reducers' = reducers \cup rows, NEW i
  PROVE  \/ /\ \A d \in rows : d.invoice # i
            /\ Of(i)' = Of(i) /\ Paid(i)' = Paid(i)
         \/ \E d \in rows : /\ d.invoice = i /\ d \notin Of(i) /\ d.doc = c.doc /\ d.applied \in Nat \ {0}
                            /\ Of(i)' = Of(i) \cup {d} /\ Paid(i)' = Paid(i) + d.applied
<1>1. Of(i)' = Of(i) \cup {d \in rows : d.invoice = i}
  BY DEF Of
<1>2. CASE \A d \in rows : d.invoice # i
  <2>1. Of(i)' = Of(i)
    BY <1>1, <1>2
  <2> QED  BY <1>2, <2>1 DEF Paid
<1>3. ASSUME NEW d \in rows, d.invoice = i
      PROVE  /\ d \notin Of(i) /\ d.doc = c.doc /\ d.applied \in Nat \ {0}
             /\ Of(i)' = Of(i) \cup {d} /\ Paid(i)' = Paid(i) + d.applied
  <2>1. d.doc = c.doc /\ d.applied \in Nat \ {0}
    BY DEF Whole, Written
  <2>2. d \notin Of(i)
    BY <2>1 DEF Rows, Of
  <2>3. {e \in rows : e.invoice = i} = {d}
    BY <1>3 DEF Whole
  <2>4. Of(i)' = Of(i) \cup {d}
    BY <1>1, <2>3
  <2> DEFINE S == Of(i)
             f == [e \in S \cup {d} |-> e.applied]
  <2>5. IsFiniteSet(S) /\ [e \in S |-> e.applied] \in [S -> Int]
    BY PaidTyped
  <2>6. Paid(i) = Total([e \in S |-> e.applied]) /\ Paid(i)' = Total(f)
    BY <2>4 DEF Paid
  <2> HIDE DEF S
  <2>7. f \in [S \cup {d} -> Int]
    BY <2>1, <2>5
  <2>8. Total(f) = f[d] + Total(On(f, S))
    BY <2>2, <2>5, <2>7, TotalAdds DEF S
  <2>9. On(f, S) = [e \in S |-> e.applied] /\ f[d] = d.applied
    BY DEF On
  <2>10. Paid(i) \in Int
    BY PaidTyped
  <2> QED  BY <2>1, <2>2, <2>4, <2>6, <2>8, <2>9, <2>10 DEF S
<1> QED
  BY <1>2, <1>3

\* The abstract specification's sums are these.
LEMMA SameTotal ==
  ASSUME NEW f
  PROVE  Receivable!Total(f) = Total(f)
BY Zenon DEF Receivable!Total, Total, Receivable!MapThenSumSet, MapThenSumSet,
             Receivable!MapThenFoldSet, MapThenFoldSet

\* The abstract surplus is the surplus.
LEMMA SameSurplus ==
  ASSUME NEW c
  PROVE  Receivable!Surplus(c) = Surplus(c)
BY SameTotal DEF Receivable!Surplus, Receivable!Allocated, Surplus, Allocated

\* No two legs of a command name one invoice.
LEMMA LegsDiffer ==
  ASSUME NEW c \in Commands
  PROVE  \A l, m \in Legs(c) : l.invoice = m.invoice => l = m
<1>1. CASE c.kind = "collect"
  BY <1>1, CommandsAssumption DEF Legs, Receivable!Legs, IsPayment, IsApplication
<1>2. CASE c.kind = "apply"
  BY <1>2 DEF Legs, Receivable!Legs
<1> QED
  BY <1>1, <1>2, KindIs

\* What the legs of c apply to an invoice.
AppliedTo(c, i) == Total([l \in {x \in Legs(c) : x.invoice = i} |-> l.applied])

LEMMA LegsApply ==
  ASSUME NEW c \in Commands, NEW rows, Whole(c, rows), NEW i
  PROVE  /\ (\A d \in rows : d.invoice # i) => AppliedTo(c, i) = 0
         /\ \A d \in rows : d.invoice = i => AppliedTo(c, i) = d.applied
<1> DEFINE S == {x \in Legs(c) : x.invoice = i}
           f == [l \in S |-> l.applied]
<1>1. ASSUME \A d \in rows : d.invoice # i PROVE Total(f) = 0
  <2>1. S = {}
    BY <1>1 DEF Whole, Written
  <2> QED  BY <2>1, TotalOfNone
<1>2. ASSUME NEW d \in rows, d.invoice = i PROVE Total(f) = d.applied
  <2>1. PICK l \in Legs(c) : Written(c, d, l.invoice, l.applied)
    BY DEF Whole
  <2>2. l.invoice = i /\ d.applied = l.applied /\ l.applied \in Int
    BY <1>2, <2>1 DEF Written
  <2>3. S = {l}
    BY <2>2, LegsDiffer
  <2>4. DOMAIN f = {l} /\ f[l] = l.applied
    BY <2>3
  <2> HIDE DEF f, S
  <2> QED  BY <2>2, <2>4, TotalOfOne
<1>3. AppliedTo(c, i) = Total(f)
  BY Zenon DEF AppliedTo
<1> HIDE DEF f
<1> QED
  BY ONLY <1>1, <1>2, <1>3

OwedBar == [i \in DOMAIN Invoices |-> Owed(i)]
CreditBar == [k \in CreditIds |-> IF credits[k] = None THEN None ELSE credits[k].remaining]

\* The legs reduce what is owed, all at once, and within what was owed.
LEMMA StepReduces ==
  ASSUME Books, NEW c \in Commands, ~Stored(c.doc), Carries(c)
  PROVE  Receivable!Reduce(c)
<1> DEFINE rows == NewRows(c)
           sum(i) == Receivable!Total([l \in {x \in Receivable!Legs(c) : x.invoice = i} |-> l.applied])
<1>1. Whole(c, rows) /\ reducers' = reducers \cup rows /\ documents' = documents \cup {c}
  BY CarriesWhole DEF Carries
<1> HIDE DEF rows
<1>2. \A d \in documents : d.doc # c.doc
  BY DEF Stored
<1>3. \A l \in Receivable!Legs(c) : l.applied \in 1..OwedBar[l.invoice]
  <2> SUFFICES ASSUME NEW l \in Legs(c) PROVE l.applied \in 1..OwedBar[l.invoice]
    BY DEF Legs
  <2>1. PICK d \in rows : Written(c, d, l.invoice, l.applied)
    BY <1>1 DEF Whole
  <2>2. l.invoice \in DOMAIN Invoices /\ Owed(l.invoice) \in Int
    BY LegTyped, OwedTyped DEF Books
  <2> QED  BY <2>1, <2>2 DEF Written, OwedBar
<1>4. ASSUME NEW i \in DOMAIN Invoices PROVE Owed(i)' = Owed(i) - sum(i)
  <2>1. sum(i) = Total([l \in {x \in Legs(c) : x.invoice = i} |-> l.applied])
    BY SameTotal DEF Legs
  <2>2. Paid(i) \in Int /\ Owed(i) = Invoices[i].total - Paid(i) /\ Invoices[i].total \in Int
    BY PaidTyped, InvoiceTyped DEF Books, Owed
  <2>3. Owed(i)' = Invoices[i].total - Paid(i)'
    BY DEF Owed
  <2> DEFINE t == AppliedTo(c, i)
  <2> HIDE DEF sum, t
  <2>b. /\ (\A d \in rows : d.invoice # i) => t = 0
        /\ \A d \in rows : d.invoice = i => t = d.applied
    BY ONLY c \in Commands, <1>1, LegsApply DEF t
  <2>c. sum(i) = t
    BY <2>1, Zenon DEF AppliedTo, t
  <2>4. CASE \A d \in rows : d.invoice # i
    <3>1. sum(i) = 0
      BY <2>4, <2>b, <2>c
    <3>2. Paid(i)' = Paid(i)
      BY <1>1, <2>4, PaidMore DEF Books
    <3> QED  BY <2>2, <2>3, <3>1, <3>2
  <2>5. CASE \E d \in rows : d.invoice = i
    <3>1. PICK d \in rows : d.invoice = i /\ d.applied \in Int /\ Paid(i)' = Paid(i) + d.applied
      BY <1>1, <2>5, PaidMore DEF Books
    <3>3. sum(i) = d.applied
      BY <3>1, <2>b, <2>c
    <3> QED  BY <2>2, <2>3, <3>1, <3>3
  <2> QED  BY <2>4, <2>5
<1> HIDE DEF sum
<1>5. OwedBar' = [i \in DOMAIN OwedBar |-> OwedBar[i] - sum(i)]
  <2>1. DOMAIN OwedBar = DOMAIN Invoices /\ \A i \in DOMAIN Invoices : OwedBar[i] = Owed(i)
    BY DEF OwedBar
  <2>2. OwedBar' = [i \in DOMAIN Invoices |-> Owed(i)']
    BY DEF OwedBar
  <2> HIDE DEF OwedBar
  <2> QED  BY <1>4, <2>1, <2>2
<1> QED
  BY <1>1, <1>2, <1>3, <1>5 DEF Receivable!Reduce, OwedBar, sum

\* A document carried out is one step of the receivables.
LEMMA StepReceives ==
  ASSUME Books, NEW c \in Commands, ~Stored(c.doc), Carries(c)
  PROVE  Receivable!Collect(c) \/ Receivable!Apply(c)
<1>1. Receivable!Reduce(c)
  BY StepReduces
<1>2. DOMAIN credits = CreditIds
  BY DEF Books, Credits
<1>3. CASE Squares(c)
  <2>1. Receivable!Surplus(c) = 0
    BY <1>3, SameSurplus DEF Squares
  <2>2. CreditBar' = CreditBar
    BY <1>3 DEF Squares, CreditBar
  <2> QED  BY <1>1, <1>3, <2>1, <2>2 DEF Receivable!Collect, Squares, CreditBar
<1>4. ASSUME NEW k, Leaves(c, k) PROVE Receivable!Collect(c)
  <2>1. Receivable!Surplus(c) # 0 /\ k.remaining = Receivable!Surplus(c)
    BY <1>4, SameSurplus DEF Leaves
  <2>2. k # None
    BY <1>4, NoneAssumption DEF Leaves
  <2>3. c.credit \in CreditIds /\ CreditBar[c.credit] = None
    BY <1>4 DEF Leaves, CreditBar
  <2>4. CreditBar' = [CreditBar EXCEPT ![c.credit] = k.remaining]
    <3>1. credits' = [credits EXCEPT ![c.credit] = k]
      BY <1>4 DEF Leaves
    <3>2. \A j \in CreditIds : CreditBar'[j] = IF j = c.credit THEN k.remaining ELSE CreditBar[j]
      BY <1>2, <2>2, <3>1 DEF CreditBar
    <3> QED  BY <3>2 DEF CreditBar
  <2> QED  BY <1>1, <1>4, <2>1, <2>3, <2>4 DEF Receivable!Collect, Leaves, CreditBar
<1>5. ASSUME NEW d, Draws(c, d) PROVE Receivable!Apply(c)
  <2> DEFINE o == credits[c.credit]
             k == Lower(o, c.consumed)
  <2>1. /\ o \in Credit /\ o.original \in Nat \ {0} /\ o.remaining \in Nat /\ o # None
        /\ c.credit \in CreditIds /\ c.consumed \in 1..o.remaining /\ c.kind = "apply"
    BY <1>5, CreditTyped DEF Draws, Books, Born
  <2>2. k \in Credit /\ k.remaining = o.remaining - c.consumed
    BY <2>1, LowerIs
  <2>3. k # None
    BY <2>2, NoneAssumption
  <2>4. credits' = [credits EXCEPT ![c.credit] = k]
    BY <1>5 DEF Draws
  <2>5. CreditBar[c.credit] = o.remaining /\ CreditBar[c.credit] # None
    BY <2>1, NoneAssumption DEF CreditBar
  <2> HIDE DEF k
  <2>6. CreditBar' = [CreditBar EXCEPT ![c.credit] = @ - c.consumed]
    <3>1. \A j \in CreditIds : CreditBar'[j] = IF j = c.credit THEN o.remaining - c.consumed ELSE CreditBar[j]
      BY <1>2, <2>2, <2>3, <2>4 DEF CreditBar
    <3> QED  BY <2>5, <3>1 DEF CreditBar
  <2> QED  BY <1>1, <2>1, <2>5, <2>6 DEF Receivable!Apply, CreditBar
<1> QED
  BY <1>3, <1>4, <1>5, CarriesCredit

\* Payments and applications bound from balances read without a lock, recomputed
\* under locks, interleaved and repeated, are those of receivables that carry out
\* each of them in one step.
THEOREM SettlesAtOnce == Spec => ImplementsReceivables
<1>1. Init => Receivable!Init
  <2> SUFFICES ASSUME Init PROVE Receivable!Init
    OBVIOUS
  <2>1. ASSUME NEW i \in DOMAIN Invoices PROVE Owed(i) = Invoices[i].total
    <3>1. Paid(i) = 0
      BY TotalOfNone DEF Init, Paid, Of
    <3> QED  BY <3>1, InvoiceTyped DEF Owed
  <2> QED  BY <2>1 DEF Init, Receivable!Init
<1>2. Sent /\ LockInv /\ Books /\ [Next]_vars => [Receivable!Next]_<<OwedBar, CreditBar, documents>>
  <2> SUFFICES ASSUME Sent, LockInv, Books, [Next]_vars
               PROVE  [Receivable!Next]_<<OwedBar, CreditBar, documents>>
    OBVIOUS
  <2>1. CASE Unwritten
    <3>1. OwedBar' = OwedBar /\ CreditBar' = CreditBar /\ documents' = documents
      BY <2>1 DEF Unwritten, OwedBar, Owed, Paid, Of, CreditBar
    <3> QED  BY <3>1
  <2>2. CASE \E c \in Commands : Carries(c) /\ ~Stored(c.doc)
    BY <2>2, StepReceives DEF Receivable!Next
  <2> QED  BY <2>1, <2>2, StepWrites
<1>3. Sent /\ LockInv /\ Books /\ [Next]_vars => Books'
  BY StepBooks
<1>4. Spec => [](Sent /\ LockInv)
  BY Serves
<1>5. Spec => []Books
  BY <1>3, <1>4, InitBooks, PTL DEF Spec
<1>6. [Receivable!Next]_<<OwedBar, CreditBar, documents>>
         => [Receivable!Next]_<<[i \in DOMAIN Invoices |-> Owed(i)],
                               [k \in CreditIds |-> IF credits[k] = None THEN None ELSE credits[k].remaining],
                               documents>>
  BY DEF OwedBar, CreditBar
<1> QED
  BY <1>1, <1>2, <1>4, <1>5, <1>6, PTL DEF Spec, ImplementsReceivables, Receivable!Spec

-----------------------------------------------------------------------------
(* Chains *)

Earlier(d) == {x \in Of(d.invoice) \ {d} : x.before <= d.before}
Higher(d) == {x \in Uses(d.credit) \ {d} : x.level >= d.level}
Used(k) == Total([d \in Uses(k) |-> d.consumed])

\* A row ends within what is paid of its invoice, so that a later one starts
\* after it; a credit has lost what was consumed of it.
InvoiceChains ==
  \A d \in reducers :
    /\ d.before + d.applied <= Paid(d.invoice)
    /\ d.before = Total([e \in Earlier(d) |-> e.applied])
    /\ d.released = Release(Invoices[d.invoice].total, Invoices[d.invoice].base, d.before, d.applied)

CreditChains ==
  /\ \A k \in Born :
       /\ credits[k].remaining = credits[k].original - Used(k)
       /\ \A d \in Uses(k) : /\ d.consumed >= 1 /\ d.level - d.consumed >= credits[k].remaining
                             /\ d.level = credits[k].original - Total([e \in Higher(d) |-> e.consumed])
  /\ \A k \in CreditIds \ Born : Uses(k) = {}

\* The chains, as the verifiers see them.
LEMMA ChainsAre == InvoiceChains /\ CreditChains => ChainsVerify
BY DEF InvoiceChains, CreditChains, ChainsVerify, Earlier, Higher, Uses

\* A new row of an invoice starts where those before it end.
LEMMA StepInvoiceChains ==
  ASSUME Books, InvoiceChains, NEW c \in Commands, ~Stored(c.doc), Carries(c)
  PROVE  InvoiceChains'
<1> DEFINE rows == NewRows(c)
<1>1. Whole(c, rows) /\ reducers' = reducers \cup rows
  BY CarriesWhole
<1>2. \A d \in reducers : RowTyped(d)
  BY DEF Books, Rows
<1> HIDE DEF rows
<1> SUFFICES ASSUME NEW d \in reducers'
             PROVE  /\ d.before + d.applied <= Paid(d.invoice)'
                    /\ d.before = Total([e \in Earlier(d)' |-> e.applied])
                    /\ d.released = Release(Invoices[d.invoice].total, Invoices[d.invoice].base, d.before, d.applied)
  BY DEF InvoiceChains
<1> DEFINE i == d.invoice
<1>3. Earlier(d)' = {x \in Of(i)' \ {d} : x.before <= d.before}
  BY DEF Earlier
<1>4. Paid(i) \in Int
  BY PaidTyped DEF Books
<1>5. \A x \in Of(i) : x.before \in Int /\ x.applied \in Nat \ {0} /\ x.before + x.applied <= Paid(i)
  BY <1>2 DEF InvoiceChains, Of, RowTyped
<1>6. CASE \A e \in rows : e.invoice # i
  <2>1. d \in reducers /\ Of(i)' = Of(i) /\ Paid(i)' = Paid(i)
    BY <1>1, <1>6, PaidMore DEF Books
  <2>2. Earlier(d)' = Earlier(d)
    BY <1>3, <2>1 DEF Earlier
  <2> QED  BY <2>1, <2>2 DEF InvoiceChains
<1>7. CASE \E e \in rows : e.invoice = i
  <2>1. PICK e \in rows : /\ e.invoice = i /\ e \notin Of(i) /\ e.applied \in Nat \ {0}
                          /\ Of(i)' = Of(i) \cup {e} /\ Paid(i)' = Paid(i) + e.applied
    BY <1>1, <1>7, PaidMore DEF Books
  <2>2. e.before = Paid(i) /\ e.released = Release(Invoices[i].total, Invoices[i].base, e.before, e.applied)
    BY <1>1, <2>1 DEF Whole, Written
  <2>3. CASE d = e
    <3>1. Earlier(d)' = Of(i)
      BY <1>3, <1>4, <1>5, <2>1, <2>2, <2>3
    <3>2. Total([x \in Earlier(d)' |-> x.applied]) = Paid(i)
      BY <3>1 DEF Paid
    <3> QED  BY <1>4, <2>1, <2>2, <2>3, <3>2
  <2>4. CASE d # e
    <3>1. d \in reducers /\ d \in Of(i)
      BY <1>1, <2>1, <2>4 DEF Whole, Of
    <3>2. d.before < e.before
      BY <1>4, <1>5, <2>2, <3>1
    <3>3. ~(e.before <= d.before)
      BY <1>4, <1>5, <2>2, <3>1, <3>2
    <3>4. Earlier(d)' = Earlier(d)
      BY <1>3, <2>1, <3>3 DEF Earlier
    <3>5. d.before + d.applied <= Paid(i) + e.applied
      BY <1>4, <1>5, <2>1, <3>1
    <3> QED  BY <2>1, <3>1, <3>4, <3>5 DEF InvoiceChains
  <2> QED  BY <2>3, <2>4
<1> QED
  BY <1>6, <1>7

\* What was consumed of a credit is a sum.
LEMMA UsedTyped ==
  ASSUME Rows, NEW k
  PROVE  /\ IsFiniteSet(Uses(k)) /\ [d \in Uses(k) |-> d.consumed] \in [Uses(k) -> Int]
         /\ Used(k) \in Int
<1>1. IsFiniteSet(Uses(k))
  BY FS_Subset DEF Rows, Uses
<1>2. [d \in Uses(k) |-> d.consumed] \in [Uses(k) -> Int]
  BY DEF Rows, RowTyped, Uses
<1> HIDE DEF Uses
<1> QED
  BY <1>1, <1>2, TotalSplits DEF Used

\* What holds of one credit and its rows.
CreditChained(k) ==
  /\ k \in Born =>
       /\ credits[k].remaining = credits[k].original - Used(k)
       /\ \A d \in Uses(k) : /\ d.consumed >= 1 /\ d.level - d.consumed >= credits[k].remaining
                             /\ d.level = credits[k].original - Total([e \in Higher(d) |-> e.consumed])
  /\ k \notin Born => Uses(k) = {}

\* The chains, credit by credit.
LEMMA CreditChainsAre == CreditChains <=> \A k \in CreditIds : CreditChained(k)
BY DEF CreditChains, CreditChained, Born

\* A credit whose rows and record stay as they are.
LEMMA CreditKept ==
  ASSUME NEW k \in CreditIds, CreditChained(k), Uses(k)' = Uses(k), credits'[k] = credits[k]
  PROVE  CreditChained(k)'
<1>1. (k \in Born) <=> (k \in Born')
  BY DEF Born
<1>2. \A d \in Uses(k) : Higher(d)' = Higher(d)
  BY DEF Higher, Uses
<1>3. Used(k)' = Used(k)
  BY DEF Used
<1> QED
  BY <1>1, <1>2, <1>3 DEF CreditChained

\* A new row of a credit starts at what remained.
LEMMA StepCreditChains ==
  ASSUME Books, CreditChains, NEW c \in Commands, ~Stored(c.doc), Carries(c)
  PROVE  CreditChains'
<1> DEFINE rows == NewRows(c)
<1>1. Whole(c, rows) /\ reducers' = reducers \cup rows
  BY CarriesWhole
<1>2. DOMAIN credits = CreditIds
  BY DEF Books, Credits
<1>3. \A k : Uses(k)' = Uses(k) \cup {d \in rows : d.credit = k}
  BY <1>1 DEF Uses
<1>4. \A k \in CreditIds : CreditChained(k)
  BY CreditChainsAre
<1>5. ASSUME \A d \in rows : d.credit = None, NEW k \in CreditIds PROVE Uses(k)' = Uses(k)
  BY <1>3, <1>5, NoneAssumption
<1>6. CASE Squares(c)
  <2>1. \A k \in CreditIds : Uses(k)' = Uses(k) /\ credits'[k] = credits[k]
    BY <1>5, <1>6 DEF Squares
  <2> QED  BY <1>4, <2>1, CreditKept, CreditChainsAre DEF CreditChains, CreditChained, Born
<1>7. ASSUME NEW n, Leaves(c, n) PROVE CreditChains'
  <2>1. \A k \in CreditIds : Uses(k)' = Uses(k)
    BY <1>5, <1>7 DEF Leaves
  <2>2. \A k \in CreditIds \ {c.credit} : credits'[k] = credits[k]
    BY <1>2, <1>7 DEF Leaves
  <2>3. credits'[c.credit] = n /\ c.credit \in CreditIds /\ c.credit \notin Born
    BY <1>2, <1>7 DEF Leaves
  <2>4. Uses(c.credit)' = {}
    BY <1>4, <2>1, <2>3 DEF CreditChained
  <2>5. Used(c.credit)' = 0
    BY <2>4, TotalOfNone DEF Used
  <2>6. n.remaining = n.original - 0
    BY <1>7 DEF Leaves, Credit
  <2>7. CreditChained(c.credit)'
    BY <2>3, <2>4, <2>5, <2>6 DEF CreditChained
  <2>8. \A k \in CreditIds \ {c.credit} : CreditChained(k)'
    BY <1>4, <2>1, <2>2, CreditKept
  <2> QED  BY <2>7, <2>8 DEF CreditChains, CreditChained, Born
<1>8. ASSUME NEW d, Draws(c, d) PROVE CreditChains'
  <2> DEFINE k == c.credit
             o == credits[k]
             n == Lower(o, c.consumed)
  <2>1. /\ o \in Credit /\ o.original \in Nat \ {0} /\ o.remaining \in Nat /\ k \in CreditIds /\ k \in Born
        /\ c.consumed \in 1..o.remaining
    BY <1>8, CreditTyped DEF Draws, Books, Born
  <2>a. c.consumed \in Int /\ c.consumed >= 1 /\ c.consumed <= o.remaining /\ o.remaining \in Int
    BY <2>1
  <2>2. n \in Credit /\ n.remaining = o.remaining - c.consumed /\ n.original = o.original
    BY <2>1, LowerIs
  <2>3. credits' = [credits EXCEPT ![k] = n] /\ rows = {d}
        /\ d.credit = k /\ d.consumed = c.consumed /\ d.level = o.remaining
    BY <1>8 DEF Draws
  <2> HIDE DEF n, o
  <2>4. \A j \in CreditIds \ {k} : Uses(j)' = Uses(j) /\ credits'[j] = credits[j]
    BY <1>2, <1>3, <2>3
  <2>5. \A j \in CreditIds \ {k} : CreditChained(j)'
    BY <1>4, <2>4, CreditKept
  <2>6. Uses(k)' = Uses(k) \cup {d} /\ credits'[k] = n
    BY <1>2, <1>3, <2>1, <2>3
  <2>7. d \notin Uses(k) /\ d.doc = c.doc
    <3>1. d.doc = c.doc
      BY <2>3, NewRowTyped
    <3> QED  BY <3>1 DEF Books, Rows, Uses
  <2>8. IsFiniteSet(Uses(k)) /\ [e \in Uses(k) |-> e.consumed] \in [Uses(k) -> Int] /\ Used(k) \in Int
    BY UsedTyped DEF Books
  <2>9. Used(k)' = Used(k) + c.consumed
    <3> DEFINE S == Uses(k)
               f == [e \in S \cup {d} |-> e.consumed]
    <3>1. Used(k)' = Total(f) /\ Used(k) = Total([e \in S |-> e.consumed])
      BY <2>6 DEF Used
    <3> HIDE DEF S
    <3>2. f \in [S \cup {d} -> Int]
      <4>1. d.consumed \in Int /\ \A e \in S : e.consumed \in Int
        BY <2>a, <2>3, <2>8 DEF S
      <4> QED  BY <4>1
    <3>3. Total(f) = f[d] + Total(On(f, S))
      BY <2>7, <2>8, <3>2, TotalAdds DEF S
    <3>4. On(f, S) = [e \in S |-> e.consumed] /\ f[d] = c.consumed
      BY <2>3 DEF On
    <3> QED  BY <2>1, <2>8, <3>1, <3>3, <3>4
  <2>10. o.remaining = o.original - Used(k)
    BY <1>4, <2>1 DEF CreditChained, o
  <2>11. n.remaining = n.original - Used(k)'
    BY <2>1, <2>2, <2>8, <2>9, <2>10
  <2>12. \A x \in Uses(k) : /\ x.consumed \in Int /\ x.level \in Int /\ x.credit = k
                            /\ x.consumed >= 1 /\ x.level - x.consumed >= o.remaining
                            /\ x.level = o.original - Total([e \in Higher(x) |-> e.consumed])
    <3>1. \A x \in Uses(k) : x.consumed \in Int /\ x.level \in Int /\ x.credit = k
      BY DEF Books, Rows, RowTyped, Uses
    <3> QED  BY <1>4, <2>1, <3>1 DEF CreditChained, o
  <2>b. \A x \in Uses(k) : /\ x.consumed \in Int /\ x.level \in Int
                           /\ x.consumed >= 1 /\ x.level - x.consumed >= o.remaining
    BY <2>12
  <2>13. ASSUME NEW x \in Uses(k)
         PROVE  Higher(x)' = Higher(x)
    <3>1. x.level > d.level /\ x.level \in Int /\ d.level \in Int
      BY <2>a, <2>b, <2>3
    <3>2. ~(d.level >= x.level)
      BY <3>1
    <3> QED  BY <2>6, <2>12, <3>2 DEF Higher
  <2>14. Higher(d)' = Uses(k)
    <3>1. \A x \in Uses(k) : x.level >= d.level
      BY <2>a, <2>b, <2>3
    <3> QED  BY <2>3, <2>6, <2>7, <3>1 DEF Higher
  <2>15. Total([e \in Higher(d)' |-> e.consumed]) = Used(k)
    BY <2>14 DEF Used
  <2>16. ASSUME NEW x \in Uses(k)'
         PROVE  /\ x.consumed >= 1 /\ x.level - x.consumed >= n.remaining
                /\ x.level = n.original - Total([e \in Higher(x)' |-> e.consumed])
    <3>1. CASE x = d
      BY <2>1, <2>2, <2>3, <2>8, <2>10, <2>15, <3>1
    <3>2. CASE x \in Uses(k)
      <4>1. x.level = n.original - Total([e \in Higher(x)' |-> e.consumed])
        BY <2>2, <2>12, <2>13, <3>2
      <4>2. x.consumed >= 1 /\ x.level - x.consumed >= n.remaining
        BY <2>a, <2>b, <2>2, <3>2
      <4> QED  BY <4>1, <4>2
    <3> QED  BY <2>6, <3>1, <3>2
  <2>17. k \in Born'
    BY <2>1, <2>2, <2>6, NoneAssumption DEF Born
  <2>18. CreditChained(k)'
    BY <2>6, <2>11, <2>16, <2>17 DEF CreditChained
  <2> QED  BY <2>5, <2>18 DEF CreditChains, CreditChained, Born
<1> QED
  BY <1>6, <1>7, <1>8, CarriesCredit

\* Without a write the chains stay.
LEMMA StillChains ==
  ASSUME InvoiceChains, CreditChains, Unwritten
  PROVE  InvoiceChains' /\ CreditChains'
<1>1. reducers' = reducers /\ credits' = credits
  BY DEF Unwritten
<1>2. \A i : Of(i)' = Of(i) /\ Paid(i)' = Paid(i)
  BY ONLY <1>1, Zenon DEF Of, Paid
<1>3. \A k : Uses(k)' = Uses(k) /\ Used(k)' = Used(k)
  BY ONLY <1>1, Zenon DEF Uses, Used
<1>4. \A d : Earlier(d)' = Earlier(d)
  BY ONLY <1>2 DEF Earlier
<1>5. \A d : Higher(d)' = Higher(d)
  BY ONLY <1>3 DEF Higher
<1>6. Born' = Born
  BY ONLY <1>1 DEF Born
<1>7. InvoiceChains'
  BY <1>1, <1>2, <1>4, Zenon DEF InvoiceChains
<1>8. CreditChains'
  BY <1>1, <1>3, <1>5, <1>6, Zenon DEF CreditChains
<1> QED  BY <1>7, <1>8

\* The rows and the credits are always those a document may write.
THEOREM Settled == Spec => []Books
<1>1. Sent /\ LockInv /\ Books /\ [Next]_vars => Books'
  BY StepBooks
<1> QED
  BY <1>1, InitBooks, Serves, PTL DEF Spec

\* The rows of an invoice chain from zero, those of a credit from its original
\* amount down: the deferred verifiers have nothing to refuse.
THEOREM ChainsHold == Spec => []ChainsVerify
<1>1. Init => InvoiceChains /\ CreditChains
  BY DEF Init, InvoiceChains, CreditChains, Born, Uses
<1>2. Sent /\ LockInv /\ Books /\ InvoiceChains /\ CreditChains /\ [Next]_vars => (InvoiceChains /\ CreditChains)'
  <2> SUFFICES ASSUME Sent, LockInv, Books, InvoiceChains, CreditChains, [Next]_vars
               PROVE  InvoiceChains' /\ CreditChains'
    OBVIOUS
  <2> QED  BY StepWrites, StillChains, StepInvoiceChains, StepCreditChains
<1> QED
  BY <1>1, <1>2, Serves, Settled, ChainsAre, PTL DEF Spec

-----------------------------------------------------------------------------
(* Entries: what the lines of one sum up to, as a whole and by account. *)

Amounts(S) == Total([l \in S |-> l.amount])

Lined(S) == IsFiniteSet(S) /\ \A l \in S : l.amount \in Int

\* The sum of lines.
LEMMA AmountsTyped ==
  ASSUME NEW S, Lined(S)
  PROVE  Amounts(S) \in Int
<1>1. IsFiniteSet(S) /\ [l \in S |-> l.amount] \in [S -> Int]
  BY DEF Lined
<1> QED
  BY <1>1, TotalSplits DEF Amounts

LEMMA AmountsOfNone == Amounts({}) = 0 /\ Lined({})
BY TotalOfNone, FS_EmptySet DEF Amounts, Lined

\* Two sets of lines that have none in common.
LEMMA AmountsAdd ==
  ASSUME NEW S, NEW U, Lined(S), Lined(U), S \cap U = {}
  PROVE  Lined(S \cup U) /\ Amounts(S \cup U) = Amounts(S) + Amounts(U)
<1> DEFINE D == S \cup U
           f == [l \in D |-> l.amount]
<1>1. IsFiniteSet(D) /\ f \in [D -> Int]
  BY FS_Union DEF Lined
<1>2. On(f, S) = [l \in S |-> l.amount] /\ On(f, D \ S) = [l \in U |-> l.amount]
  <2>1. D \ S = U
    OBVIOUS
  <2> QED  BY <2>1 DEF On
<1>3. S \in SUBSET D
  OBVIOUS
<1> HIDE DEF D, f
<1>4. Total(f) = Total(On(f, S)) + Total(On(f, D \ S))
  BY <1>1, <1>3, TotalOfParts
<1> QED
  BY <1>1, <1>2, <1>4 DEF Amounts, Lined, D, f

\* A line, left out when its amount is zero.
LEMMA LineIs ==
  ASSUME NEW a, NEW p, NEW x \in Int
  PROVE  /\ Lined(Line(a, p, x)) /\ Amounts(Line(a, p, x)) = x
         /\ \A l \in Line(a, p, x) : l.account = a /\ l.part = p
<1>1. CASE x = 0
  BY <1>1, AmountsOfNone DEF Line
<1>2. CASE x # 0
  <2> DEFINE l == [account |-> a, part |-> p, amount |-> x]
             f == [m \in {l} |-> m.amount]
  <2>1. Line(a, p, x) = {l} /\ l.amount = x /\ l.account = a /\ l.part = p
    BY <1>2 DEF Line
  <2>2. DOMAIN f = {l} /\ f[l] = x
    BY <2>1
  <2>3. Amounts({l}) = Total(f)
    BY DEF Amounts
  <2> HIDE DEF f, l
  <2>4. Total(f) = x
    BY <2>2, TotalOfOne
  <2> QED  BY <2>1, <2>3, <2>4, FS_Singleton DEF Lined
<1> QED
  BY <1>1, <1>2

\* The lines of an entry whose money lines are M.
LinesOf(d, M) == ArLines(d) \cup M \cup RealizedLine(d.realized)

At(S, account) == {x \in S : x.account = account}

\* The lines of an allocation or application sum to zero, and the receivable's to
\* what is released, dust and gain included.
LEMMA EntryBalances ==
  ASSUME NEW d, d.released \in Int, d.dust \in Int, d.money \in Int, d.realized = d.money - d.released,
         NEW M, Lined(M), Amounts(M) = d.money, \A l \in M : l.account \notin {"receivable", "fx"}
  PROVE  /\ Lined(LinesOf(d, M)) /\ Amounts(LinesOf(d, M)) = 0
         /\ Amounts(At(LinesOf(d, M), "receivable")) = -d.released
         /\ At(LinesOf(d, M), "credit") = At(M, "credit")
<1> DEFINE P == Line("receivable", "principal", d.dust - d.released)
           U == Line("receivable", "dust", -d.dust)
           F == Line("fx", "realized", -d.realized)
<1>1. Lined(P) /\ Amounts(P) = d.dust - d.released /\ \A l \in P : l.account = "receivable" /\ l.part = "principal"
  <2>1. d.dust - d.released \in Int
    OBVIOUS
  <2> QED  BY <2>1, LineIs
<1>2. Lined(U) /\ Amounts(U) = -d.dust /\ \A l \in U : l.account = "receivable" /\ l.part = "dust"
  <2>1. -d.dust \in Int
    OBVIOUS
  <2> QED  BY <2>1, LineIs
<1>3. Lined(F) /\ Amounts(F) = -d.realized /\ \A l \in F : l.account = "fx"
  <2>1. -d.realized \in Int
    OBVIOUS
  <2> QED  BY <2>1, LineIs
<1>4. LinesOf(d, M) = ((P \cup U) \cup M) \cup F
  BY DEF LinesOf, ArLines, RealizedLine
<1> HIDE DEF P, U, F
<1>5. P \cap U = {} /\ (P \cup U) \cap M = {} /\ ((P \cup U) \cup M) \cap F = {}
  BY <1>1, <1>2, <1>3
<1>6. Lined(P \cup U) /\ Amounts(P \cup U) = -d.released
  <2>1. Lined(P \cup U) /\ Amounts(P \cup U) = Amounts(P) + Amounts(U)
    BY <1>1, <1>2, <1>5, AmountsAdd
  <2> QED  BY <1>1, <1>2, <2>1
<1>7. Lined((P \cup U) \cup M) /\ Amounts((P \cup U) \cup M) = d.money - d.released
  <2>1. /\ Lined((P \cup U) \cup M)
        /\ Amounts((P \cup U) \cup M) = Amounts(P \cup U) + Amounts(M)
    BY <1>5, <1>6, AmountsAdd
  <2> QED  BY <1>6, <2>1
<1>8. Lined(LinesOf(d, M)) /\ Amounts(LinesOf(d, M)) = 0
  <2>1. /\ Lined(((P \cup U) \cup M) \cup F)
        /\ Amounts(((P \cup U) \cup M) \cup F) = Amounts((P \cup U) \cup M) + Amounts(F)
    BY <1>3, <1>5, <1>7, AmountsAdd
  <2> QED  BY <1>3, <1>4, <1>7, <2>1
<1>9. At(LinesOf(d, M), "receivable") = P \cup U
  BY <1>1, <1>2, <1>3, <1>4 DEF At
<1>10. At(LinesOf(d, M), "credit") = At(M, "credit")
  BY <1>1, <1>2, <1>3, <1>4 DEF At
<1> QED
  BY <1>6, <1>8, <1>9, <1>10

-----------------------------------------------------------------------------
(* The entries of a document. *)

MoneyLines(c, p, d) ==
  IF c.kind = "apply"
  THEN Line("credit", "principal", ConvertToBase(d.consumed, p.credit.rate))
         \cup Line("credit", "dust", d.money - ConvertToBase(d.consumed, p.credit.rate))
  ELSE Line(p.account, "money", d.money)

EntryOf(c, p, d) == [source |-> <<c.doc, d.invoice>>, lines |-> LinesOf(d, MoneyLines(c, p, d))]

SurplusLines(p) ==
  Line(p.account, "money", p.credit.carrying) \cup Line("credit", "principal", -p.credit.carrying)

SurplusEntry(c, p) == [source |-> <<c.doc, 0>>, lines |-> SurplusLines(p)]

\* The entries of a document, for each kind of it.
LEMMA EntriesAre ==
  ASSUME NEW c, NEW p
  PROVE  /\ c.kind = "apply" => Entries(c, p) = {EntryOf(c, p, d) : d \in p.rows}
         /\ c.kind # "apply" /\ p.credit = None => Entries(c, p) = {EntryOf(c, p, d) : d \in p.rows}
         /\ c.kind # "apply" /\ p.credit # None =>
              Entries(c, p) = {EntryOf(c, p, d) : d \in p.rows} \cup {SurplusEntry(c, p)}
<1>1. CASE c.kind = "apply"
  BY <1>1 DEF Entries, EntryOf, LinesOf, MoneyLines
<1>2. CASE c.kind # "apply"
  BY <1>2 DEF Entries, EntryOf, LinesOf, MoneyLines, SurplusEntry, SurplusLines
<1> QED
  BY <1>1, <1>2

\* Balanced entries with what they move.
Balanced(e) == Lined(e.lines) /\ Amounts(e.lines) = 0

\* What an entry moves of an account.
LEMMA MovedIs ==
  ASSUME NEW e, NEW a
  PROVE  Moved(e, a) = Amounts(At(e.lines, a))
BY DEF Moved, Amounts, At

LEMMA MovedTyped ==
  ASSUME NEW e, Balanced(e), NEW a
  PROVE  Moved(e, a) \in Int
<1>1. Lined(At(e.lines, a))
  BY FS_Subset DEF Balanced, Lined, At
<1> QED
  BY <1>1, AmountsTyped, MovedIs

PostingAccount(a) == a \notin {"receivable", "credit", "fx"}

\* The entry of a payment's allocation.
LEMMA AllocationEntry ==
  ASSUME NEW c, c.kind # "apply", NEW p, PostingAccount(p.account), NEW d, RowTyped(d), NEW e, e = EntryOf(c, p, d)
  PROVE  Balanced(e) /\ Moved(e, "receivable") = -d.released /\ Moved(e, "credit") = 0
<1> DEFINE M == MoneyLines(c, p, d)
<1>1. M = Line(p.account, "money", d.money)
  BY DEF MoneyLines
<1>2. /\ d.released \in Int /\ d.dust \in Int /\ d.money \in Int /\ d.realized = d.money - d.released
  BY DEF RowTyped
<1>3. Lined(M) /\ Amounts(M) = d.money /\ \A l \in M : l.account = p.account
  BY <1>1, <1>2, LineIs
<1>4. e.lines = LinesOf(d, M)
  BY DEF EntryOf
<1> HIDE DEF M
<1>5. \A l \in M : l.account \notin {"receivable", "fx"}
  BY <1>3 DEF PostingAccount
<1>6. /\ Lined(LinesOf(d, M)) /\ Amounts(LinesOf(d, M)) = 0
      /\ Amounts(At(LinesOf(d, M), "receivable")) = -d.released
      /\ At(LinesOf(d, M), "credit") = At(M, "credit")
  BY <1>2, <1>3, <1>5, EntryBalances
<1>7. At(M, "credit") = {}
  BY <1>3 DEF PostingAccount, At
<1> QED
  BY <1>4, <1>6, <1>7, MovedIs, AmountsOfNone DEF Balanced

\* The entry of an application.
LEMMA ApplicationEntry ==
  ASSUME NEW c, c.kind = "apply", NEW p, p.credit.rate \in PositiveRate, NEW d, RowTyped(d), NEW e, e = EntryOf(c, p, d)
  PROVE  Balanced(e) /\ Moved(e, "receivable") = -d.released /\ Moved(e, "credit") = d.money
<1> DEFINE M == MoneyLines(c, p, d)
           conv == ConvertToBase(d.consumed, p.credit.rate)
           P == Line("credit", "principal", conv)
           U == Line("credit", "dust", d.money - conv)
<1>1. M = P \cup U
  BY DEF MoneyLines
<1>2. /\ d.released \in Int /\ d.dust \in Int /\ d.money \in Int /\ d.realized = d.money - d.released
      /\ d.consumed \in Int
  BY DEF RowTyped
<1>3. conv \in Int
  BY <1>2, ConvertTyped
<1>4. e.lines = LinesOf(d, M)
  BY DEF EntryOf
<1> HIDE DEF M, conv
<1>5. Lined(P) /\ Amounts(P) = conv /\ \A l \in P : l.account = "credit" /\ l.part = "principal"
  BY <1>3, LineIs
<1>6. Lined(U) /\ Amounts(U) = d.money - conv /\ \A l \in U : l.account = "credit" /\ l.part = "dust"
  <2>1. d.money - conv \in Int
    BY <1>2, <1>3
  <2> QED  BY <2>1, LineIs
<1> HIDE DEF P, U
<1>7. Lined(M) /\ Amounts(M) = d.money
  <2>1. P \cap U = {}
    BY <1>5, <1>6
  <2>2. Lined(P \cup U) /\ Amounts(P \cup U) = Amounts(P) + Amounts(U)
    BY <1>5, <1>6, <2>1, AmountsAdd
  <2> QED  BY <1>1, <1>2, <1>3, <1>5, <1>6, <2>2
<1>8. (\A l \in M : l.account = "credit") /\ \A l \in M : l.account \notin {"receivable", "fx"}
  BY <1>1, <1>5, <1>6
<1>9. /\ Lined(LinesOf(d, M)) /\ Amounts(LinesOf(d, M)) = 0
      /\ Amounts(At(LinesOf(d, M), "receivable")) = -d.released
      /\ At(LinesOf(d, M), "credit") = At(M, "credit")
  BY <1>2, <1>7, <1>8, EntryBalances
<1>10. At(M, "credit") = M
  BY <1>8 DEF At
<1> QED
  BY <1>4, <1>7, <1>9, <1>10, MovedIs DEF Balanced

\* The entry of a payment's surplus.
LEMMA SurplusIs ==
  ASSUME NEW c, NEW p, PostingAccount(p.account), p.credit.carrying \in Int, NEW e, e = SurplusEntry(c, p)
  PROVE  Balanced(e) /\ Moved(e, "receivable") = 0 /\ Moved(e, "credit") = -p.credit.carrying
<1> DEFINE x == p.credit.carrying
           M == Line(p.account, "money", x)
           C == Line("credit", "principal", -x)
<1>1. e.lines = M \cup C
  BY DEF SurplusEntry, SurplusLines
<1>2. Lined(M) /\ Amounts(M) = x /\ \A l \in M : l.account = p.account
  BY LineIs
<1>3. Lined(C) /\ Amounts(C) = -x /\ \A l \in C : l.account = "credit"
  <2>1. -x \in Int
    OBVIOUS
  <2> QED  BY <2>1, LineIs
<1> HIDE DEF M, C
<1>4. M \cap C = {}
  BY <1>2, <1>3 DEF PostingAccount
<1>5. Lined(M \cup C) /\ Amounts(M \cup C) = Amounts(M) + Amounts(C)
  BY <1>2, <1>3, <1>4, AmountsAdd
<1>6. At(M \cup C, "receivable") = {} /\ At(M \cup C, "credit") = C
  BY <1>2, <1>3 DEF PostingAccount, At
<1>7. Amounts(M) + Amounts(C) = 0
  BY <1>2, <1>3
<1> QED
  BY <1>1, <1>3, <1>5, <1>6, <1>7, MovedIs, AmountsOfNone DEF Balanced

-----------------------------------------------------------------------------
(* What a set of entries moves, and what a set of rows releases. *)

Moves(N, a) == Total([e \in N |-> Moved(e, a)])
ReleasedBy(rows) == Total([d \in rows |-> d.released])

Entered(N) == IsFiniteSet(N) /\ \A e \in N : Balanced(e)
Releasing(rows) == IsFiniteSet(rows) /\ \A d \in rows : d.released \in Int

\* What entries move of an account is a sum.
LEMMA MovesTyped ==
  ASSUME NEW N, Entered(N), NEW a
  PROVE  [e \in N |-> Moved(e, a)] \in [N -> Int] /\ Moves(N, a) \in Int
<1> DEFINE f == [e \in N |-> Moved(e, a)]
<1>1. f \in [N -> Int]
  <2>1. \A e \in N : Moved(e, a) \in Int
    BY MovedTyped DEF Entered
  <2> QED  BY <2>1
<1>2. Moves(N, a) = Total(f) /\ IsFiniteSet(N)
  BY DEF Moves, Entered
<1> HIDE DEF f
<1>3. Total(f) \in Int
  BY <1>1, <1>2, TotalSplits
<1> QED
  BY <1>1, <1>2, <1>3 DEF f

\* Two sets of entries that have none in common, and a single one.
LEMMA MovesAdd ==
  ASSUME NEW N, Entered(N), NEW P, Entered(P), N \cap P = {}, NEW a
  PROVE  Entered(N \cup P) /\ Moves(N \cup P, a) = Moves(N, a) + Moves(P, a)
<1>1. Entered(N \cup P)
  BY FS_Union DEF Entered
<1> DEFINE U == N \cup P
           g == [e \in U |-> Moved(e, a)]
<1>2. g \in [U -> Int]
  BY <1>1, MovesTyped
<1>3. On(g, N) = [e \in N |-> Moved(e, a)] /\ On(g, P) = [e \in P |-> Moved(e, a)]
  BY DEF On
<1>4. IsFiniteSet(N) /\ IsFiniteSet(P) /\ Moves(U, a) = Total(g)
  BY DEF Entered, Moves
<1> HIDE DEF g
<1>5. Total(g) = Total(On(g, N)) + Total(On(g, P))
  BY <1>2, <1>4, TotalOfUnion
<1> QED
  BY <1>1, <1>3, <1>4, <1>5 DEF Moves

LEMMA MovesOfOne ==
  ASSUME NEW e, Balanced(e), NEW a
  PROVE  Entered({e}) /\ Moves({e}, a) = Moved(e, a)
<1> DEFINE f == [x \in {e} |-> Moved(x, a)]
<1>1. DOMAIN f = {e} /\ f[e] = Moved(e, a) /\ Moved(e, a) \in Int
  BY MovedTyped
<1>2. Moves({e}, a) = Total(f)
  BY DEF Moves
<1> HIDE DEF f
<1>3. Total(f) = f[e]
  BY <1>1, TotalOfOne
<1> QED
  BY <1>1, <1>2, <1>3, FS_Singleton DEF Entered

\* What rows release is a sum, and adds up as the entries do.
LEMMA ReleasedTypedBy ==
  ASSUME NEW S, Releasing(S)
  PROVE  [d \in S |-> d.released] \in [S -> Int] /\ ReleasedBy(S) \in Int
<1> DEFINE f == [d \in S |-> d.released]
<1>1. f \in [S -> Int] /\ ReleasedBy(S) = Total(f) /\ IsFiniteSet(S)
  BY DEF Releasing, ReleasedBy
<1> HIDE DEF f
<1>2. Total(f) \in Int
  BY <1>1, TotalSplits
<1> QED
  BY <1>1, <1>2 DEF f

LEMMA ReleasedAdd ==
  ASSUME NEW S, Releasing(S), NEW R, Releasing(R), S \cap R = {}
  PROVE  Releasing(S \cup R) /\ ReleasedBy(S \cup R) = ReleasedBy(S) + ReleasedBy(R)
<1>1. Releasing(S \cup R)
  BY FS_Union DEF Releasing
<1> DEFINE U == S \cup R
           g == [d \in U |-> d.released]
<1>2. g \in [U -> Int]
  BY <1>1, ReleasedTypedBy
<1>3. On(g, S) = [d \in S |-> d.released] /\ On(g, R) = [d \in R |-> d.released]
  BY DEF On
<1>4. IsFiniteSet(S) /\ IsFiniteSet(R) /\ ReleasedBy(U) = Total(g)
  BY DEF Releasing, ReleasedBy
<1> HIDE DEF g
<1>5. Total(g) = Total(On(g, S)) + Total(On(g, R))
  BY <1>2, <1>4, TotalOfUnion
<1> QED
  BY <1>1, <1>3, <1>4, <1>5 DEF ReleasedBy

\* The entries of rows with different invoices, one for each.
RowEntries(c, p, rows) == {EntryOf(c, p, d) : d \in rows}

\* They move what the rows' entries move, row by row.
LEMMA RowEntriesMove ==
  ASSUME NEW c, NEW p, NEW rows, IsFiniteSet(rows), \A d, e \in rows : d.invoice = e.invoice => d = e,
         \A d \in rows : Balanced(EntryOf(c, p, d))
  PROVE  /\ Entered(RowEntries(c, p, rows)) /\ \A e \in RowEntries(c, p, rows) : e.source[1] = c.doc
         /\ \A a : Moves(RowEntries(c, p, rows), a) = Total([d \in rows |-> Moved(EntryOf(c, p, d), a)])
<1> DEFINE E == RowEntries(c, p, rows)
           b == [d \in rows |-> EntryOf(c, p, d)]
<1>1. Renaming(b, rows, E)
  <2>1. \A d, e \in rows : b[d] = b[e] => d = e
    <3>1. \A d \in rows : b[d].source = <<c.doc, d.invoice>>
      BY DEF EntryOf
    <3> HIDE DEF b
    <3> QED  BY <3>1
  <2> QED  BY <2>1 DEF Renaming, RowEntries
<1>2. \A d \in rows : b[d] \in E /\ b[d] = EntryOf(c, p, d)
  BY DEF RowEntries
<1>3. \A e \in E : Balanced(e) /\ e.source[1] = c.doc
  BY DEF RowEntries, EntryOf
<1> HIDE DEF E, b
<1>4. ASSUME NEW a
      PROVE  IsFiniteSet(E) /\ Moves(E, a) = Total([d \in rows |-> Moved(EntryOf(c, p, d), a)])
  <2> DEFINE f == [e \in E |-> Moved(e, a)]
             h == [d \in rows |-> Moved(EntryOf(c, p, d), a)]
  <2>1. f \in [E -> Int] /\ h \in [rows -> Int]
    <3>1. (\A e \in E : Moved(e, a) \in Int) /\ \A d \in rows : Moved(EntryOf(c, p, d), a) \in Int
      BY <1>3, MovedTyped
    <3> QED  BY <3>1
  <2>2. Renamed(b, f, h)
    BY <1>2 DEF Renamed
  <2>3. Moves(E, a) = Total(f)
    BY DEF Moves
  <2> HIDE DEF f, h
  <2>4. IsFiniteSet(E) /\ Total(f) = Total(h)
    BY <1>1, <2>1, <2>2, TotalRenamed
  <2> QED  BY <2>3, <2>4 DEF h
<1> QED
  BY <1>3, <1>4 DEF Entered, E

\* The plan of c and the entries it posts.
NewPlan(c) == Plan(c, Snapshot(c))
NewEntries(c) == Entries(c, NewPlan(c))

\* Entries that each move what their row releases.
LEMMA RowsRelease ==
  ASSUME NEW c, NEW p, NEW rows, Releasing(rows), \A d, e \in rows : d.invoice = e.invoice => d = e,
         \A d \in rows : Balanced(EntryOf(c, p, d)) /\ Moved(EntryOf(c, p, d), "receivable") = -d.released
  PROVE  Moves(RowEntries(c, p, rows), "receivable") = -ReleasedBy(rows)
<1> DEFINE h == [d \in rows |-> Moved(EntryOf(c, p, d), "receivable")]
           f == [d \in rows |-> d.released]
<1>1. Moves(RowEntries(c, p, rows), "receivable") = Total(h)
  BY RowEntriesMove DEF Releasing
<1>2. IsFiniteSet(rows) /\ f \in [rows -> Int] /\ h = [d \in rows |-> -f[d]] /\ ReleasedBy(rows) = Total(f)
  BY DEF Releasing, ReleasedBy
<1> HIDE DEF f, h
<1>3. Total(h) = -Total(f)
  BY <1>2, TotalOfMinus
<1> QED
  BY <1>1, <1>2, <1>3

\* The rows of a document that is carried out.
LEMMA NewRowsAre ==
  ASSUME Books, NEW c \in Commands, Carries(c)
  PROVE  /\ NewRows(c) = NewPlan(c).rows /\ Releasing(NewRows(c))
         /\ \A d \in NewRows(c) : RowTyped(d) /\ d.doc = c.doc
         /\ \A d, e \in NewRows(c) : d.invoice = e.invoice => d = e
<1>1. NewRows(c) = NewPlan(c).rows
  BY DEF NewRows, NewPlan
<1>2. \A d \in NewRows(c) : RowTyped(d) /\ d.doc = c.doc
  BY NewRowTyped
<1>3. Whole(c, NewRows(c))
  BY CarriesWhole
<1> QED
  BY <1>1, <1>2, <1>3 DEF Releasing, RowTyped, Whole

\* The account a payment posts to is none of the control accounts.
LEMMA PlansAccount ==
  ASSUME Books, NEW c \in Commands, c.kind = "collect"
  PROVE  PostingAccount(NewPlan(c).account)
<1>1. NewPlan(c).account = Snapshot(c).world.account
  BY DEF NewPlan, Plan, PaymentPlan
<1>2. Snapshot(c).world = world
  BY SnapshotIs
<1>3. world.account \in Accounts
  BY DEF Books, World
<1> QED
  BY <1>1, <1>2, <1>3, AccountsAssumption DEF PostingAccount

\* A payment's allocations: they release, and touch no credit.
LEMMA AllocationsMove ==
  ASSUME Books, NEW c \in Commands, Carries(c), c.kind = "collect",
         NEW E, E = RowEntries(c, NewPlan(c), NewRows(c))
  PROVE  /\ Entered(E) /\ \A e \in E : e.source[1] = c.doc /\ \E d \in NewRows(c) : e.source = <<c.doc, d.invoice>>
         /\ Moves(E, "receivable") = -ReleasedBy(NewRows(c)) /\ Moves(E, "credit") = 0
<1> DEFINE rows == NewRows(c)
           p == NewPlan(c)
<1>1. PostingAccount(p.account)
  BY PlansAccount
<1>2. Releasing(rows) /\ \A d, e \in rows : d.invoice = e.invoice => d = e
  BY NewRowsAre
<1> HIDE DEF p
<1>3. ASSUME NEW d \in rows
      PROVE  /\ Balanced(EntryOf(c, p, d)) /\ Moved(EntryOf(c, p, d), "receivable") = -d.released
             /\ Moved(EntryOf(c, p, d), "credit") = 0
  <2>1. RowTyped(d)
    BY NewRowsAre
  <2> QED  BY <1>1, <2>1, AllocationEntry
<1>4. E = RowEntries(c, p, rows)
  BY DEF p
<1> HIDE DEF rows
<1>5. Entered(E) /\ Moves(E, "credit") = Total([d \in rows |-> Moved(EntryOf(c, p, d), "credit")])
  BY <1>2, <1>3, <1>4, RowEntriesMove DEF Releasing
<1>6. Moves(E, "receivable") = -ReleasedBy(rows)
  BY <1>2, <1>3, <1>4, RowsRelease
<1>7. Moves(E, "credit") = 0
  <2> DEFINE z == [d \in rows |-> Moved(EntryOf(c, p, d), "credit")]
  <2>1. z = [d \in rows |-> 0] /\ IsFiniteSet(rows)
    BY <1>2, <1>3 DEF Releasing
  <2> HIDE DEF z
  <2>2. Total(z) = 0
    BY <2>1, TotalOfZeros
  <2> QED  BY <1>5, <2>2 DEF z
<1>8. \A e \in E : e.source[1] = c.doc /\ \E d \in rows : e.source = <<c.doc, d.invoice>>
  BY <1>4 DEF RowEntries, EntryOf
<1> QED
  BY <1>5, <1>6, <1>7, <1>8 DEF rows

\* A payment with no surplus.
LEMMA SquaresMove ==
  ASSUME Books, NEW c \in Commands, Carries(c), Squares(c)
  PROVE  /\ Entered(NewEntries(c)) /\ \A e \in NewEntries(c) : e.source[1] = c.doc
         /\ Moves(NewEntries(c), "receivable") = -ReleasedBy(NewRows(c))
         /\ Moves(NewEntries(c), "credit") = 0
<1>1. c.kind = "collect" /\ NewPlan(c).credit = None
  BY DEF Squares, NewPlan
<1>2. NewEntries(c) = RowEntries(c, NewPlan(c), NewRows(c))
  <2>1. c.kind # "apply"
    BY <1>1
  <2> QED  BY <1>1, <2>1, EntriesAre, NewRowsAre DEF NewEntries, RowEntries
<1> QED
  BY <1>1, <1>2, AllocationsMove

\* A payment that leaves credit k.
LEMMA LeavesMoves ==
  ASSUME Books, NEW c \in Commands, Carries(c), NEW k, Leaves(c, k)
  PROVE  /\ Entered(NewEntries(c)) /\ \A e \in NewEntries(c) : e.source[1] = c.doc
         /\ Moves(NewEntries(c), "receivable") = -ReleasedBy(NewRows(c))
         /\ Moves(NewEntries(c), "credit") = -k.carrying
<1> DEFINE p == NewPlan(c)
           E == RowEntries(c, p, NewRows(c))
           s == SurplusEntry(c, p)
<1>1. c.kind = "collect" /\ c.kind # "apply" /\ p.credit = k /\ k \in Credit
  BY DEF Leaves, NewPlan
<1>2. p.credit # None /\ k.carrying \in Int
  BY <1>1, NoneAssumption DEF Credit
<1>3. NewEntries(c) = E \cup {s}
  BY <1>1, <1>2, EntriesAre, NewRowsAre DEF NewEntries, RowEntries
<1>4. s.source = <<c.doc, 0>> /\ s.source[1] = c.doc
  BY DEF SurplusEntry
<1>5. PostingAccount(p.account)
  BY <1>1, PlansAccount
<1> HIDE DEF p
<1>6. Balanced(s) /\ Moved(s, "receivable") = 0 /\ Moved(s, "credit") = -k.carrying
  <2>1. p.credit.carrying \in Int
    BY <1>1, <1>2
  <2>2. Balanced(s) /\ Moved(s, "receivable") = 0 /\ Moved(s, "credit") = -p.credit.carrying
    BY <1>5, <2>1, SurplusIs
  <2> QED  BY <1>1, <2>2
<1>7. E = RowEntries(c, NewPlan(c), NewRows(c))
  BY DEF p
<1> HIDE DEF E, s
<1>8. /\ Entered(E) /\ \A e \in E : e.source[1] = c.doc /\ \E d \in NewRows(c) : e.source = <<c.doc, d.invoice>>
      /\ Moves(E, "receivable") = -ReleasedBy(NewRows(c)) /\ Moves(E, "credit") = 0
  BY <1>1, <1>7, AllocationsMove
<1>9. E \cap {s} = {}
  <2>1. \A d \in NewRows(c) : d.invoice # 0
    <3>1. \A d \in NewRows(c) : d.invoice \in DOMAIN Invoices
      BY NewRowsAre DEF RowTyped
    <3> QED  BY <3>1, InvoicesAssumption
  <2>2. \A e \in E : \E d \in NewRows(c) : e.source = <<c.doc, d.invoice>>
    BY <1>8
  <2>3. \A e \in E : e.source # <<c.doc, 0>>
    BY <2>1, <2>2
  <2> QED  BY <1>4, <2>3
<1>10. Entered({s}) /\ Moves({s}, "receivable") = 0 /\ Moves({s}, "credit") = -k.carrying
  BY <1>6, MovesOfOne
<1>11. /\ Entered(E \cup {s})
       /\ Moves(E \cup {s}, "receivable") = Moves(E, "receivable") + Moves({s}, "receivable")
       /\ Moves(E \cup {s}, "credit") = Moves(E, "credit") + Moves({s}, "credit")
  BY <1>8, <1>9, <1>10, MovesAdd
<1>12. Moves(E, "receivable") \in Int
  BY <1>8, MovesTyped
<1>13. \A e \in E \cup {s} : e.source[1] = c.doc
  BY <1>4, <1>8
<1>14. Moves(E \cup {s}, "receivable") = Moves(E, "receivable")
  BY <1>10, <1>11, <1>12
<1>15. Moves(E \cup {s}, "credit") = -k.carrying
  BY <1>2, <1>8, <1>10, <1>11
<1> QED
  BY <1>3, <1>8, <1>11, <1>13, <1>14, <1>15

\* An application.
LEMMA DrawsMove ==
  ASSUME Books, NEW c \in Commands, Carries(c), NEW d, Draws(c, d)
  PROVE  /\ Entered(NewEntries(c)) /\ \A e \in NewEntries(c) : e.source[1] = c.doc
         /\ Moves(NewEntries(c), "receivable") = -ReleasedBy(NewRows(c))
         /\ Moves(NewEntries(c), "credit") = Drawn(c)
<1> DEFINE p == NewPlan(c)
           e == EntryOf(c, p, d)
           o == credits[c.credit]
<1>1. c.kind = "apply" /\ NewRows(c) = {d} /\ d.money = Drawn(c) /\ p.credit = Lower(o, c.consumed)
  BY DEF Draws, NewPlan
<1>2. p.credit.rate \in PositiveRate
  <2>1. o \in Credit /\ o.original \in Nat \ {0} /\ c.consumed \in Int
    BY CreditTyped DEF Books, Draws
  <2>2. Lower(o, c.consumed) \in Credit
    BY <2>1, LowerIs
  <2> QED  BY <1>1, <2>2 DEF Credit
<1>3. RowTyped(d) /\ Releasing({d})
  BY <1>1, NewRowsAre
<1>4. NewEntries(c) = {e}
  BY <1>1, EntriesAre, NewRowsAre DEF NewEntries
<1> HIDE DEF p
<1>5. Balanced(e) /\ Moved(e, "receivable") = -d.released /\ Moved(e, "credit") = d.money
  BY <1>1, <1>2, <1>3, ApplicationEntry
<1>6. e.source[1] = c.doc
  BY DEF EntryOf
<1>7. ReleasedBy({d}) = d.released
  <2> DEFINE f == [x \in {d} |-> x.released]
  <2>1. DOMAIN f = {d} /\ f[d] = d.released /\ d.released \in Int /\ ReleasedBy({d}) = Total(f)
    BY <1>3 DEF Releasing, ReleasedBy
  <2> HIDE DEF f
  <2> QED  BY <2>1, TotalOfOne
<1> HIDE DEF e
<1>8. Entered({e}) /\ Moves({e}, "receivable") = -d.released /\ Moves({e}, "credit") = d.money
  BY <1>5, MovesOfOne
<1> QED
  BY <1>1, <1>4, <1>6, <1>7, <1>8

-----------------------------------------------------------------------------
(* The control accounts follow the documents. *)

CarriedBy == Total([k \in Born |-> credits[k].carrying])
ReleasedOf(i) == Released(Invoices[i].total, Invoices[i].base, Paid(i))

\* The journal is the documents': its balanced entries have moved what the rows
\* release and what the credits carry, and the rows of an invoice release what
\* is due for all of them together.
Control ==
  /\ Entered(journal) /\ \A e \in journal : Stored(e.source[1])
  /\ Moves(journal, "receivable") = -ReleasedBy(reducers)
  /\ Moves(journal, "credit") = -CarriedBy
  /\ \A i \in DOMAIN Invoices : ReleasedOf(i) = ReleasedBy(Of(i))

\* The rows stored release amounts.
LEMMA RowsReleasing ==
  ASSUME Rows
  PROVE  Releasing(reducers) /\ \A i : Releasing(Of(i))
<1>1. \A i : IsFiniteSet(Of(i))
  BY PaidTyped
<1> QED
  BY <1>1 DEF Rows, RowTyped, Releasing, Of

\* What the credits carry is a sum.
LEMMA CarriedTyped ==
  ASSUME Credits
  PROVE  /\ IsFiniteSet(Born) /\ [k \in Born |-> credits[k].carrying] \in [Born -> Int]
         /\ CarriedBy \in Int
<1>1. IsFiniteSet(Born)
  BY FS_Subset, IdsAssumption DEF Born
<1>2. [k \in Born |-> credits[k].carrying] \in [Born -> Int]
  <2>1. \A k \in Born : credits[k].carrying \in Int
    BY CreditTyped
  <2> QED  BY <2>1
<1> DEFINE f == [k \in Born |-> credits[k].carrying]
<1>3. CarriedBy = Total(f) /\ f \in [Born -> Int]
  BY <1>2 DEF CarriedBy
<1> HIDE DEF f
<1>4. Total(f) \in Int
  BY <1>1, <1>3, TotalSplits
<1> QED
  BY <1>1, <1>2, <1>3, <1>4

\* A credit is born.
LEMMA CarriedMore ==
  ASSUME Books, NEW c \in Commands, NEW k, Leaves(c, k)
  PROVE  CarriedBy' = CarriedBy + k.carrying
<1> DEFINE S == Born
           x == c.credit
           f == [j \in Born' |-> credits'[j].carrying]
<1>1. x \in CreditIds /\ x \notin S /\ k # None /\ k.carrying \in Int
  BY NoneAssumption DEF Leaves, Credit
<1>2. credits'[x] = k /\ \A j \in CreditIds \ {x} : credits'[j] = credits[j]
  BY <1>1 DEF Leaves, Books, Credits
<1>3. Born' = S \cup {x}
  BY <1>1, <1>2 DEF Born
<1>4. f \in [S \cup {x} -> Int] /\ CarriedBy' = Total(f)
  <2>1. \A j \in S \cup {x} : credits'[j].carrying \in Int
    <3>1. \A j \in S : j \in CreditIds /\ j # x /\ credits[j].carrying \in Int
      BY <1>1, CreditTyped DEF Books, Born
    <3> QED  BY <1>1, <1>2, <3>1
  <2> QED  BY <1>3, <2>1 DEF CarriedBy
<1>5. f[x] = k.carrying /\ On(f, S) = [j \in S |-> credits[j].carrying]
  <2>1. \A j \in S : j \in CreditIds /\ j # x
    BY <1>1 DEF Born
  <2> QED  BY <1>2, <1>3, <2>1 DEF On
<1>6. IsFiniteSet(S) /\ CarriedBy \in Int /\ CarriedBy = Total([j \in S |-> credits[j].carrying])
  BY CarriedTyped DEF Books, CarriedBy
<1> HIDE DEF f, S, x
<1>7. Total(f) = f[x] + Total(On(f, S))
  BY <1>1, <1>4, <1>6, TotalAdds
<1> QED
  BY <1>1, <1>4, <1>5, <1>6, <1>7

\* A credit is drawn upon.
LEMMA CarriedLess ==
  ASSUME Books, NEW c \in Commands, NEW d, Draws(c, d)
  PROVE  CarriedBy' = CarriedBy - Drawn(c)
<1> DEFINE x == c.credit
           o == credits[x]
           n == Lower(o, c.consumed)
           f == [j \in Born |-> credits[j].carrying]
           h == [j \in Born |-> credits'[j].carrying]
<1>1. /\ x \in Born /\ o \in Credit /\ o.original \in Nat \ {0} /\ o.originalCarrying \in Int /\ o.remaining \in Nat
      /\ o.carrying = CreditCarrying(o.original, o.originalCarrying, o.remaining)
      /\ c.consumed \in Int
  BY CreditTyped DEF Draws, Books, Credits
<1>2. /\ n \in Credit
      /\ n.carrying = CreditCarrying(o.original, o.originalCarrying, o.remaining - c.consumed)
  BY <1>1, LowerIs
<1>3. n # None /\ n.carrying \in Int /\ o.carrying \in Int
  BY <1>1, <1>2, NoneAssumption DEF Credit
<1>4. o.carrying - n.carrying = Drawn(c)
  BY <1>1, <1>2 DEF Drawn, CreditRelease
<1> HIDE DEF n
<1>5. credits' = [credits EXCEPT ![x] = n] /\ DOMAIN credits = CreditIds /\ x \in CreditIds
  BY <1>1 DEF Draws, Books, Credits, Born, n
<1>6. Born' = Born
  BY <1>1, <1>3, <1>5 DEF Born
<1>7. CarriedBy' = Total(h) /\ CarriedBy = Total(f) /\ CarriedBy \in Int /\ IsFiniteSet(Born) /\ f \in [Born -> Int]
  BY <1>6, CarriedTyped DEF CarriedBy, Books
<1>8. h[x] = n.carrying /\ f[x] = o.carrying /\ \A j \in Born \ {x} : h[j] = f[j]
  BY <1>1, <1>5 DEF Born
<1>9. h \in [Born -> Int]
  <2>1. \A j \in Born : h[j] \in Int
    BY <1>3, <1>7, <1>8
  <2> QED  BY <2>1
<1> HIDE DEF f, h, x, o
<1>10. Total(h) = Total(f) + h[x] - f[x]
  BY <1>1, <1>7, <1>8, <1>9, TotalChanges
<1> QED
  BY <1>3, <1>4, <1>7, <1>8, <1>10

\* What the new entries move.
LEMMA NewEntriesMove ==
  ASSUME Books, NEW c \in Commands, Carries(c)
  PROVE  /\ Entered(NewEntries(c)) /\ \A e \in NewEntries(c) : e.source[1] = c.doc
         /\ Moves(NewEntries(c), "receivable") = -ReleasedBy(NewRows(c))
         /\ Moves(NewEntries(c), "credit") = CarriedBy - CarriedBy' /\ CarriedBy' \in Int
<1>0. CarriedBy \in Int
  BY CarriedTyped DEF Books
<1>1. CASE Squares(c)
  <2>1. CarriedBy' = CarriedBy
    BY <1>1 DEF Squares, CarriedBy, Born
  <2> QED  BY <1>0, <1>1, <2>1, SquaresMove
<1>2. ASSUME NEW k, Leaves(c, k)
      PROVE  /\ Entered(NewEntries(c)) /\ \A e \in NewEntries(c) : e.source[1] = c.doc
             /\ Moves(NewEntries(c), "receivable") = -ReleasedBy(NewRows(c))
             /\ Moves(NewEntries(c), "credit") = CarriedBy - CarriedBy' /\ CarriedBy' \in Int
  <2>1. CarriedBy' = CarriedBy + k.carrying
    BY <1>2, CarriedMore
  <2>2. k.carrying \in Int
    BY <1>2 DEF Leaves, Credit
  <2>3. Moves(NewEntries(c), "credit") = -k.carrying
    BY <1>2, LeavesMoves
  <2>4. Moves(NewEntries(c), "credit") = CarriedBy - CarriedBy' /\ CarriedBy' \in Int
    BY <1>0, <2>1, <2>2, <2>3
  <2> QED  BY <1>2, <2>4, LeavesMoves
<1>3. ASSUME NEW d, Draws(c, d)
      PROVE  /\ Entered(NewEntries(c)) /\ \A e \in NewEntries(c) : e.source[1] = c.doc
             /\ Moves(NewEntries(c), "receivable") = -ReleasedBy(NewRows(c))
             /\ Moves(NewEntries(c), "credit") = CarriedBy - CarriedBy' /\ CarriedBy' \in Int
  <2>1. CarriedBy' = CarriedBy - Drawn(c)
    BY <1>3, CarriedLess
  <2>2. Drawn(c) \in Int
    BY <1>3, DrawnTyped DEF Draws, Books
  <2>3. Moves(NewEntries(c), "credit") = Drawn(c)
    BY <1>3, DrawsMove
  <2>4. Moves(NewEntries(c), "credit") = CarriedBy - CarriedBy' /\ CarriedBy' \in Int
    BY <1>0, <2>1, <2>2, <2>3
  <2> QED  BY <1>3, <2>4, DrawsMove
<1> QED
  BY <1>1, <1>2, <1>3, CarriesCredit

\* The invoices after the step: the telescoping of the releases.
LEMMA StepReleased ==
  ASSUME Books, NEW c \in Commands, ~Stored(c.doc), Carries(c),
         NEW i \in DOMAIN Invoices, ReleasedOf(i) = ReleasedBy(Of(i))
  PROVE  ReleasedOf(i)' = ReleasedBy(Of(i))'
<1> DEFINE rows == NewRows(c)
           T == Invoices[i].total
           B == Invoices[i].base
<1>1. Whole(c, rows) /\ reducers' = reducers \cup rows
  BY CarriesWhole
<1>2. Paid(i) \in Int /\ T \in Nat \ {0} /\ B \in Int
  BY PaidTyped, InvoiceTyped DEF Books
<1>3. ReleasedOf(i) = Released(T, B, Paid(i)) /\ ReleasedOf(i)' = Released(T, B, Paid(i)')
  BY DEF ReleasedOf
<1>4. ReleasedBy(Of(i))' = ReleasedBy(Of(i)')
  BY DEF ReleasedBy
<1> HIDE DEF rows, T, B
<1>5. CASE Of(i)' = Of(i) /\ Paid(i)' = Paid(i)
  BY <1>3, <1>4, <1>5
<1>6. ASSUME NEW d \in rows, d.invoice = i, d \notin Of(i), d.applied \in Nat \ {0},
             Of(i)' = Of(i) \cup {d}, Paid(i)' = Paid(i) + d.applied
      PROVE  ReleasedOf(i)' = ReleasedBy(Of(i))'
  <2>1. d.released = Release(T, B, Paid(i), d.applied)
    BY <1>1, <1>6 DEF Whole, Written, T, B
  <2>2. d.released = Released(T, B, Paid(i) + d.applied) - Released(T, B, Paid(i))
    BY <2>1 DEF Release
  <2>3. Paid(i) + d.applied \in Int
    BY <1>2, <1>6
  <2>4. Released(T, B, Paid(i) + d.applied) \in Int /\ Released(T, B, Paid(i)) \in Int
    BY <1>2, <2>3, ReleasedTyped
  <2>5. Releasing(Of(i)) /\ Releasing({d})
    <3>1. Releasing(Of(i))
      BY RowsReleasing DEF Books
    <3>2. d.released \in Int
      BY ONLY <2>2, <2>4
    <3>3. IsFiniteSet({d})
      BY ONLY FS_Singleton, Zenon
    <3>4. Releasing({d})
      BY ONLY <3>2, <3>3 DEF Releasing
    <3> QED  BY <3>1, <3>4
  <2>6. ReleasedBy(Of(i) \cup {d}) = ReleasedBy(Of(i)) + ReleasedBy({d})
    BY <1>6, <2>5, ReleasedAdd
  <2>7. ReleasedBy({d}) = d.released
    <3> DEFINE f == [x \in {d} |-> x.released]
    <3>1. DOMAIN f = {d} /\ f[d] = d.released /\ d.released \in Int /\ ReleasedBy({d}) = Total(f)
      BY <2>5 DEF Releasing, ReleasedBy
    <3> HIDE DEF f
    <3> QED  BY <3>1, TotalOfOne
  <2>8. ReleasedBy(Of(i)) + d.released = Released(T, B, Paid(i) + d.applied)
    BY <1>3, <2>2, <2>4
  <2> QED  BY <1>3, <1>4, <1>6, <2>6, <2>7, <2>8
<1> QED
  BY <1>1, <1>5, <1>6, PaidMore DEF Books

\* A document carried out moves the control accounts as its rows and credit.
LEMMA StepControl ==
  ASSUME Books, Control, NEW c \in Commands, ~Stored(c.doc), Carries(c)
  PROVE  Control'
<1> DEFINE N == NewEntries(c)
           rows == NewRows(c)
<1>1. journal' = journal \cup N /\ reducers' = reducers \cup rows /\ documents' = documents \cup {c}
  BY DEF Carries, NewEntries, NewPlan, NewRows
<1>2. /\ Entered(N) /\ \A e \in N : e.source[1] = c.doc
      /\ Moves(N, "receivable") = -ReleasedBy(rows)
      /\ Moves(N, "credit") = CarriedBy - CarriedBy'
  BY NewEntriesMove
<1>3. Releasing(rows) /\ \A d \in rows : d.doc = c.doc
  BY NewRowsAre
<1>4. Entered(journal) /\ journal \cap N = {}
  BY <1>2 DEF Control
<1>5. Releasing(reducers) /\ reducers \cap rows = {}
  <2>1. \A d \in reducers : d.doc # c.doc
    BY DEF Books, Rows
  <2> QED  BY <1>3, <2>1, RowsReleasing DEF Books
<1>6. CarriedBy \in Int /\ CarriedBy' \in Int
  BY CarriedTyped, NewEntriesMove DEF Books
<1> HIDE DEF N, rows
<1>7. Entered(journal') /\ \A a : Moves(journal', a) = Moves(journal, a) + Moves(N, a)
  <2>0. Entered(N) /\ Entered(journal) /\ journal \cap N = {}
    BY ONLY <1>2, <1>4
  <2>1. \A a : Entered(journal \cup N) /\ Moves(journal \cup N, a) = Moves(journal, a) + Moves(N, a)
    BY ONLY <2>0, MovesAdd
  <2> QED  BY ONLY <1>1, <2>1, Zenon
<1>8. ReleasedBy(reducers') = ReleasedBy(reducers) + ReleasedBy(rows)
  BY <1>1, <1>3, <1>5, ReleasedAdd
<1>9. \A a : Moves(journal, a) \in Int /\ Moves(N, a) \in Int
  BY <1>2, <1>4, MovesTyped
<1>10. ReleasedBy(reducers) \in Int /\ ReleasedBy(rows) \in Int
  BY <1>3, <1>5, ReleasedTypedBy
<1>11. Moves(journal, "receivable") = -ReleasedBy(reducers) /\ Moves(journal, "credit") = -CarriedBy
  BY DEF Control
<1>12. Moves(journal', "receivable") = -ReleasedBy(reducers')
  BY <1>2, <1>7, <1>8, <1>9, <1>10, <1>11
<1>13. Moves(journal', "credit") = -CarriedBy'
  BY <1>2, <1>6, <1>7, <1>9, <1>11
<1>14. \A e \in journal' : Stored(e.source[1])'
  BY <1>1, <1>2 DEF Control, Stored
<1>15. \A i \in DOMAIN Invoices : ReleasedOf(i)' = ReleasedBy(Of(i))'
  BY StepReleased DEF Control
<1>16. /\ Moves(journal, "receivable")' = Moves(journal', "receivable") /\ Moves(journal, "credit")' = Moves(journal', "credit")
       /\ ReleasedBy(reducers)' = ReleasedBy(reducers') /\ Entered(journal)' = Entered(journal')
  BY DEF Moves, ReleasedBy, Entered, Moved, Balanced
<1> QED
  BY <1>7, <1>12, <1>13, <1>14, <1>15, <1>16 DEF Control

\* Without a write they stay.
LEMMA StillControl ==
  ASSUME Control, Unwritten
  PROVE  Control'
BY DEF Control, Unwritten, Entered, Stored, Moves, ReleasedBy, CarriedBy, Born, ReleasedOf, Paid, Of

\* Nothing is posted, paid or carried at first.
LEMMA InitControl == Init => Control
<1> SUFFICES ASSUME Init PROVE Control
  OBVIOUS
<1>1. Entered(journal) /\ \A e \in journal : Stored(e.source[1])
  BY FS_EmptySet DEF Init, Entered
<1>2. \A a : Moves(journal, a) = 0
  BY TotalOfNone DEF Init, Moves
<1>3. ReleasedBy(reducers) = 0 /\ \A i : ReleasedBy(Of(i)) = 0 /\ Paid(i) = 0
  BY TotalOfNone DEF Init, ReleasedBy, Of, Paid
<1>4. CarriedBy = 0
  <2>1. Born = {}
    BY DEF Init, Born
  <2> QED  BY <2>1, TotalOfNone DEF CarriedBy
<1>5. ASSUME NEW i \in DOMAIN Invoices PROVE ReleasedOf(i) = 0
  <2>1. Invoices[i].total \in Nat \ {0} /\ Invoices[i].base \in Int
    BY InvoiceTyped
  <2>2. HalfEven(0, Invoices[i].total) = 0
    BY <2>1 DEF HalfEven
  <2>3. Invoices[i].base * 0 = 0
    BY <2>1
  <2> QED  BY <1>3, <2>2, <2>3 DEF ReleasedOf, Released
<1> QED
  BY <1>1, <1>2, <1>3, <1>4, <1>5 DEF Control

\* What the rows release, taken invoice by invoice.
LEMMA ReleasedByInvoice ==
  ASSUME Books, Control
  PROVE  ReleasedBy(reducers) = Total([i \in DOMAIN Invoices |-> ReleasedOf(i)])
<1> DEFINE f == [d \in reducers |-> d.released]
           b == [d \in reducers |-> d.invoice]
           h == [i \in DOMAIN Invoices |-> ReleasedOf(i)]
<1>1. Releasing(reducers) /\ \A i : Releasing(Of(i))
  BY RowsReleasing DEF Books
<1>2. IsFiniteSet(reducers) /\ f \in [reducers -> Int]
  BY <1>1, ReleasedTypedBy DEF Releasing
<1>3. IsFiniteSet(DOMAIN Invoices)
  <2>1. DOMAIN Invoices = 1..Len(Invoices) /\ Len(Invoices) \in Int
    BY InvoicesAssumption
  <2> QED  BY <2>1, FS_Interval
<1>4. \A i \in DOMAIN Invoices : ReleasedOf(i) = ReleasedBy(Of(i)) /\ ReleasedOf(i) \in Int
  BY <1>1, ReleasedTypedBy DEF Control
<1>5. h \in [DOMAIN Invoices -> Int]
  BY <1>4
<1>6. \A i : On(f, {d \in reducers : b[d] = i}) = [d \in Of(i) |-> d.released]
  BY DEF On, Of
<1>7. Fibres(f, b, h)
  <2>1. \A d \in reducers : d.invoice \in DOMAIN Invoices
    BY DEF Books, Rows, RowTyped
  <2>2. \A i \in DOMAIN Invoices : h[i] = Total(On(f, {d \in reducers : b[d] = i}))
    BY <1>4, <1>6 DEF ReleasedBy
  <2> QED  BY <2>1, <2>2 DEF Fibres
<1>8. ReleasedBy(reducers) = Total(f)
  BY DEF ReleasedBy
<1> HIDE DEF f, h, b
<1>9. Total(f) = Total(h)
  BY <1>2, <1>3, <1>5, <1>7, TotalOfFibres
<1> QED
  BY <1>8, <1>9 DEF h

\* A credit carries a value as long as an amount of it remains.
LEMMA CarriesValue ==
  ASSUME Credits, NEW k \in Born
  PROVE  (credits[k].carrying > 0) = (credits[k].remaining > 0)
<1> DEFINE o == credits[k]
<1>1. /\ o.original \in Nat \ {0} /\ o.originalCarrying \in Int /\ o.remaining \in Nat
      /\ o.carrying = CreditCarrying(o.original, o.originalCarrying, o.remaining)
  BY CreditTyped DEF Credits
<1> HIDE DEF o
<1>2. CASE o.remaining = 0
  BY <1>1, <1>2 DEF CreditCarrying, o
<1>3. CASE o.remaining # 0
  <2> DEFINE x == HalfEven(o.originalCarrying * (o.original - o.remaining), o.original)
  <2>1. o.originalCarrying * (o.original - o.remaining) \in Int
    BY <1>1
  <2>2. x \in Int
    BY <1>1, <2>1, HalfEvenTyped
  <2>3. o.carrying = IF o.originalCarrying - x < 1 THEN 1 ELSE o.originalCarrying - x
    BY <1>1, <1>3 DEF CreditCarrying
  <2> HIDE DEF x
  <2>4. o.carrying > 0 /\ o.remaining > 0
    BY <1>1, <1>3, <2>2, <2>3
  <2> QED  BY <2>4 DEF o
<1> QED
  BY <1>2, <1>3

\* The invariant is what the property says, sums taken invoice by invoice.
LEMMA ControlSays ==
  ASSUME Books, Control
  PROVE  BooksMatchBalances
<1>1. \A e \in journal : Total([l \in e.lines |-> l.amount]) = 0
  BY DEF Control, Entered, Balanced, Amounts
<1>2. Balance("receivable") = Moves(journal, "receivable") /\ Balance("credit") = Moves(journal, "credit")
  BY DEF Balance, Moves
<1>3. ReleasedBy(reducers) \in Int /\ CarriedBy \in Int
  BY RowsReleasing, ReleasedTypedBy, CarriedTyped DEF Books
<1>4. -Balance("receivable") = ReleasedBy(reducers) /\ -Balance("credit") = CarriedBy
  BY <1>2, <1>3 DEF Control
<1>5. ReleasedBy(reducers)
        = Total([i \in DOMAIN Invoices |-> Released(Invoices[i].total, Invoices[i].base, Paid(i))])
  BY ReleasedByInvoice DEF ReleasedOf
<1>6. \A k \in Born : (credits[k].carrying > 0) = (credits[k].remaining > 0)
  BY CarriesValue DEF Books
<1>7. -Balance("credit") = Total([k \in Born |-> credits[k].carrying])
  BY <1>4 DEF CarriedBy
<1> QED
  BY <1>1, <1>4, <1>5, <1>6, <1>7 DEF BooksMatchBalances

\* The accounts are the documents' and every entry balances, always.
THEOREM Controlled == Spec => []Control
<1>1. Sent /\ LockInv /\ Books /\ Control /\ [Next]_vars => Control'
  <2> SUFFICES ASSUME Sent, LockInv, Books, Control, [Next]_vars
               PROVE  Control'
    OBVIOUS
  <2> QED  BY StepWrites, StillControl, StepControl
<1> QED
  BY <1>1, InitControl, Serves, Settled, PTL DEF Spec

\* The control accounts are the documents': whatever the parts an invoice was
\* settled in, the receivable has released what is due for their sum; the
\* credit liability is what the credits carry; and every entry balances.
THEOREM BooksBalance == Spec => []BooksMatchBalances
<1>1. Books /\ Control => BooksMatchBalances
  BY ControlSays
<1> QED
  BY <1>1, Settled, Controlled, PTL

-----------------------------------------------------------------------------
(* The laws of the rounding, of the releases and of what a credit carries,   *)
(* which supplier-settlement.ts:28-35 states of its functions.               *)

\* A number is its quotient and its remainder.

LEMMA DivModOf ==
  ASSUME NEW n \in Nat, NEW d \in Nat \ {0}
  PROVE  /\ n \div d \in Nat /\ n % d \in 0..(d - 1)
         /\ n = d * (n \div d) + (n % d)
  OBVIOUS

\* What is rounded is within half a divisor of what it was.
LEMMA HalfEvenNear ==
  ASSUME NEW n \in Nat, NEW d \in Nat \ {0}
  PROVE  /\ HalfEven(n, d) \in Nat
         /\ 2 * (d * HalfEven(n, d)) <= 2 * n + d
         /\ 2 * n <= 2 * (d * HalfEven(n, d)) + d
<1> DEFINE q == n \div d
           r == n % d
<1>1. q \in Nat /\ r \in Nat /\ r < d /\ n = d * q + r
  BY DivModOf
<1>2. HalfEven(n, d) = q \/ HalfEven(n, d) = q + 1
  BY DEF HalfEven
<1>3. HalfEven(n, d) = q => 2 * r <= d
  BY <1>1 DEF HalfEven
<1>4. HalfEven(n, d) = q + 1 => 2 * r >= d
  BY <1>1 DEF HalfEven
<1> HIDE DEF q, r
<1>5. d * (q + 1) = d * q + d /\ d * q \in Nat
  BY <1>1
<1> DEFINE h == HalfEven(n, d)
           p == d * q
<1>6. h = q => d * h = p
  OBVIOUS
<1>7. h = q + 1 => d * h = p + d
  BY <1>5
<1>8. p \in Nat /\ n = p + r
  BY <1>1, <1>5
<1> HIDE DEF h, p
<1>9. CASE h = q
  BY <1>1, <1>3, <1>6, <1>8, <1>9 DEF h
<1>10. CASE h = q + 1
  BY <1>1, <1>4, <1>7, <1>8, <1>10 DEF h
<1> QED
  BY <1>2, <1>9, <1>10 DEF h

\* A multiple of the divisor is rounded to itself.
LEMMA HalfEvenExact ==
  ASSUME NEW b \in Nat, NEW d \in Nat \ {0}
  PROVE  HalfEven(b * d, d) = b
<1>1. b * d \in Nat /\ b * d = d * b
  OBVIOUS
<1> DEFINE h == HalfEven(b * d, d)
<1>2. h \in Nat /\ 2 * (d * h) <= 2 * (d * b) + d /\ 2 * (d * b) <= 2 * (d * h) + d
  BY <1>1, HalfEvenNear
<1> HIDE DEF h
<1>3. ~ h > b
  <2> SUFFICES ASSUME h >= b + 1
               PROVE  FALSE
    BY <1>2
  <2>1. d * h >= d * (b + 1) /\ d * (b + 1) = d * b + d /\ d * h \in Nat /\ d * b \in Nat
    BY <1>2
  <2> QED  BY <1>2, <2>1
<1>4. ~ h < b
  <2> SUFFICES ASSUME b >= h + 1
               PROVE  FALSE
    BY <1>2
  <2>1. d * b >= d * (h + 1) /\ d * (h + 1) = d * h + d /\ d * h \in Nat /\ d * b \in Nat
    BY <1>2
  <2> QED  BY <1>2, <2>1
<1> QED
  BY <1>2, <1>3, <1>4 DEF h

\* A larger amount is never rounded to less.
LEMMA HalfEvenMonotone ==
  ASSUME NEW n \in Nat, NEW m \in Nat, n <= m, NEW d \in Nat \ {0}
  PROVE  HalfEven(n, d) <= HalfEven(m, d)
<1> DEFINE h == HalfEven(n, d)
           k == HalfEven(m, d)
<1>1. h \in Nat /\ 2 * (d * h) <= 2 * n + d
  BY HalfEvenNear
<1>2. k \in Nat /\ 2 * m <= 2 * (d * k) + d
  BY HalfEvenNear
<1>3. n = m => h = k
  OBVIOUS
<1> HIDE DEF h, k
<1>4. CASE h > k
  <2>1. h >= k + 1
    BY <1>1, <1>2, <1>4
  <2>2. d * h >= d * (k + 1)
    BY <1>1, <1>2, <2>1
  <2>3. d * (k + 1) = d * k + d /\ d * h \in Nat /\ d * k \in Nat
    BY <1>1, <1>2
  <2>4. n = m
    BY <1>1, <1>2, <2>2, <2>3
  <2> QED  BY <1>3, <1>4, <2>4, <1>1
<1> QED
  BY <1>1, <1>2, <1>4 DEF h, k

\* apRelease is never negative and never more than the base, the part that
\* completes the total releases what is left of the base exactly, and releasing
\* two parts one after the other is releasing them at once.
THEOREM ReleasesTelescope ==
  ASSUME NEW T \in Nat \ {0}, NEW B \in Nat, NEW x \in Nat, NEW a \in Nat, x + a <= T
  PROVE  /\ Release(T, B, x, a) \in 0..B
         /\ x + a = T => Released(T, B, x) + Release(T, B, x, a) = B
         /\ \A b \in Nat : Release(T, B, x, a) + Release(T, B, x + a, b) = Release(T, B, x, a + b)
<1>1. /\ 0 \in Nat /\ B * 0 = 0 /\ B * x \in Nat /\ B * (x + a) \in Nat /\ B * T \in Nat
      /\ 0 <= B * x
  OBVIOUS
<1>2. B * x <= B * (x + a)
  OBVIOUS
<1>3. B * (x + a) <= B * T
  OBVIOUS
<1> DEFINE lo == Released(T, B, x)
           hi == Released(T, B, x + a)
<1>4. lo \in Nat /\ hi \in Nat
  BY <1>1, HalfEvenNear DEF Released
<1>5. lo <= hi
  BY <1>1, <1>2, HalfEvenMonotone DEF Released
<1>6. Released(T, B, T) = B
  BY HalfEvenExact DEF Released
<1>7. hi <= B
  <2>1. hi <= Released(T, B, T)
    BY <1>1, <1>3, HalfEvenMonotone DEF Released
  <2> QED  BY <1>6, <2>1
<1>8. Release(T, B, x, a) = hi - lo
  BY DEF Release
<1>9. \A b \in Nat : Release(T, B, x, a) + Release(T, B, x + a, b) = Release(T, B, x, a + b)
  <2> SUFFICES ASSUME NEW b \in Nat
               PROVE  Release(T, B, x, a) + Release(T, B, x + a, b) = Release(T, B, x, a + b)
    OBVIOUS
  <2> DEFINE top == Released(T, B, x + a + b)
  <2>1. x + (a + b) = x + a + b /\ B * (x + a + b) \in Nat
    OBVIOUS
  <2>2. top \in Nat
    BY <2>1, HalfEvenNear DEF Released
  <2>3. Release(T, B, x + a, b) = top - hi
    BY DEF Release
  <2>4. Release(T, B, x, a + b) = top - lo
    BY <2>1 DEF Release
  <2> HIDE DEF top, lo, hi
  <2> QED  BY <1>4, <1>8, <2>2, <2>3, <2>4
<1>10. x + a = T => hi = B
  BY <1>6
<1> HIDE DEF lo, hi
<1>11. Release(T, B, x, a) \in 0..B
  BY <1>4, <1>5, <1>7, <1>8
<1>12. x + a = T => Released(T, B, x) + Release(T, B, x, a) = B
  BY <1>4, <1>8, <1>10 DEF lo
<1> QED
  BY <1>9, <1>11, <1>12

\* A credit carries all it was born with at first, nothing at last, and at least
\* a unit between.
LEMMA CarryingBounds ==
  ASSUME NEW OA \in Nat \ {0}, NEW OB \in Nat \ {0}, NEW r \in 1..OA
  PROVE  /\ CreditCarrying(OA, OB, r) \in 1..OB
         /\ CreditCarrying(OA, OB, OA) = OB
         /\ CreditCarrying(OA, OB, 0) = 0
<1> DEFINE gone(s) == HalfEven(OB * (OA - s), OA)
<1>1. OB * (OA - r) \in Nat
  <2>1. OA - r \in Nat
    OBVIOUS
  <2> QED  BY <2>1
<1>2. gone(r) \in Nat
  BY <1>1, HalfEvenNear
<1>3. gone(OA) = 0
  <2>1. OB * (OA - OA) = 0 * OA /\ 0 \in Nat
    OBVIOUS
  <2> QED  BY <2>1, HalfEvenExact
<1>4. CreditCarrying(OA, OB, r) = IF OB - gone(r) < 1 THEN 1 ELSE OB - gone(r)
  BY DEF CreditCarrying
<1>5. CreditCarrying(OA, OB, OA) = IF OB - gone(OA) < 1 THEN 1 ELSE OB - gone(OA)
  BY DEF CreditCarrying
<1>6. CreditCarrying(OA, OB, 0) = 0
  BY DEF CreditCarrying
<1> HIDE DEF gone
<1>7. CreditCarrying(OA, OB, r) \in 1..OB
  BY <1>2, <1>4
<1>8. CreditCarrying(OA, OB, OA) = OB
  BY <1>3, <1>5
<1> QED
  BY <1>6, <1>7, <1>8

\* It never carries more when less remains.
LEMMA CarryingMonotone ==
  ASSUME NEW OA \in Nat \ {0}, NEW OB \in Nat \ {0}, NEW r \in 1..OA, NEW s \in 1..OA, s <= r
  PROVE  CreditCarrying(OA, OB, s) <= CreditCarrying(OA, OB, r)
<1> DEFINE gone(t) == HalfEven(OB * (OA - t), OA)
<1>1. OA - r \in Nat /\ OA - s \in Nat /\ OA - r <= OA - s
  OBVIOUS
<1>2. OB * (OA - r) \in Nat /\ OB * (OA - s) \in Nat /\ OB * (OA - r) <= OB * (OA - s)
  BY <1>1
<1>3. gone(r) \in Nat /\ gone(s) \in Nat
  BY <1>2, HalfEvenNear
<1>4. gone(r) <= gone(s)
  BY <1>2, HalfEvenMonotone
<1>5. CreditCarrying(OA, OB, r) = IF OB - gone(r) < 1 THEN 1 ELSE OB - gone(r)
  BY DEF CreditCarrying
<1>6. CreditCarrying(OA, OB, s) = IF OB - gone(s) < 1 THEN 1 ELSE OB - gone(s)
  BY DEF CreditCarrying
<1> HIDE DEF gone
<1> QED
  BY <1>3, <1>4, <1>5, <1>6

\* creditRelease is never negative, the part that uses the credit up releases all
\* that it still carries, and no other part does.
THEOREM CreditsRunOut ==
  ASSUME NEW OA \in Nat \ {0}, NEW OB \in Nat \ {0}, NEW r \in 1..OA, NEW c \in 1..r
  PROVE  /\ CreditCarrying(OA, OB, r) \in 1..OB
         /\ CreditRelease(OA, OB, r, c) \in 0..CreditCarrying(OA, OB, r)
         /\ c = r <=> CreditRelease(OA, OB, r, c) = CreditCarrying(OA, OB, r)
<1> DEFINE before == CreditCarrying(OA, OB, r)
           after == CreditCarrying(OA, OB, r - c)
<1>1. before \in 1..OB
  BY CarryingBounds
<1>2. CreditRelease(OA, OB, r, c) = before - after
  BY DEF CreditRelease
<1>3. CASE c = r
  <2>1. r - c = 0
    BY <1>3
  <2>2. after = 0
    BY <2>1, CarryingBounds
  <2> HIDE DEF before, after
  <2>3. CreditRelease(OA, OB, r, c) = before
    BY <1>1, <1>2, <2>2
  <2> QED  BY <1>1, <1>3, <2>3 DEF before
<1>4. CASE c # r
  <2>1. r - c \in 1..OA /\ r - c <= r
    BY <1>4
  <2>2. after \in 1..OB
    BY <2>1, CarryingBounds
  <2>3. after <= before
    BY <2>1, CarryingMonotone
  <2> HIDE DEF before, after
  <2>4. CreditRelease(OA, OB, r, c) \in 0..before /\ CreditRelease(OA, OB, r, c) # before
    BY <1>1, <1>2, <2>2, <2>3
  <2> QED  BY <1>1, <1>4, <2>4 DEF before
<1> QED
  BY <1>3, <1>4

-----------------------------------------------------------------------------
(* No release is reversed, and none is more than is there.                 *)

\* A row ends within the total of its invoice.
RowWithin(d) == d.before \in Nat /\ d.before + d.applied <= Invoices[d.invoice].total

\* A credit begins with a value, and what remains of it was in it.
CreditWithin(k) == credits[k].originalCarrying \in Nat \ {0} /\ credits[k].remaining <= credits[k].original

\* A row that consumes a credit is worth what the credit gives up for it.
DrawnWithin(d) ==
  /\ d.credit \in Born /\ d.level \in 1..credits[d.credit].original /\ d.consumed \in 1..d.level
  /\ d.money = CreditRelease(credits[d.credit].original, credits[d.credit].originalCarrying, d.level, d.consumed)

Within ==
  /\ \A i \in DOMAIN Invoices : Paid(i) \in 0..Invoices[i].total
  /\ \A d \in reducers : RowWithin(d) /\ (d.credit # None => DrawnWithin(d))
  /\ \A k \in Born : CreditWithin(k)

\* apRelease is never negative and releases the rest with the last part, and so
\* does creditRelease (supplier-settlement.ts:29-35): no row takes value back or
\* takes more than its document has, and when everything is settled nothing is
\* left on a control account, whatever the parts it was settled in.
ReleasesAreDue ==
  /\ \A d \in reducers : /\ d.released \in 0..Invoices[d.invoice].base
                         /\ d.credit # None => d.money \in 0..credits[d.credit].originalCarrying
  /\ (\A i \in DOMAIN Invoices : Owed(i) = 0)
       => -Balance("receivable") = Total([i \in DOMAIN Invoices |-> Invoices[i].base])
  /\ (\A k \in Born : credits[k].remaining = 0) => Balance("credit") = 0

\* A document leaves every credit as it was born.
LEMMA BornAsBorn ==
  ASSUME Books, NEW c \in Commands, Carries(c), NEW k \in Born
  PROVE  /\ k \in Born' /\ credits'[k].original = credits[k].original
         /\ credits'[k].originalCarrying = credits[k].originalCarrying
<1>1. DOMAIN credits = CreditIds /\ k \in CreditIds
  BY DEF Books, Credits, Born
<1>2. CASE Squares(c)
  BY <1>2 DEF Squares, Born
<1>3. ASSUME NEW n, Leaves(c, n)
      PROVE  credits'[k] = credits[k]
  <2>1. k # c.credit /\ credits' = [credits EXCEPT ![c.credit] = n]
    BY <1>3 DEF Leaves
  <2> QED  BY <1>1, <2>1
<1>4. ASSUME NEW d, Draws(c, d), k = c.credit
      PROVE  /\ credits'[k] # None /\ credits'[k].original = credits[k].original
             /\ credits'[k].originalCarrying = credits[k].originalCarrying
  <2>1. credits'[k] = Lower(credits[k], c.consumed) /\ c.consumed \in Int
    BY <1>1, <1>4 DEF Draws
  <2>2. credits[k] \in Credit /\ credits[k].original \in Nat \ {0}
    BY CreditTyped DEF Books
  <2>3. Lower(credits[k], c.consumed) \in Credit
        /\ Lower(credits[k], c.consumed).original = credits[k].original
        /\ Lower(credits[k], c.consumed).originalCarrying = credits[k].originalCarrying
    BY <2>1, <2>2, LowerIs
  <2> QED  BY <2>1, <2>3, NoneAssumption
<1>5. ASSUME NEW d, Draws(c, d), k # c.credit
      PROVE  credits'[k] = credits[k]
  BY <1>1, <1>5 DEF Draws
<1>6. k \in CreditIds /\ credits[k] # None
  BY DEF Born
<1> QED
  BY <1>2, <1>3, <1>4, <1>5, <1>6, CarriesCredit DEF Born

\* A credit that a document leaves or draws on is within itself.
LEMMA StepCreditWithin ==
  ASSUME Books, \A k \in Born : CreditWithin(k), NEW c \in Commands, Carries(c)
  PROVE  \A k \in Born' : CreditWithin(k)'
<1> SUFFICES ASSUME NEW k \in Born'
             PROVE  CreditWithin(k)'
  OBVIOUS
<1>1. DOMAIN credits = CreditIds /\ k \in CreditIds
  BY DEF Books, Credits, Born
<1>2. CASE credits'[k] = credits[k]
  BY <1>2 DEF CreditWithin, Born
<1>3. ASSUME NEW n, Leaves(c, n), k = c.credit
      PROVE  CreditWithin(k)'
  <2>1. credits'[k] = n
    BY <1>1, <1>3 DEF Leaves
  <2>2. n \in Credit /\ n.original = n.remaining /\ n.originalCarrying >= 1
    BY <1>3 DEF Leaves
  <2>3. n.originalCarrying \in Nat \ {0} /\ n.remaining <= n.original
    BY <2>2 DEF Credit
  <2> QED  BY <2>1, <2>3 DEF CreditWithin
<1>4. ASSUME NEW d, Draws(c, d), k = c.credit
      PROVE  CreditWithin(k)'
  <2> DEFINE o == credits[k]
             n == Lower(o, c.consumed)
  <2>1. credits'[k] = n /\ k \in Born /\ c.consumed \in 1..o.remaining
    BY <1>1, <1>4 DEF Draws
  <2>2. o \in Credit /\ o.original \in Nat \ {0} /\ o.remaining \in Nat
    BY <2>1, CreditTyped DEF Books
  <2>3. c.consumed \in Int /\ c.consumed >= 1
    BY <2>1, <2>2
  <2>4. /\ n.original = o.original /\ n.originalCarrying = o.originalCarrying
        /\ n.remaining = o.remaining - c.consumed
    BY <2>2, <2>3, LowerIs
  <2>5. o.originalCarrying \in Nat \ {0} /\ o.remaining <= o.original
    BY <2>1 DEF CreditWithin
  <2> HIDE DEF n, o
  <2>6. n.originalCarrying \in Nat \ {0} /\ n.remaining <= n.original
    BY <2>2, <2>3, <2>4, <2>5
  <2> QED  BY <2>1, <2>6 DEF CreditWithin
<1>5. \/ credits'[k] = credits[k]
      \/ \E n : Leaves(c, n) /\ k = c.credit
      \/ \E d : Draws(c, d) /\ k = c.credit
  <2>1. CASE Squares(c)
    BY <2>1 DEF Squares
  <2>2. ASSUME NEW n, Leaves(c, n), k # c.credit
        PROVE  credits'[k] = credits[k]
    BY <1>1, <2>2 DEF Leaves
  <2>3. ASSUME NEW d, Draws(c, d), k # c.credit
        PROVE  credits'[k] = credits[k]
    BY <1>1, <2>3 DEF Draws
  <2> QED  BY <2>1, <2>2, <2>3, CarriesCredit
<1> QED
  BY <1>2, <1>3, <1>4, <1>5

\* What a document writes is within its invoices.
LEMMA StepInvoiceWithin ==
  ASSUME Books, Within, NEW c \in Commands, ~Stored(c.doc), Carries(c)
  PROVE  /\ \A i \in DOMAIN Invoices : Paid(i)' \in 0..Invoices[i].total
         /\ \A d \in reducers' : RowWithin(d)
<1>1. Whole(c, NewRows(c)) /\ reducers' = reducers \cup NewRows(c)
  BY CarriesWhole
<1> DEFINE rows == NewRows(c)
<1> HIDE DEF rows
<1>2. ASSUME NEW d \in rows
      PROVE  /\ d.invoice \in DOMAIN Invoices /\ d.applied \in Nat \ {0} /\ d.before = Paid(d.invoice)
             /\ d.applied <= Invoices[d.invoice].total - Paid(d.invoice)
  <2>1. PICK l \in Legs(c) : Written(c, d, l.invoice, l.applied)
    BY <1>1 DEF Whole, rows
  <2>2. d.invoice \in DOMAIN Invoices
    BY NewRowTyped DEF RowTyped, rows
  <2> QED  BY <2>1, <2>2 DEF Written, Owed
<1>3. ASSUME NEW i \in DOMAIN Invoices
      PROVE  Paid(i)' \in 0..Invoices[i].total
  <2>1. Paid(i) \in 0..Invoices[i].total /\ Invoices[i].total \in Nat
    BY InvoiceTyped DEF Within
  <2>2. CASE Paid(i)' = Paid(i)
    BY <2>1, <2>2
  <2>3. ASSUME NEW d \in rows, d.invoice = i, Paid(i)' = Paid(i) + d.applied
        PROVE  Paid(i)' \in 0..Invoices[i].total
    <3>1. d.applied \in Nat /\ d.applied <= Invoices[i].total - Paid(i)
      BY <1>2, <2>3
    <3> QED  BY <2>1, <2>3, <3>1
  <2>4. Whole(c, rows) /\ reducers' = reducers \cup rows
    BY <1>1 DEF rows
  <2>5. Paid(i)' = Paid(i) \/ \E d \in rows : d.invoice = i /\ Paid(i)' = Paid(i) + d.applied
    BY <2>4, PaidMore DEF Books
  <2> QED  BY <2>2, <2>3, <2>5
<1>4. ASSUME NEW d \in rows
      PROVE  RowWithin(d)
  <2>1. Paid(d.invoice) \in 0..Invoices[d.invoice].total /\ Invoices[d.invoice].total \in Nat
    BY <1>2, InvoiceTyped DEF Within
  <2>2. d.before \in Nat
    BY <1>2, <2>1
  <2>3. d.before + d.applied <= Invoices[d.invoice].total
    BY <1>2, <2>1
  <2> QED  BY <2>2, <2>3 DEF RowWithin
<1>5. \A d \in reducers' : RowWithin(d)
  BY <1>1, <1>4 DEF Within, rows
<1> QED
  BY <1>3, <1>5

\* What a document draws is worth what the credit gives up.
LEMMA StepDrawnWithin ==
  ASSUME Books, Within, NEW c \in Commands, Carries(c), NEW d \in reducers', d.credit # None
  PROVE  DrawnWithin(d)'
<1>1. reducers' = reducers \cup NewRows(c)
  BY CarriesWhole
<1>2. CASE d \in reducers
  <2>1. DrawnWithin(d)
    BY <1>2 DEF Within
  <2>2. d.credit \in Born
    BY <2>1 DEF DrawnWithin
  <2>3. /\ d.credit \in Born' /\ credits'[d.credit].original = credits[d.credit].original
        /\ credits'[d.credit].originalCarrying = credits[d.credit].originalCarrying
    BY <2>2, BornAsBorn
  <2> QED  BY <2>1, <2>3 DEF DrawnWithin
<1>3. CASE d \in NewRows(c)
  <2>1. ~Squares(c) /\ ~\E n : Leaves(c, n)
    BY <1>3 DEF Squares, Leaves
  <2>2. PICK e : Draws(c, e)
    BY <2>1, CarriesCredit
  <2>3. /\ d.credit = c.credit /\ d.consumed = c.consumed /\ d.level = credits[c.credit].remaining
        /\ d.money = Drawn(c) /\ c.credit \in Born /\ c.consumed \in 1..credits[c.credit].remaining
    BY <1>3, <2>2 DEF Draws
  <2> DEFINE o == credits[c.credit]
  <2>4. o.original \in Nat \ {0} /\ o.remaining \in Nat /\ o.remaining <= o.original
    BY <2>3, CreditTyped DEF Books, Within, CreditWithin
  <2>5. d.level \in 1..o.original /\ d.consumed \in 1..d.level
    <3> HIDE DEF o
    <3>1. c.consumed \in 1..o.remaining /\ d.level = o.remaining
      BY <2>3 DEF o
    <3> QED  BY <2>3, <2>4, <3>1
  <2>6. d.money = CreditRelease(o.original, o.originalCarrying, d.level, d.consumed)
    BY <2>3 DEF Drawn
  <2>7. /\ c.credit \in Born' /\ credits'[c.credit].original = o.original
        /\ credits'[c.credit].originalCarrying = o.originalCarrying
    BY <2>3, BornAsBorn
  <2> HIDE DEF o
  <2> QED  BY <2>3, <2>5, <2>6, <2>7 DEF DrawnWithin
<1> QED
  BY <1>1, <1>2, <1>3

\* Nothing is paid, drawn or credited at first.
LEMMA InitWithin == Init => Within
<1> SUFFICES ASSUME Init PROVE Within
  OBVIOUS
<1>1. reducers = {} /\ Born = {}
  BY DEF Init, Born
<1>2. ASSUME NEW i \in DOMAIN Invoices
      PROVE  Paid(i) \in 0..Invoices[i].total
  <2>1. Of(i) = {}
    BY <1>1 DEF Of
  <2>2. Paid(i) = 0
    BY <2>1, TotalOfNone DEF Paid
  <2> QED  BY <2>2, InvoiceTyped
<1> QED
  BY <1>1, <1>2 DEF Within

\* Without a write everything stays within.
LEMMA StillWithin ==
  ASSUME Within, Unwritten
  PROVE  Within'
<1>1. reducers' = reducers /\ credits' = credits
  BY DEF Unwritten
<1>2. \A i : Paid(i)' = Paid(i)
  BY ONLY <1>1, Zenon DEF Of, Paid
<1>3. Born' = Born
  BY ONLY <1>1 DEF Born
<1>4. \A k : CreditWithin(k)' <=> CreditWithin(k)
  BY ONLY <1>1 DEF CreditWithin
<1>5. \A d : DrawnWithin(d)' <=> DrawnWithin(d)
  BY ONLY <1>1, <1>3 DEF DrawnWithin
<1>6. \A d : RowWithin(d)' <=> RowWithin(d)
  BY DEF RowWithin
<1>7. \A i \in DOMAIN Invoices : Paid(i)' \in 0..Invoices[i].total
  BY <1>2 DEF Within
<1>8. \A d \in reducers' : RowWithin(d)' /\ (d.credit # None => DrawnWithin(d)')
  BY <1>1, <1>5, <1>6 DEF Within
<1>9. \A k \in Born' : CreditWithin(k)'
  BY <1>3, <1>4 DEF Within
<1> QED
  BY <1>7, <1>8, <1>9 DEF Within

\* What is within is due.
LEMMA WithinIsDue ==
  ASSUME Books, ChainsVerify, Control, Within
  PROVE  ReleasesAreDue
<1>b. BooksMatchBalances
  BY ControlSays
<1>1. ASSUME NEW d \in reducers
      PROVE  d.released \in 0..Invoices[d.invoice].base
  <2> DEFINE inv == Invoices[d.invoice]
  <2>1. inv.total \in Nat \ {0} /\ inv.base \in Nat /\ d.applied \in Nat
    BY InvoiceTyped DEF Books, Rows, RowTyped
  <2>2. d.before \in Nat /\ d.before + d.applied <= inv.total
    BY DEF Within, RowWithin
  <2>3. d.released = Release(inv.total, inv.base, d.before, d.applied)
    BY DEF ChainsVerify
  <2> HIDE DEF inv
  <2>4. Release(inv.total, inv.base, d.before, d.applied) \in 0..inv.base
    BY <2>1, <2>2, ReleasesTelescope
  <2> QED  BY <2>3, <2>4 DEF inv
<1>2. ASSUME NEW d \in reducers, d.credit # None
      PROVE  d.money \in 0..credits[d.credit].originalCarrying
  <2> DEFINE k == credits[d.credit]
  <2>1. /\ d.credit \in Born /\ d.level \in 1..k.original /\ d.consumed \in 1..d.level
        /\ d.money = CreditRelease(k.original, k.originalCarrying, d.level, d.consumed)
    BY <1>2 DEF Within, DrawnWithin
  <2>2. k.original \in Nat \ {0} /\ k.originalCarrying \in Nat \ {0}
    BY <2>1, CreditTyped DEF Books, Within, CreditWithin
  <2> HIDE DEF k
  <2>3. /\ CreditCarrying(k.original, k.originalCarrying, d.level) \in 1..k.originalCarrying
        /\ CreditRelease(k.original, k.originalCarrying, d.level, d.consumed)
             \in 0..CreditCarrying(k.original, k.originalCarrying, d.level)
    BY <2>1, <2>2, CreditsRunOut
  <2>4. CreditRelease(k.original, k.originalCarrying, d.level, d.consumed) \in 0..k.originalCarrying
    BY <2>2, <2>3
  <2> QED  BY <2>1, <2>4 DEF k
<1>3. ASSUME \A i \in DOMAIN Invoices : Owed(i) = 0
      PROVE  -Balance("receivable") = Total([i \in DOMAIN Invoices |-> Invoices[i].base])
  <2>1. ASSUME NEW i \in DOMAIN Invoices
        PROVE  Released(Invoices[i].total, Invoices[i].base, Paid(i)) = Invoices[i].base
    <3>1. Invoices[i].total \in Nat \ {0} /\ Invoices[i].base \in Nat
      BY InvoiceTyped
    <3>2. Paid(i) = Invoices[i].total
      <4>1. Paid(i) \in Int
        BY PaidTyped DEF Books
      <4>2. Invoices[i].total - Paid(i) = 0
        BY <1>3 DEF Owed
      <4> QED  BY <3>1, <4>1, <4>2
    <3> QED  BY <3>1, <3>2, HalfEvenExact DEF Released
  <2>2. [i \in DOMAIN Invoices |-> Released(Invoices[i].total, Invoices[i].base, Paid(i))]
          = [i \in DOMAIN Invoices |-> Invoices[i].base]
    BY <2>1
  <2> QED  BY <1>b, <2>2 DEF BooksMatchBalances
<1>4. ASSUME \A k \in Born : credits[k].remaining = 0
      PROVE  Balance("credit") = 0
  <2>1. ASSUME NEW k \in Born
        PROVE  credits[k].carrying = 0
    <3>1. /\ credits[k].carrying = CreditCarrying(credits[k].original, credits[k].originalCarrying, credits[k].remaining)
          /\ credits[k].remaining = 0
      BY <1>4 DEF Books, Credits
    <3> QED  BY <3>1 DEF CreditCarrying
  <2>2. [k \in Born |-> credits[k].carrying] = [k \in Born |-> 0]
    BY <2>1
  <2>3. IsFiniteSet(Born)
    BY IdsAssumption, FS_Subset DEF Born
  <2>4. Total([k \in Born |-> 0]) = 0
    BY <2>3, TotalOfZeros
  <2>5. -Balance("credit") = Total([k \in Born |-> credits[k].carrying])
    BY <1>b DEF BooksMatchBalances
  <2>6. -Balance("credit") = 0
    BY <2>2, <2>4, <2>5
  <2>7. Balance("credit") \in Int
    BY MovesTyped DEF Control, Balance, Moves
  <2> QED  BY <2>6, <2>7
<1> QED
  BY <1>1, <1>2, <1>3, <1>4 DEF ReleasesAreDue

\* No release is reversed or exceeds what is there, and what is settled in full
\* leaves nothing: for every amount, rate, split and interleaving.
THEOREM NothingLeftOver == Spec => []ReleasesAreDue
<1>1. Sent /\ LockInv /\ Books /\ Within /\ [Next]_vars => Within'
  <2> SUFFICES ASSUME Sent, LockInv, Books, Within, [Next]_vars
               PROVE  Within'
    OBVIOUS
  <2>1. CASE Unwritten
    BY <2>1, StillWithin
  <2>2. ASSUME NEW c \in Commands, Carries(c), ~Stored(c.doc)
        PROVE  Within'
    <3>1. /\ \A i \in DOMAIN Invoices : Paid(i)' \in 0..Invoices[i].total
          /\ \A d \in reducers' : RowWithin(d)
      BY <2>2, StepInvoiceWithin
    <3>2. \A d \in reducers' : d.credit # None => DrawnWithin(d)'
      BY <2>2, StepDrawnWithin
    <3>3. \A k \in Born : CreditWithin(k)
      BY DEF Within
    <3>4. \A k \in Born' : CreditWithin(k)'
      BY <2>2, <3>3, StepCreditWithin
    <3> QED  BY <3>1, <3>2, <3>4 DEF Within, RowWithin
  <2> QED  BY <2>1, <2>2, StepWrites
<1>2. Books /\ ChainsVerify /\ Control /\ Within => ReleasesAreDue
  BY WithinIsDue
<1> QED
  BY <1>1, <1>2, InitWithin, Serves, Settled, ChainsHold, Controlled, PTL DEF Spec
=============================================================================
