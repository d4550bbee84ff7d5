--------------------------- MODULE TillSalesProofs ---------------------------
(***************************************************************************)
(* What holds of tills, baskets, sales, stock and invoice numbers for      *)
(* every set of sessions and commands (TillSales).  The argument: a commit *)
(* changes only an open till its transaction has locked, and lines of that *)
(* till; locks of two transactions exclude each other; so what a           *)
(* transaction saw under its locks is still so when it commits.            *)
(***************************************************************************)
EXTENDS TillSales, SumTheorems

\* No key or row is held twice.
LocksExclude == \A r, s \in Sessions : r # s => held[r] \cap held[s] = {}

IsTill(t) == t = [user |-> t.user, at |-> t.at, open |-> t.open] /\ t.open \in BOOLEAN

IsLine(l) ==
  /\ l = [till |-> l.till, no |-> l.no, item |-> l.item, qty |-> l.qty, disc |-> l.disc, live |-> l.live]
  /\ l.live \in BOOLEAN

IsRead(r) == r = [open |-> r.open, next |-> r.next, rows |-> r.rows]

\* The shapes of the tables and of what a request keeps.
Shapes ==
  /\ \A t \in DOMAIN tills : IsTill(tills[t])
  /\ \A l \in DOMAIN lines : IsLine(lines[l])
  /\ \A s \in Sessions : IsRead(read[s])
  /\ DOMAIN pc = Sessions /\ DOMAIN held = Sessions /\ DOMAIN read = Sessions /\ DOMAIN done = Sessions
  /\ DOMAIN number = Sessions /\ cmd \in [Sessions -> Commands]

\* A request has the till of its command locked, and the till is open.
LockedOpen(s) == <<"till", cmd[s].till>> \in held[s] /\ cmd[s].till \in OpenTills

\* The steps of a command of each kind, and what it has not done.
PathOK(s) ==
  LET kind == cmd[s].kind IN
  /\ pc[s] = "idle" => held[s] = {} /\ done[s] = {} /\ number[s] = 0
  /\ pc[s] \in {"actor", "terminal", "id", "decide"} => kind = "open"
  /\ pc[s] = "till" => kind \in SetKinds \cup {"close"}
  /\ pc[s] = "line" => kind \in SetKinds \cup {"remove", "checkout"}
  /\ pc[s] = "guard" => Removes(s)
  /\ pc[s] \in {"replay", "snapshot", "checkout", "verify"} => kind = "checkout"
  /\ pc[s] \in {"plan", "sale", "stock", "series"} => kind \in {"checkout", "sell"}
  /\ ~Removes(s) => done[s] = {}
  /\ kind \notin {"checkout", "sell"} => number[s] = 0

\* What a request to open a till holds, and what it has decided.
OpenOK(s) ==
  cmd[s].kind = "open" =>
    /\ pc[s] \in {"terminal", "id", "decide", "commit"} => <<"actor", cmd[s].user>> \in held[s]
    /\ pc[s] \in {"id", "decide", "commit"} => <<"terminal", cmd[s].at>> \in held[s]
    /\ pc[s] \in {"decide", "commit"} => <<"id", cmd[s].till>> \in held[s]
    /\ pc[s] = "commit" => MayOpen(cmd[s])

TillOK(s) ==
  /\ pc[s] # "idle" /\ cmd[s].kind \notin {"open", "sell"} => cmd[s].till \in DOMAIN tills
  /\ pc[s] = "commit" /\ cmd[s].kind = "close" => LockedOpen(s)
  /\ pc[s] \in {"line", "commit"} /\ cmd[s].kind \in SetKinds => LockedOpen(s) /\ OrdinalFree(s)

\* The lines a request is about are lines of its till; the line it adds is
\* nobody else's.
LineOK(s) ==
  pc[s] # "idle" =>
    /\ cmd[s].kind \in {"quantity", "discount"} =>
         /\ cmd[s].line \in LinesOf(cmd[s].till)
         /\ IsLine(read[s].rows[cmd[s].line]) /\ read[s].rows[cmd[s].line].till = cmd[s].till
    /\ cmd[s].kind = "add" =>
         /\ cmd[s].line \notin DOMAIN lines
         /\ \A r \in Sessions \ {s} : pc[r] # "idle" /\ cmd[r].kind = "add" => cmd[r].line # cmd[s].line
    /\ cmd[s].kind = "remove" => cmd[s].line \in LinesOf(cmd[s].till)
    /\ cmd[s].kind = "checkout" /\ pc[s] \notin {"replay", "snapshot"} =>
         DOMAIN read[s].rows # {} /\ DOMAIN read[s].rows \subseteq LinesOf(cmd[s].till)
    /\ cmd[s].kind \notin SetKinds \cup {"checkout"} => DOMAIN read[s].rows = {}

\* A transaction that has tombstoned a line has locked its till, open.
RemoveOK(s) ==
  /\ done[s] # {} => LockedOpen(s)
  /\ cmd[s].kind = "remove" => done[s] \subseteq {cmd[s].line}
  /\ pc[s] \in {"verify", "commit"} /\ Removes(s) =>
       done[s] = (IF cmd[s].kind = "remove" THEN {cmd[s].line} ELSE DOMAIN read[s].rows)

\* A sale under way is the only one under its id, and the only one to number.
SaleOK(s) ==
  /\ pc[s] \in {"stock", "series"} \/ number[s] # 0 => <<"sale", cmd[s].sale>> \in held[s] /\ ~Sold(s)
  /\ number[s] # 0 => <<"series", "invoice">> \in held[s] /\ number[s] = 1 + Cardinality(DOMAIN sales)

RequestOK(s) == PathOK(s) /\ OpenOK(s) /\ TillOK(s) /\ LineOK(s) /\ RemoveOK(s) /\ SaleOK(s)

NumbersOK == IsFiniteSet(DOMAIN sales) /\ NumbersGapless

Served ==
  /\ Shapes /\ LocksExclude
  /\ \A s \in Sessions : RequestOK(s)
  /\ TillsExclusive /\ OrdinalsDistinct /\ NumbersOK
-----------------------------------------------------------------------------
\* Steps that write no table.

\* A request whose own state a step leaves alone.
Unmoved(r) ==
  /\ pc'[r] = pc[r] /\ cmd'[r] = cmd[r] /\ read'[r] = read[r]
  /\ done'[r] = done[r] /\ number'[r] = number[r] /\ held'[r] = held[r]

LEMMA BystanderKeeps ==
  ASSUME UNCHANGED tables, NEW r \in Sessions, Unmoved(r), RequestOK(r),
         pc[r] # "idle" /\ cmd[r].kind = "add" =>
           \A q \in Sessions \ {r} : pc'[q] # "idle" /\ cmd'[q].kind = "add" => cmd'[q].line # cmd[r].line
  PROVE  RequestOK(r)'
<1> USE DEF tables, Unmoved, RequestOK
<1>1. PathOK(r)' /\ OpenOK(r)' /\ RemoveOK(r)' /\ SaleOK(r)'
  BY DEF PathOK, Removes, OpenOK, MayOpen, OpenTills, RemoveOK, LockedOpen, SaleOK, Sold
<1>2. TillOK(r)'
  BY DEF TillOK, LockedOpen, OpenTills, OrdinalFree, Ordinal, Basket, LinesOf
<1>3. LineOK(r)'
  BY DEF LineOK, LinesOf, IsLine
<1> QED BY <1>1, <1>2, <1>3

\* A step of one request that writes no table.
LEMMA QuietStep ==
  ASSUME Served, NEW s \in Sessions, UNCHANGED <<tables, cmd>>, pc[s] # "idle",
         \A r \in Sessions \ {s} : Unmoved(r) /\ held[r] \cap held'[s] = {},
         DOMAIN pc' = Sessions, DOMAIN held' = Sessions, DOMAIN read' = Sessions, DOMAIN done' = Sessions,
         DOMAIN number' = Sessions, IsRead(read'[s]), RequestOK(s)'
  PROVE  Served'
<1>1. Shapes'
  BY DEF Served, Shapes, IsTill, IsLine, IsRead, Unmoved, tables
<1>2. LocksExclude'
  BY DEF Served, LocksExclude, Unmoved
<1>3. ASSUME NEW r \in Sessions PROVE RequestOK(r)'
  <2>1. CASE r # s
    <3>1. RequestOK(r)
      BY DEF Served
    <3>2. pc[r] # "idle" /\ cmd[r].kind = "add" =>
            \A q \in Sessions \ {r} : pc'[q] # "idle" /\ cmd'[q].kind = "add" => cmd'[q].line # cmd[r].line
      BY <3>1 DEF RequestOK, LineOK, Unmoved
    <3> QED BY <2>1, <3>1, <3>2, BystanderKeeps
  <2> QED BY <2>1
<1>4. (TillsExclusive /\ OrdinalsDistinct /\ NumbersOK)'
  BY DEF Served, TillsExclusive, OpenTills, OrdinalsDistinct, NumbersOK, NumbersGapless, tables
<1> QED BY <1>1, <1>2, <1>3, <1>4 DEF Served

\* The transaction ends with nothing written.
LEMMA EndingKeeps ==
  ASSUME Served, NEW s \in Sessions, NEW a, pc[s] # "idle", End(s, a), UNCHANGED tables
  PROVE  Served'
<1>1. /\ pc' = [pc EXCEPT ![s] = "idle"] /\ held' = [held EXCEPT ![s] = {}]
      /\ read' = [read EXCEPT ![s] = NoRead] /\ done' = [done EXCEPT ![s] = {}]
      /\ number' = [number EXCEPT ![s] = 0] /\ cmd' = cmd
  BY DEF End, Goto
<1>2. IsRead(NoRead)
  BY DEF IsRead, NoRead
<1>3. \A r \in Sessions \ {s} : Unmoved(r) /\ held[r] \cap held'[s] = {}
  BY <1>1 DEF Unmoved, Served, Shapes
<1>4. pc'[s] = "idle" /\ held'[s] = {} /\ done'[s] = {} /\ number'[s] = 0 /\ read'[s] = NoRead
  BY <1>1 DEF Served, Shapes
<1>5. RequestOK(s)'
  BY <1>4 DEF RequestOK, PathOK, OpenOK, TillOK, LineOK, RemoveOK, SaleOK
<1>6. /\ DOMAIN pc' = Sessions /\ DOMAIN held' = Sessions /\ DOMAIN read' = Sessions
      /\ DOMAIN done' = Sessions /\ DOMAIN number' = Sessions
  BY <1>1 DEF Served, Shapes
<1> QED BY <1>1, <1>2, <1>3, <1>4, <1>5, <1>6, QuietStep

\* What taking a lock and going on to a step does to the requests.
LEMMA LockEffect ==
  ASSUME Served, NEW s \in Sessions, NEW from, NEW to, Lock(s, from, to), cmd' = cmd,
         \A r \in Sessions \ {s} : read'[r] = read[r] /\ done'[r] = done[r] /\ number'[r] = number[r]
  PROVE  /\ UNCHANGED <<tables, cmd>> /\ pc[s] = from /\ pc'[s] = to
         /\ held'[s] = held[s] \cup Wants(s) /\ DOMAIN pc' = Sessions /\ DOMAIN held' = Sessions
         /\ \A r \in Sessions \ {s} : Unmoved(r) /\ held[r] \cap held'[s] = {}
<1>1. pc' = [pc EXCEPT ![s] = to] /\ held' = [held EXCEPT ![s] = held[s] \cup Wants(s)] /\ pc[s] = from
      /\ UNCHANGED tables
  BY DEF Lock, Goto
<1>2. \A r \in Sessions \ {s} : held[r] \cap Wants(s) = {} /\ held[r] \cap held[s] = {}
  BY DEF Lock, Blockers, Served, LocksExclude
<1> QED BY <1>1, <1>2 DEF Served, Shapes, Unmoved

\* A lock that changes nothing else of the request: what is left to show is
\* what holds of the request at its next step.
LEMMA LockingKeeps ==
  ASSUME Served, NEW s \in Sessions, NEW from, NEW to, Lock(s, from, to), UNCHANGED local, from # "idle",
         (UNCHANGED <<tables, local>> /\ pc[s] = from /\ pc'[s] = to /\ held'[s] = held[s] \cup Wants(s)
            /\ \A r \in Sessions \ {s} : Unmoved(r)) => RequestOK(s)'
  PROVE  Served'
<1>1. cmd' = cmd /\ read' = read /\ done' = done /\ number' = number
  BY DEF local
<1>2. /\ UNCHANGED <<tables, cmd>> /\ pc[s] = from /\ pc'[s] = to
      /\ held'[s] = held[s] \cup Wants(s) /\ DOMAIN pc' = Sessions /\ DOMAIN held' = Sessions
      /\ \A r \in Sessions \ {s} : Unmoved(r) /\ held[r] \cap held'[s] = {}
  BY <1>1, LockEffect
<1>3. RequestOK(s)'
  BY <1>2
<1>4. IsRead(read'[s]) /\ DOMAIN read' = Sessions /\ DOMAIN done' = Sessions /\ DOMAIN number' = Sessions
  BY <1>1 DEF Served, Shapes
<1> QED BY <1>2, <1>3, <1>4, QuietStep

\* A step without a lock that changes nothing else of the request.
LEMMA GoingOnKeeps ==
  ASSUME Served, NEW s \in Sessions, NEW to, Goto(s, to), UNCHANGED <<tables, local, held>>, pc[s] # "idle",
         UNCHANGED <<tables, local>> /\ pc'[s] = to /\ held'[s] = held[s] => RequestOK(s)'
  PROVE  Served'
<1>1. cmd' = cmd /\ read' = read /\ done' = done /\ number' = number /\ held' = held
      /\ pc' = [pc EXCEPT ![s] = to]
  BY DEF local, Goto
<1>2. /\ DOMAIN pc' = Sessions /\ pc'[s] = to
      /\ \A r \in Sessions \ {s} : Unmoved(r) /\ held[r] \cap held'[s] = {}
  BY <1>1 DEF Served, Shapes, LocksExclude, Unmoved
<1>3. IsRead(read'[s]) /\ DOMAIN read' = Sessions /\ DOMAIN done' = Sessions /\ DOMAIN number' = Sessions
      /\ DOMAIN held' = Sessions
  BY <1>1 DEF Served, Shapes
<1> QED BY <1>1, <1>2, <1>3, QuietStep

\* Opening and closing.
LEMMA TillSteps ==
  ASSUME Served, NEW s \in Sessions,
         LockActor(s) \/ LockTerminal(s) \/ LockId(s) \/ DecideOpen(s) \/ AnswerClosed(s) \/ LockTillToClose(s)
  PROVE  Served'
<1> USE DEF RequestOK, PathOK, OpenOK, TillOK, LineOK, RemoveOK, SaleOK, Removes, LockedOpen, SetKinds
<1>0. RequestOK(s)
  BY DEF Served
<1>1. CASE LockActor(s)
  <2>1. Lock(s, "actor", "terminal") /\ UNCHANGED local
    BY <1>1 DEF LockActor
  <2>2. ASSUME UNCHANGED <<tables, local>>, pc[s] = "actor", pc'[s] = "terminal", held'[s] = held[s] \cup Wants(s)
        PROVE  RequestOK(s)'
    BY <1>0, <2>2 DEF Wants, tables, local, Sold, LinesOf, IsLine
  <2> QED BY <2>1, <2>2, LockingKeeps
<1>2. CASE LockTerminal(s)
  <2>1. Lock(s, "terminal", "id") /\ UNCHANGED local
    BY <1>2 DEF LockTerminal
  <2>2. ASSUME UNCHANGED <<tables, local>>, pc[s] = "terminal", pc'[s] = "id", held'[s] = held[s] \cup Wants(s)
        PROVE  RequestOK(s)'
    BY <1>0, <2>2 DEF Wants, tables, local, Sold, LinesOf, IsLine
  <2> QED BY <2>1, <2>2, LockingKeeps
<1>3. CASE LockId(s)
  <2>1. Lock(s, "id", "decide") /\ UNCHANGED local
    BY <1>3 DEF LockId
  <2>2. ASSUME UNCHANGED <<tables, local>>, pc[s] = "id", pc'[s] = "decide", held'[s] = held[s] \cup Wants(s)
        PROVE  RequestOK(s)'
    BY <1>0, <2>2 DEF Wants, tables, local, Sold, LinesOf, IsLine
  <2> QED BY <2>1, <2>2, LockingKeeps
<1>4. CASE DecideOpen(s)
  <2>1. UNCHANGED tables /\ pc[s] = "decide"
    BY <1>4 DEF DecideOpen
  <2>2. CASE \E a : End(s, a)
    BY <2>1, <2>2, EndingKeeps
  <2>3. CASE MayOpen(cmd[s]) /\ Goto(s, "commit") /\ UNCHANGED <<local, held>>
    <3>1. ASSUME UNCHANGED <<tables, local>>, pc'[s] = "commit", held'[s] = held[s]
          PROVE  RequestOK(s)'
      <4>1. /\ cmd' = cmd /\ read' = read /\ done' = done /\ number' = number
            /\ tills' = tills /\ lines' = lines /\ sales' = sales
        BY <3>1 DEF tables, local
      <4>2. cmd[s].kind = "open" /\ done[s] = {} /\ number[s] = 0
        BY <1>0, <2>1
      <4>3. MayOpen(cmd[s])'
        BY <2>3, <4>1 DEF MayOpen, OpenTills
      <4>4. OpenOK(s)'
        BY <1>0, <2>1, <3>1, <4>1, <4>3
      <4>5. PathOK(s)' /\ TillOK(s)'
        BY <3>1, <4>1, <4>2
      <4>6. LineOK(s)' /\ RemoveOK(s)' /\ SaleOK(s)'
        BY <1>0, <2>1, <3>1, <4>1, <4>2
      <4> QED BY <4>4, <4>5, <4>6
    <3> QED BY <2>1, <2>3, <3>1, GoingOnKeeps
  <2> QED BY <1>4, <2>2, <2>3 DEF DecideOpen
<1>5. CASE AnswerClosed(s)
  BY <1>5, EndingKeeps DEF AnswerClosed
<1>6. CASE LockTillToClose(s)
  <2>1. Lock(s, "till", "commit") /\ UNCHANGED local /\ cmd[s].kind = "close" /\ tills[cmd[s].till].open
    BY <1>6 DEF LockTillToClose
  <2>2. ASSUME UNCHANGED <<tables, local>>, pc[s] = "till", pc'[s] = "commit", held'[s] = held[s] \cup Wants(s)
        PROVE  RequestOK(s)'
    BY <1>0, <2>1, <2>2 DEF Wants, tables, local, Sold, LinesOf, IsLine, OpenTills
  <2> QED BY <2>1, <2>2, LockingKeeps
<1> QED BY <1>1, <1>2, <1>3, <1>4, <1>5, <1>6

LEMMA SameTablesSameOrdinal ==
  ASSUME NEW s \in Sessions, UNCHANGED <<tables, local>>, OrdinalFree(s)
  PROVE  OrdinalFree(s)'
  BY DEF OrdinalFree, Ordinal, Basket, LinesOf, tables, local

\* What is said of the lines of a request past its snapshot, when no table changes.
LEMMA SameTablesSameLines ==
  ASSUME NEW s \in Sessions, UNCHANGED <<tables, local>>, LineOK(s),
         pc[s] \notin {"idle", "replay", "snapshot"},
         cmd[s].kind = "add" => \A r \in Sessions \ {s} : Unmoved(r)
  PROVE  LineOK(s)'
<1>1. lines' = lines /\ cmd' = cmd /\ read' = read
  BY DEF tables, local
<1>2. LinesOf(cmd[s].till)' = LinesOf(cmd[s].till)
  BY <1>1 DEF LinesOf
<1>3. cmd[s].kind = "add" => \A r \in Sessions \ {s} : pc'[r] = pc[r]
  BY DEF Unmoved
<1>4. cmd[s].kind \in {"quantity", "discount"} =>
         /\ cmd[s].line \in LinesOf(cmd[s].till)
         /\ IsLine(read[s].rows[cmd[s].line]) /\ read[s].rows[cmd[s].line].till = cmd[s].till
  BY DEF LineOK
<1>5. cmd[s].kind = "add" =>
         /\ cmd[s].line \notin DOMAIN lines
         /\ \A r \in Sessions \ {s} : pc[r] # "idle" /\ cmd[r].kind = "add" => cmd[r].line # cmd[s].line
  BY DEF LineOK
<1>6. /\ cmd[s].kind = "remove" => cmd[s].line \in LinesOf(cmd[s].till)
      /\ cmd[s].kind = "checkout" => DOMAIN read[s].rows # {} /\ DOMAIN read[s].rows \subseteq LinesOf(cmd[s].till)
      /\ cmd[s].kind \notin SetKinds \cup {"checkout"} => DOMAIN read[s].rows = {}
  BY DEF LineOK
<1>7. (cmd[s].kind \in {"quantity", "discount"} =>
         /\ cmd[s].line \in LinesOf(cmd[s].till)
         /\ IsLine(read[s].rows[cmd[s].line]) /\ read[s].rows[cmd[s].line].till = cmd[s].till)'
  BY <1>1, <1>2, <1>4 DEF IsLine
<1>8. (cmd[s].kind = "add" =>
         /\ cmd[s].line \notin DOMAIN lines
         /\ \A r \in Sessions \ {s} : pc[r] # "idle" /\ cmd[r].kind = "add" => cmd[r].line # cmd[s].line)'
  BY <1>1, <1>3, <1>5
<1>9. (/\ cmd[s].kind = "remove" => cmd[s].line \in LinesOf(cmd[s].till)
       /\ cmd[s].kind = "checkout" => DOMAIN read[s].rows # {} /\ DOMAIN read[s].rows \subseteq LinesOf(cmd[s].till)
       /\ cmd[s].kind \notin SetKinds \cup {"checkout"} => DOMAIN read[s].rows = {})'
  BY <1>1, <1>2, <1>6
<1> QED BY <1>7, <1>8, <1>9 DEF LineOK

\* Setting a line.
LEMMA SetLineSteps ==
  ASSUME Served, NEW s \in Sessions,
         SetLineOnTill(s) \/ RefuseOnTill(s) \/ SetLineOnLine(s) \/ RefuseRemoved(s)
  PROVE  Served'
<1> USE DEF RequestOK, PathOK, OpenOK, TillOK, LineOK, RemoveOK, SaleOK, Removes, LockedOpen, SetKinds
<1>0. RequestOK(s)
  BY DEF Served
<1>1. CASE SetLineOnTill(s)
  <2>1. Lock(s, "till", "line") /\ UNCHANGED local /\ cmd[s].kind \in SetKinds
        /\ tills[cmd[s].till].open /\ OrdinalFree(s)
    BY <1>1 DEF SetLineOnTill
  <2>2. ASSUME UNCHANGED <<tables, local>>, pc[s] = "till", pc'[s] = "line", held'[s] = held[s] \cup Wants(s),
               \A r \in Sessions \ {s} : Unmoved(r)
        PROVE  RequestOK(s)'
    <3>1. OrdinalFree(s)
      BY <1>0, <2>1, <2>2
    <3>2. OrdinalFree(s)'
      BY <2>2, <3>1, SameTablesSameOrdinal
    <3>3. TillOK(s)'
      BY <1>0, <2>1, <2>2, <3>2 DEF Wants, tables, local, OpenTills
    <3>4. LineOK(s)'
      BY <1>0, <2>2, SameTablesSameLines
    <3>5. (PathOK(s) /\ OpenOK(s) /\ RemoveOK(s) /\ SaleOK(s))'
      BY <1>0, <2>1, <2>2 DEF tables, local, Sold, OpenTills
    <3> QED BY <3>3, <3>4, <3>5
  <2> QED BY <2>1, <2>2, LockingKeeps
<1>2. CASE RefuseOnTill(s)
  BY <1>2, EndingKeeps DEF RefuseOnTill
<1>3. CASE SetLineOnLine(s)
  <2>1. Lock(s, "line", "commit") /\ UNCHANGED local /\ cmd[s].kind \in SetKinds
    BY <1>3 DEF SetLineOnLine
  <2>2. ASSUME UNCHANGED <<tables, local>>, pc[s] = "line", pc'[s] = "commit", held'[s] = held[s] \cup Wants(s),
               \A r \in Sessions \ {s} : Unmoved(r)
        PROVE  RequestOK(s)'
    <3>1. OrdinalFree(s)
      BY <1>0, <2>1, <2>2
    <3>2. OrdinalFree(s)'
      BY <2>2, <3>1, SameTablesSameOrdinal
    <3>3. TillOK(s)'
      BY <1>0, <2>1, <2>2, <3>2 DEF Wants, tables, local, OpenTills
    <3>4. LineOK(s)'
      BY <1>0, <2>2, SameTablesSameLines
    <3>5. (PathOK(s) /\ OpenOK(s) /\ RemoveOK(s) /\ SaleOK(s))'
      BY <1>0, <2>1, <2>2 DEF tables, local, Sold, OpenTills
    <3> QED BY <3>3, <3>4, <3>5
  <2> QED BY <2>1, <2>2, LockingKeeps
<1>4. CASE RefuseRemoved(s)
  BY <1>4, EndingKeeps DEF RefuseRemoved
<1> QED BY <1>1, <1>2, <1>3, <1>4

\* Removing a line, alone or in a checkout.
LEMMA RemoveSteps ==
  ASSUME Served, NEW s \in Sessions,
         FindRemoved(s) \/ LockLineToRemove(s) \/ RemoveLine(s) \/ RefuseClosed(s)
  PROVE  Served'
<1> USE DEF RequestOK, PathOK, OpenOK, TillOK, LineOK, RemoveOK, SaleOK, Removes, LockedOpen, SetKinds
<1>0. RequestOK(s)
  BY DEF Served
<1>1. CASE FindRemoved(s)
  BY <1>1, EndingKeeps DEF FindRemoved
<1>2. CASE LockLineToRemove(s)
  <2>1. Lock(s, "line", "guard") /\ UNCHANGED local /\ Removes(s)
    BY <1>2 DEF LockLineToRemove
  <2>2. ASSUME UNCHANGED <<tables, local>>, pc[s] = "line", pc'[s] = "guard", held'[s] = held[s] \cup Wants(s)
        PROVE  RequestOK(s)'
    <3>1. /\ cmd' = cmd /\ read' = read /\ done' = done /\ number' = number
          /\ tills' = tills /\ lines' = lines /\ sales' = sales
      BY <2>2 DEF tables, local
    <3>2. cmd[s].kind \in {"remove", "checkout"}
      BY <2>1
    <3>3. LineOK(s)'
      BY <1>0, <2>2, <3>2, SameTablesSameLines
    <3>4. PathOK(s)' /\ OpenOK(s)' /\ TillOK(s)'
      BY <1>0, <2>1, <2>2, <3>1, <3>2
    <3>5. RemoveOK(s)' /\ SaleOK(s)'
      BY <1>0, <2>2, <3>1, <3>2 DEF Sold, OpenTills
    <3> QED BY <3>3, <3>4, <3>5
  <2> QED BY <2>1, <2>2, LockingKeeps
<1>3. CASE RemoveLine(s)
  <2> DEFINE to == AfterRemoval(s)
  <2>1. /\ pc[s] = "guard" /\ tills[cmd[s].till].open /\ Lock(s, "guard", to)
        /\ done' = [done EXCEPT ![s] = done[s] \cup {NextLine(s)}]
        /\ cmd' = cmd /\ read' = read /\ number' = number
    BY <1>3 DEF RemoveLine
  <2> HIDE DEF to
  <2>2. /\ UNCHANGED <<tables, cmd>> /\ pc'[s] = to /\ held'[s] = held[s] \cup Wants(s)
        /\ DOMAIN pc' = Sessions /\ DOMAIN held' = Sessions
        /\ \A r \in Sessions \ {s} : Unmoved(r) /\ held[r] \cap held'[s] = {}
    <3>1. \A r \in Sessions \ {s} : read'[r] = read[r] /\ done'[r] = done[r] /\ number'[r] = number[r]
      BY <2>1 DEF Served, Shapes
    <3> QED BY <2>1, <3>1, LockEffect
  <2>3. done'[s] = done[s] \cup {NextLine(s)} /\ DOMAIN done' = Sessions
    BY <2>1 DEF Served, Shapes
  <2>4. IsRead(read'[s]) /\ DOMAIN read' = Sessions /\ DOMAIN number' = Sessions
    BY <2>1 DEF Served, Shapes
  <2>5. <<"till", cmd[s].till>> \in held'[s] /\ cmd[s].till \in OpenTills
    BY <1>0, <2>1, <2>2 DEF Wants, OpenTills
  <2>6. CASE cmd[s].kind = "remove"
    <3>1. to = "commit" /\ done'[s] = {cmd[s].line}
      BY <1>0, <2>3, <2>6 DEF to, AfterRemoval, NextLine
    <3>2. RequestOK(s)'
      BY <1>0, <2>1, <2>2, <2>5, <2>6, <3>1 DEF tables, Sold, LinesOf, OpenTills
    <3> QED BY <2>1, <2>2, <2>3, <2>4, <3>2, QuietStep
  <2>7. CASE cmd[s].kind = "checkout"
    <3>1. to = "line" \/ (to = "verify" /\ done'[s] = DOMAIN read[s].rows)
      BY <2>3, <2>7 DEF to, AfterRemoval
    <3>2. RequestOK(s)'
      BY <1>0, <2>1, <2>2, <2>5, <2>7, <3>1 DEF tables, Sold, LinesOf, OpenTills
    <3> QED BY <2>1, <2>2, <2>3, <2>4, <3>2, QuietStep
  <2>8. Removes(s)
    BY <1>0, <2>1
  <2> QED BY <2>6, <2>7, <2>8
<1>4. CASE RefuseClosed(s)
  BY <1>4, EndingKeeps DEF RefuseClosed
<1> QED BY <1>1, <1>2, <1>3, <1>4

\* The unlocked reads, and the last check of a checkout.
LEMMA ReadingSteps ==
  ASSUME Served, NEW s \in Sessions, ReplayFirst(s) \/ ReadSnapshot(s) \/ Plan(s) \/ Verify(s)
  PROVE  Served'
<1> USE DEF RequestOK, PathOK, OpenOK, TillOK, LineOK, RemoveOK, SaleOK, Removes, LockedOpen, SetKinds
<1>0. RequestOK(s)
  BY DEF Served
<1>1. CASE ReplayFirst(s)
  <2>1. UNCHANGED tables /\ pc[s] = "replay"
    BY <1>1 DEF ReplayFirst
  <2>2. CASE \E a : End(s, a)
    BY <2>1, <2>2, EndingKeeps
  <2>3. CASE Goto(s, "snapshot") /\ UNCHANGED <<local, held>>
    <3>1. ASSUME UNCHANGED <<tables, local>>, pc'[s] = "snapshot", held'[s] = held[s]
          PROVE  RequestOK(s)'
      BY <1>0, <2>1, <2>3, <3>1 DEF tables, local, Sold, LinesOf, OpenTills
    <3> QED BY <2>1, <2>3, <3>1, GoingOnKeeps
  <2> QED BY <1>1, <2>2, <2>3 DEF ReplayFirst
<1>2. CASE ReadSnapshot(s)
  <2>1. UNCHANGED tables /\ pc[s] = "snapshot"
    BY <1>2 DEF ReadSnapshot
  <2>2. CASE Basket(cmd[s].till) = {}
    BY <1>2, <2>1, <2>2, EndingKeeps DEF ReadSnapshot
  <2>3. CASE Basket(cmd[s].till) # {}
    <3>1. /\ read' = [read EXCEPT ![s].rows = [l \in Basket(cmd[s].till) |-> lines[l]]]
          /\ pc' = [pc EXCEPT ![s] = "plan"]
          /\ cmd' = cmd /\ done' = done /\ number' = number /\ held' = held
      BY <1>2, <2>3 DEF ReadSnapshot, Goto
    <3>2. IsRead(read'[s]) /\ read'[s].rows = [l \in Basket(cmd[s].till) |-> lines[l]]
      BY <3>1 DEF Served, Shapes, IsRead
    <3>3. DOMAIN read'[s].rows = Basket(cmd[s].till)
      BY <3>2
    <3>4. \A r \in Sessions \ {s} : Unmoved(r) /\ held[r] \cap held'[s] = {}
      BY <3>1 DEF Unmoved, Served, Shapes, LocksExclude
    <3>5. pc'[s] = "plan"
      BY <3>1 DEF Served, Shapes
    <3>6. RequestOK(s)'
      BY <1>0, <2>1, <2>3, <3>1, <3>3, <3>5 DEF tables, Sold, Basket, LinesOf, OpenTills
    <3>7. /\ DOMAIN pc' = Sessions /\ DOMAIN held' = Sessions /\ DOMAIN read' = Sessions
          /\ DOMAIN done' = Sessions /\ DOMAIN number' = Sessions
      BY <3>1 DEF Served, Shapes
    <3> QED BY <2>1, <3>1, <3>2, <3>4, <3>6, <3>7, QuietStep
  <2> QED BY <2>2, <2>3
<1>3. CASE Plan(s)
  <2>1. UNCHANGED tables /\ pc[s] = "plan"
    BY <1>3 DEF Plan
  <2>2. CASE \E a : End(s, a)
    BY <2>1, <2>2, EndingKeeps
  <2>3. CASE Goto(s, IF cmd[s].kind = "checkout" THEN "checkout" ELSE "sale") /\ UNCHANGED <<local, held>>
    <3>1. ASSUME UNCHANGED <<tables, local>>, pc'[s] = IF cmd[s].kind = "checkout" THEN "checkout" ELSE "sale", held'[s] = held[s]
          PROVE  RequestOK(s)'
      BY <1>0, <2>1, <2>3, <3>1 DEF tables, local, Sold, LinesOf, OpenTills
    <3> QED BY <2>1, <2>3, <3>1, GoingOnKeeps
  <2> QED BY <1>3, <2>2, <2>3 DEF Plan
<1>4. CASE Verify(s)
  <2>1. UNCHANGED tables /\ pc[s] = "verify"
    BY <1>4 DEF Verify
  <2>2. CASE \E a : End(s, a)
    BY <2>1, <2>2, EndingKeeps
  <2>3. CASE Goto(s, "commit") /\ UNCHANGED <<local, held>>
    <3>1. ASSUME UNCHANGED <<tables, local>>, pc'[s] = "commit", held'[s] = held[s]
          PROVE  RequestOK(s)'
      BY <1>0, <2>1, <2>3, <3>1 DEF tables, local, Sold, LinesOf, OpenTills
    <3> QED BY <2>1, <2>3, <3>1, GoingOnKeeps
  <2> QED BY <1>4, <2>2, <2>3 DEF Verify
<1> QED BY <1>1, <1>2, <1>3, <1>4

LEMMA MaxOfRun ==
  ASSUME NEW n \in Nat PROVE Max({0} \cup 1..n) = n
<1>1. n \in {0} \cup 1..n /\ \A m \in {0} \cup 1..n : n >= m /\ m \in Nat
  OBVIOUS
<1>2. \A x \in {0} \cup 1..n : (\A m \in {0} \cup 1..n : x >= m) => x = n
  BY <1>1
<1> QED BY <1>1, <1>2 DEF Max

\* The sale: its row, its stock, its number.
LEMMA SaleSteps ==
  ASSUME Served, NEW s \in Sessions,
         LockCheckout(s) \/ CommitStored(s) \/ InsertSale(s) \/ RefuseShort(s) \/ MoveStock(s) \/ TakeNumber(s)
  PROVE  Served'
<1> USE DEF RequestOK, PathOK, OpenOK, TillOK, LineOK, RemoveOK, SaleOK, Removes, LockedOpen, SetKinds
<1>0. RequestOK(s)
  BY DEF Served
<1>1. CASE LockCheckout(s)
  <2>1. Lock(s, "checkout", "sale") /\ UNCHANGED local
    BY <1>1 DEF LockCheckout
  <2>2. ASSUME UNCHANGED <<tables, local>>, pc[s] = "checkout", pc'[s] = "sale", held'[s] = held[s] \cup Wants(s)
        PROVE  RequestOK(s)'
    BY <1>0, <2>1, <2>2 DEF Wants, tables, local, Sold, LinesOf, OpenTills
  <2> QED BY <2>1, <2>2, LockingKeeps
<1>2. CASE CommitStored(s)
  <2>1. CASE \E a : End(s, a) /\ UNCHANGED tables
    BY <1>2, <2>1, EndingKeeps DEF CommitStored
  <2>2. CASE cmd[s].kind = "checkout" /\ Lock(s, "sale", "line") /\ UNCHANGED local
    <3>1. ASSUME UNCHANGED <<tables, local>>, pc[s] = "sale", pc'[s] = "line", held'[s] = held[s] \cup Wants(s)
          PROVE  RequestOK(s)'
      BY <1>0, <2>2, <3>1 DEF Wants, tables, local, Sold, LinesOf, OpenTills
    <3> QED BY <2>2, <3>1, LockingKeeps
  <2> QED BY <1>2, <2>1, <2>2 DEF CommitStored
<1>3. CASE InsertSale(s)
  <2>1. Lock(s, "sale", "stock") /\ UNCHANGED local /\ ~Sold(s)
    BY <1>3 DEF InsertSale
  <2>2. ASSUME UNCHANGED <<tables, local>>, pc[s] = "sale", pc'[s] = "stock", held'[s] = held[s] \cup Wants(s)
        PROVE  RequestOK(s)'
    BY <1>0, <2>1, <2>2 DEF Wants, tables, local, Sold, LinesOf, OpenTills
  <2> QED BY <2>1, <2>2, LockingKeeps
<1>4. CASE RefuseShort(s)
  BY <1>4, EndingKeeps DEF RefuseShort
<1>5. CASE MoveStock(s)
  <2>1. Lock(s, "stock", "series") /\ UNCHANGED local
    BY <1>5 DEF MoveStock
  <2>2. ASSUME UNCHANGED <<tables, local>>, pc[s] = "stock", pc'[s] = "series", held'[s] = held[s] \cup Wants(s)
        PROVE  RequestOK(s)'
    BY <1>0, <2>1, <2>2 DEF Wants, tables, local, Sold, LinesOf, OpenTills
  <2> QED BY <2>1, <2>2, LockingKeeps
<1>6. CASE TakeNumber(s)
  <2> DEFINE to == AfterSale(s)
             n == 1 + Max({0} \cup {sales[x].number : x \in DOMAIN sales})
  <2>1. Lock(s, "series", to) /\ number' = [number EXCEPT ![s] = n] /\ cmd' = cmd /\ read' = read /\ done' = done
    BY <1>6 DEF TakeNumber
  <2>2. Cardinality(DOMAIN sales) \in Nat /\ n = 1 + Cardinality(DOMAIN sales)
    <3>1. Cardinality(DOMAIN sales) \in Nat
      BY FS_CardinalityType DEF Served, NumbersOK
    <3>2. {sales[x].number : x \in DOMAIN sales} = 1..Cardinality(DOMAIN sales)
      BY DEF Served, NumbersOK, NumbersGapless
    <3> QED BY <3>1, <3>2, MaxOfRun
  <2> HIDE DEF to, n
  <2>3. /\ UNCHANGED <<tables, cmd>> /\ pc[s] = "series" /\ pc'[s] = to /\ held'[s] = held[s] \cup Wants(s)
        /\ DOMAIN pc' = Sessions /\ DOMAIN held' = Sessions
        /\ \A r \in Sessions \ {s} : Unmoved(r) /\ held[r] \cap held'[s] = {}
    <3>1. \A r \in Sessions \ {s} : read'[r] = read[r] /\ done'[r] = done[r] /\ number'[r] = number[r]
      BY <2>1 DEF Served, Shapes
    <3> QED BY <2>1, <3>1, LockEffect
  <2>4. /\ number'[s] = n /\ DOMAIN number' = Sessions /\ IsRead(read'[s])
        /\ DOMAIN read' = Sessions /\ DOMAIN done' = Sessions
    BY <2>1 DEF Served, Shapes
  <2>5. <<"series", "invoice">> \in held'[s]
    BY <2>3 DEF Wants
  <2>6. CASE cmd[s].kind = "checkout"
    <3>1. to = "line"
      BY <2>6 DEF to, AfterSale
    <3>2. RequestOK(s)'
      BY <1>0, <2>1, <2>2, <2>3, <2>4, <2>5, <2>6, <3>1 DEF tables, Sold, LinesOf, OpenTills
    <3> QED BY <2>3, <2>4, <3>2, QuietStep
  <2>7. CASE cmd[s].kind = "sell"
    <3>1. to = "commit"
      BY <2>7 DEF to, AfterSale
    <3>2. RequestOK(s)'
      BY <1>0, <2>1, <2>2, <2>3, <2>4, <2>5, <2>7, <3>1 DEF tables, Sold, LinesOf, OpenTills
    <3> QED BY <2>3, <2>4, <3>2, QuietStep
  <2>8. cmd[s].kind \in {"checkout", "sell"}
    BY <1>0, <2>3
  <2> QED BY <2>6, <2>7, <2>8
<1> QED BY <1>1, <1>2, <1>3, <1>4, <1>5, <1>6

LEMMA FailingSteps ==
  ASSUME Served, NEW s \in Sessions, Fail(s) \/ AbortVictim(s)
  PROVE  Served'
<1>1. CASE Fail(s)
  BY <1>1, EndingKeeps DEF Fail
<1>2. CASE AbortVictim(s)
  <2>1. PICK S \in SUBSET Sessions : s \in S /\ Deadlocked(S)
    BY <1>2 DEF AbortVictim
  <2>2. Wants(s) # {}
    BY <2>1 DEF Deadlocked, Blockers
  <2>3. pc[s] # "idle"
    BY <2>2 DEF Wants
  <2> QED BY <1>2, <2>3, EndingKeeps DEF AbortVictim
<1> QED BY <1>1, <1>2

\* A request arrives.
LEMMA BeginKeeps ==
  ASSUME Served, NEW s \in Sessions, NEW c \in Commands, Begin(s, c)
  PROVE  Served'
<1>1. /\ pc[s] = "idle" /\ Minted(c) /\ Passes(c) /\ UNCHANGED tables
      /\ cmd' = [cmd EXCEPT ![s] = c] /\ read' = [read EXCEPT ![s] = GateRead(c)]
      /\ pc' = [pc EXCEPT ![s] = FirstStep(c)]
      /\ done' = done /\ number' = number /\ held' = held
  BY DEF Begin, Goto
<1>2. /\ cmd'[s] = c /\ read'[s] = GateRead(c) /\ pc'[s] = FirstStep(c)
      /\ held'[s] = {} /\ done'[s] = {} /\ number'[s] = 0
      /\ \A r \in Sessions \ {s} : Unmoved(r)
  BY <1>1 DEF Served, Shapes, Unmoved, RequestOK, PathOK
<1>3. IsRead(GateRead(c))
  BY DEF IsRead, GateRead
<1>4. Shapes'
  BY <1>1, <1>2, <1>3 DEF Served, Shapes, IsTill, IsLine, tables, IsRead, Unmoved
<1>5. LocksExclude'
  BY <1>1 DEF Served, LocksExclude
<1>6. ASSUME NEW r \in Sessions \ {s} PROVE RequestOK(r)'
  <2>1. RequestOK(r)
    BY DEF Served
  <2>2. pc[r] # "idle" /\ cmd[r].kind = "add" =>
          \A q \in Sessions \ {r} : pc'[q] # "idle" /\ cmd'[q].kind = "add" => cmd'[q].line # cmd[r].line
    <3> SUFFICES ASSUME pc[r] # "idle", cmd[r].kind = "add", NEW q \in Sessions \ {r},
                        pc'[q] # "idle", cmd'[q].kind = "add"
                 PROVE  cmd'[q].line # cmd[r].line
      OBVIOUS
    <3>1. CASE q = s
      BY <1>1, <1>2, <3>1 DEF Minted
    <3>2. CASE q # s
      BY <1>2, <2>1, <3>2 DEF Unmoved, RequestOK, LineOK
    <3> QED BY <3>1, <3>2
  <2> QED BY <1>1, <1>2, <2>1, <2>2, BystanderKeeps
<1>7. RequestOK(s)'
  <2>0. c.kind \in Kinds
    BY CommandAssumption
  <2>1. (PathOK(s) /\ OpenOK(s) /\ RemoveOK(s) /\ SaleOK(s))'
    <3>1. PathOK(s)'
      BY <1>2, <2>0 DEF FirstStep, PathOK, Removes, SetKinds, Kinds
    <3>2. pc'[s] \notin {"terminal", "id", "decide", "commit", "verify", "stock", "series"}
      BY <1>2, <2>0 DEF FirstStep
    <3>3. (OpenOK(s) /\ RemoveOK(s) /\ SaleOK(s))'
      BY <1>2, <3>2 DEF OpenOK, RemoveOK, SaleOK
    <3> QED BY <3>1, <3>3
  <2>2. TillOK(s)'
    <3>1. c.kind \notin {"open", "sell"} => c.till \in DOMAIN tills'
      BY <1>1, <2>0 DEF Passes, Usable, Kinds, SetKinds, tables
    <3>2. pc'[s] # "commit" /\ (c.kind \in SetKinds => pc'[s] # "line")
      BY <1>2, <2>0 DEF FirstStep, Kinds, SetKinds
    <3> QED BY <1>2, <3>1, <3>2 DEF TillOK
  <2>3. LineOK(s)'
    <3>1. c.kind \in {"quantity", "discount"} =>
            /\ c.line \in LinesOf(c.till)
            /\ read'[s].rows[c.line] = lines[c.line] /\ lines[c.line].till = c.till /\ IsLine(lines[c.line])
      BY <1>1, <1>2 DEF Passes, Basket, LinesOf, GateRead, Served, Shapes
    <3>2. c.kind = "add" =>
            /\ c.line \notin DOMAIN lines
            /\ \A r \in Sessions \ {s} : pc'[r] # "idle" /\ cmd'[r].kind = "add" => cmd'[r].line # c.line
      BY <1>1, <1>2 DEF Minted, Unmoved
    <3>3. c.kind = "remove" => c.line \in LinesOf(c.till)
      BY <1>1 DEF Passes
    <3>4. c.kind = "checkout" => pc'[s] = "replay"
      BY <1>2 DEF FirstStep, SetKinds
    <3>5. c.kind \notin SetKinds \cup {"checkout"} => DOMAIN read'[s].rows = {}
      BY <1>2 DEF GateRead, SetKinds
    <3> QED BY <1>1, <1>2, <3>1, <3>2, <3>3, <3>4, <3>5 DEF LineOK, LinesOf, tables, IsLine
  <2> QED BY <2>1, <2>2, <2>3 DEF RequestOK
<1>8. (TillsExclusive /\ OrdinalsDistinct /\ NumbersOK)'
  BY <1>1 DEF Served, TillsExclusive, OpenTills, OrdinalsDistinct, NumbersOK, NumbersGapless, tables
<1> QED BY <1>4, <1>5, <1>6, <1>7, <1>8 DEF Served

-----------------------------------------------------------------------------
\* What a commit writes.

LEMMA KindOf ==
  ASSUME Served, NEW s \in Sessions PROVE cmd[s].kind \in Kinds
  BY CommandAssumption DEF Served, Shapes

\* Tombstoning a row keeps everything else of it.
LEMMA Tombstoning ==
  ASSUME NEW x, IsLine(x), NEW b \in BOOLEAN
  PROVE  LET y == [x EXCEPT !.live = x.live /\ b] IN
           /\ IsLine(y) /\ y.till = x.till /\ y.no = x.no /\ (y.live => x.live)
           /\ y.item = x.item /\ y.qty = x.qty /\ y.disc = x.disc /\ (y.live => b)
           /\ b => y = x
<1> DEFINE y == [x EXCEPT !.live = x.live /\ b]
<1>1. x = [till |-> x.till, no |-> x.no, item |-> x.item, qty |-> x.qty, disc |-> x.disc, live |-> x.live]
      /\ x.live \in BOOLEAN
  BY DEF IsLine
<1>2. y = [till |-> x.till, no |-> x.no, item |-> x.item, qty |-> x.qty, disc |-> x.disc, live |-> x.live /\ b]
  BY <1>1
<1>3. /\ IsLine(y) /\ y.till = x.till /\ y.no = x.no /\ (y.live => x.live)
      /\ y.item = x.item /\ y.qty = x.qty /\ y.disc = x.disc /\ (y.live => b)
  BY <1>1, <1>2 DEF IsLine
<1>4. b => y = x
  BY <1>1, <1>2
<1> QED BY <1>3, <1>4

\* Rows after their tombstoning, none of them or some.
Swept(L, D) == [k \in DOMAIN L |-> [L[k] EXCEPT !.live = L[k].live /\ k \notin D]]

LEMMA SweptRows ==
  ASSUME NEW L, NEW D, \A l \in DOMAIN L : IsLine(L[l])
  PROVE  /\ DOMAIN Swept(L, D) = DOMAIN L
         /\ \A l \in DOMAIN L :
              /\ Swept(L, D)[l].till = L[l].till /\ Swept(L, D)[l].no = L[l].no /\ Swept(L, D)[l].item = L[l].item
              /\ Swept(L, D)[l].qty = L[l].qty /\ Swept(L, D)[l].disc = L[l].disc
              /\ Swept(L, D)[l].live => L[l].live /\ l \notin D
              /\ l \notin D => Swept(L, D)[l] = L[l]
              /\ IsLine(Swept(L, D)[l])
<1>1. ASSUME NEW l \in DOMAIN L
      PROVE  /\ Swept(L, D)[l].till = L[l].till /\ Swept(L, D)[l].no = L[l].no /\ Swept(L, D)[l].item = L[l].item
             /\ Swept(L, D)[l].qty = L[l].qty /\ Swept(L, D)[l].disc = L[l].disc
             /\ Swept(L, D)[l].live => L[l].live /\ l \notin D
             /\ l \notin D => Swept(L, D)[l] = L[l]
             /\ IsLine(Swept(L, D)[l])
  <2> DEFINE b == l \notin D
             y == [L[l] EXCEPT !.live = L[l].live /\ b]
  <2>1. Swept(L, D)[l] = y /\ b \in BOOLEAN /\ IsLine(L[l])
    BY DEF Swept
  <2> HIDE DEF b
  <2>2. /\ IsLine(y) /\ y.till = L[l].till /\ y.no = L[l].no /\ (y.live => L[l].live)
        /\ y.item = L[l].item /\ y.qty = L[l].qty /\ y.disc = L[l].disc /\ (y.live => b)
        /\ b => y = L[l]
    BY <2>1, Tombstoning
  <2> HIDE DEF y
  <2> QED BY <2>1, <2>2 DEF b
<1> QED BY <1>1 DEF Swept

\* Closing a row keeps everything else of it.
LEMMA Closing ==
  ASSUME NEW x, IsTill(x), NEW b \in BOOLEAN
  PROVE  LET y == [x EXCEPT !.open = b] IN IsTill(y) /\ y.user = x.user /\ y.at = x.at /\ y.open = b
<1> DEFINE y == [x EXCEPT !.open = b]
<1>1. x = [user |-> x.user, at |-> x.at, open |-> x.open]
  BY DEF IsTill
<1>2. y = [user |-> x.user, at |-> x.at, open |-> b]
  BY <1>1
<1> QED BY <1>2 DEF IsTill

\* The row of a till changes only under its lock, and never reopens; a new
\* one is the caller's, at the drawer it asked for.
LEMMA CommitTills ==
  ASSUME Served, NEW r \in Sessions, Commit(r)
  PROVE  /\ DOMAIN tills \subseteq DOMAIN tills'
         /\ \A t \in DOMAIN tills :
              /\ tills'[t].user = tills[t].user /\ tills'[t].at = tills[t].at
              /\ tills'[t].open => tills[t].open
              /\ tills'[t] = tills[t] \/ (t = cmd[r].till /\ LockedOpen(r))
         /\ \A t \in DOMAIN tills' \ DOMAIN tills :
              /\ cmd[r].kind = "open" /\ t = cmd[r].till
              /\ tills'[t].user = cmd[r].user /\ tills'[t].at = cmd[r].at
         /\ \A t \in DOMAIN tills' : IsTill(tills'[t])
<1>1. pc[r] = "commit" /\ tills' = TillsAfter(r) /\ RequestOK(r)
  BY DEF Commit, Served
<1>2. \A t \in DOMAIN tills : IsTill(tills[t])
  BY DEF Served, Shapes
<1>3. CASE cmd[r].kind = "open"
  <2>1. tills' = Put(tills, cmd[r].till, [user |-> cmd[r].user, at |-> cmd[r].at, open |-> TRUE])
    BY <1>1, <1>3 DEF TillsAfter
  <2>2. cmd[r].till \notin DOMAIN tills
    BY <1>1, <1>3 DEF RequestOK, OpenOK, MayOpen
  <2> QED BY <1>2, <1>3, <2>1, <2>2 DEF Put, IsTill
<1>4. CASE cmd[r].kind = "close"
  <2>1. tills' = [tills EXCEPT ![cmd[r].till].open = FALSE]
    BY <1>1, <1>4 DEF TillsAfter
  <2>2. LockedOpen(r) /\ cmd[r].till \in DOMAIN tills
    BY <1>1, <1>4 DEF RequestOK, TillOK, LockedOpen, OpenTills
  <2>3. DOMAIN tills' = DOMAIN tills
        /\ \A t \in DOMAIN tills : tills'[t] = IF t = cmd[r].till THEN [tills[t] EXCEPT !.open = FALSE] ELSE tills[t]
    BY <2>1
  <2>4. ASSUME NEW t \in DOMAIN tills
        PROVE  LET y == [tills[t] EXCEPT !.open = FALSE] IN
                 IsTill(y) /\ y.user = tills[t].user /\ y.at = tills[t].at /\ ~y.open
    <3>1. IsTill(tills[t])
      BY <1>2
    <3> QED BY <3>1, Closing
  <2> QED BY <1>2, <2>2, <2>3, <2>4
<1>5. CASE cmd[r].kind \notin {"open", "close"}
  <2>1. tills' = tills
    BY <1>1, <1>5 DEF TillsAfter
  <2> QED BY <1>2, <2>1
<1> QED BY <1>3, <1>4, <1>5

\* A line stays a line of its till, and is written only under the lock of it.
LEMMA CommitLines ==
  ASSUME Served, NEW r \in Sessions, Commit(r)
  PROVE  /\ \A l \in DOMAIN lines :
              /\ l \in DOMAIN lines' /\ lines'[l].till = lines[l].till
              /\ lines'[l] = lines[l] \/ (lines[l].till = cmd[r].till /\ LockedOpen(r))
         /\ \A l \in DOMAIN lines' \ DOMAIN lines :
              /\ cmd[r].kind = "add" /\ l = cmd[r].line /\ lines'[l].till = cmd[r].till
              /\ LockedOpen(r)
         /\ \A l \in DOMAIN lines' : IsLine(lines'[l])
<1>1. pc[r] = "commit" /\ lines' = LinesAfter(r) /\ RequestOK(r)
  BY DEF Commit, Served
<1>2. \A l \in DOMAIN lines : IsLine(lines[l])
  BY DEF Served, Shapes
<1>3. CASE cmd[r].kind = "add"
  <2>1. lines' = Put(lines, cmd[r].line, Added(r))
    BY <1>1, <1>3 DEF LinesAfter
  <2>2. cmd[r].line \notin DOMAIN lines /\ LockedOpen(r)
    BY <1>1, <1>3 DEF RequestOK, LineOK, TillOK, SetKinds
  <2>3. IsLine(Added(r)) /\ Added(r).till = cmd[r].till
    BY DEF Added, IsLine
  <2> QED BY <1>2, <1>3, <2>1, <2>2, <2>3 DEF Put
<1>4. CASE cmd[r].kind \in {"quantity", "discount"}
  <2>1. lines' = Put(lines, cmd[r].line, Revised(r))
    BY <1>1, <1>4 DEF LinesAfter
  <2>2. cmd[r].line \in DOMAIN lines /\ lines[cmd[r].line].till = cmd[r].till /\ LockedOpen(r)
    BY <1>1, <1>4 DEF RequestOK, LineOK, TillOK, SetKinds, LinesOf
  <2>3. IsLine(Revised(r)) /\ Revised(r).till = cmd[r].till
    BY <1>1, <1>4 DEF RequestOK, LineOK, Revised, IsLine
  <2> QED BY <1>2, <2>1, <2>2, <2>3 DEF Put
<1>5. CASE cmd[r].kind \notin SetKinds
  <2>1. lines' = Swept(lines, done[r])
    BY <1>1, <1>5 DEF LinesAfter, SetKinds, Swept
  <2>2. \A l \in DOMAIN lines :
          /\ IsLine(lines'[l]) /\ lines'[l].till = lines[l].till
          /\ l \notin done[r] => lines'[l] = lines[l]
    BY <1>2, <2>1, SweptRows
  <2>3. ASSUME NEW l \in done[r], l \in DOMAIN lines
        PROVE  lines[l].till = cmd[r].till /\ LockedOpen(r)
    <3>1. Removes(r) /\ LockedOpen(r)
      BY <1>1, <2>3 DEF RequestOK, PathOK, RemoveOK
    <3>2. l \in LinesOf(cmd[r].till)
      BY <1>1, <2>3, <3>1 DEF RequestOK, RemoveOK, LineOK, Removes
    <3> QED BY <3>1, <3>2 DEF LinesOf
  <2>4. DOMAIN lines' = DOMAIN lines
    BY <1>2, <2>1, SweptRows
  <2> QED BY <2>2, <2>3, <2>4
<1> QED BY <1>3, <1>4, <1>5 DEF SetKinds

\* A till that the committed transaction does not hold open is not touched.
LEMMA CommitTouches ==
  ASSUME Served, NEW r \in Sessions, Commit(r), NEW t \in DOMAIN tills, ~(t = cmd[r].till /\ LockedOpen(r))
  PROVE  /\ tills'[t] = tills[t] /\ t \in DOMAIN tills'
         /\ \A l \in DOMAIN lines' : lines'[l].till = t => l \in DOMAIN lines /\ lines'[l] = lines[l]
         /\ \A l \in LinesOf(t) : l \in DOMAIN lines' /\ lines'[l] = lines[l]
  BY CommitTills, CommitLines DEF LinesOf

\* Sales are only added, one of the next number at a time.
LEMMA CommitSales ==
  ASSUME Served, NEW r \in Sessions, Commit(r)
  PROVE  /\ number[r] = 0 => sales' = sales
         /\ number[r] # 0 => DOMAIN sales' = DOMAIN sales \cup {cmd[r].sale}
         /\ NumbersOK'
         /\ \A x \in DOMAIN sales' \ DOMAIN sales : number[r] # 0 /\ sales'[x].basket = DOMAIN read[r].rows
<1> DEFINE n == Cardinality(DOMAIN sales)
<1>1. IsFiniteSet(DOMAIN sales) /\ n \in Nat /\ {sales[x].number : x \in DOMAIN sales} = 1..n
  BY FS_CardinalityType DEF Served, NumbersOK, NumbersGapless
<1>2. CASE number[r] = 0
  <2>1. sales' = sales
    BY <1>2 DEF Commit
  <2> QED BY <1>2, <2>1 DEF Served, NumbersOK, NumbersGapless
<1>3. CASE number[r] # 0
  <2>1. sales' = Put(sales, cmd[r].sale, NewSale(r))
    BY <1>3 DEF Commit
  <2>2. cmd[r].sale \notin DOMAIN sales /\ number[r] = 1 + n
    BY <1>3 DEF Served, RequestOK, SaleOK, Sold
  <2>3. DOMAIN sales' = DOMAIN sales \cup {cmd[r].sale}
        /\ sales'[cmd[r].sale] = NewSale(r) /\ \A x \in DOMAIN sales : sales'[x] = sales[x]
    BY <2>1, <2>2 DEF Put
  <2>4. IsFiniteSet(DOMAIN sales') /\ Cardinality(DOMAIN sales') = n + 1
    <3> DEFINE D == DOMAIN sales
    <3>1. IsFiniteSet(D) /\ cmd[r].sale \notin D /\ n = Cardinality(D)
      BY <1>1, <2>2
    <3> HIDE DEF D, n
    <3>2. IsFiniteSet(D \cup {cmd[r].sale}) /\ Cardinality(D \cup {cmd[r].sale}) = n + 1
      BY ONLY <3>1, FS_AddElement
    <3> QED  BY ONLY <2>3, <3>2, Zenon DEF D
  <2>5. NewSale(r).number = 1 + n /\ NewSale(r).basket = DOMAIN read[r].rows
    BY <2>2 DEF NewSale
  <2>6. {sales'[x].number : x \in DOMAIN sales'} = 1..(n + 1)
    <3>1. {sales'[x].number : x \in DOMAIN sales'} = {sales[x].number : x \in DOMAIN sales} \cup {1 + n}
      BY <2>2, <2>3, <2>5
    <3> QED BY <1>1, <3>1
  <2>7. NumbersOK'
    BY <2>4, <2>6 DEF NumbersOK, NumbersGapless
  <2> QED BY <1>3, <2>2, <2>3, <2>5, <2>7
<1> QED BY <1>2, <1>3

-----------------------------------------------------------------------------
\* What a commit leaves true.

\* A till held open by a bystander is not touched.
LEMMA HeldTillStands ==
  ASSUME Served, NEW r \in Sessions, Commit(r), NEW s \in Sessions, s # r, LockedOpen(s), Unmoved(s)
  PROVE  /\ LockedOpen(s)' /\ Basket(cmd[s].till)' = Basket(cmd[s].till)
         /\ \A l \in Basket(cmd[s].till) : lines'[l] = lines[l]
<1> DEFINE t == cmd[s].till
<1>1. t \in DOMAIN tills /\ tills[t].open /\ <<"till", t>> \in held[s]
  BY DEF LockedOpen, OpenTills
<1>2. ~(t = cmd[r].till /\ LockedOpen(r))
  BY <1>1 DEF LockedOpen, Served, LocksExclude
<1>3. /\ tills'[t] = tills[t] /\ t \in DOMAIN tills'
      /\ \A l \in DOMAIN lines' : lines'[l].till = t => l \in DOMAIN lines /\ lines'[l] = lines[l]
      /\ \A l \in LinesOf(t) : l \in DOMAIN lines' /\ lines'[l] = lines[l]
  BY <1>1, <1>2, CommitTouches
<1>4. cmd'[s] = cmd[s] /\ held'[s] = held[s]
  BY DEF Unmoved
<1> HIDE DEF t
<1>5. LinesOf(t)' = LinesOf(t)
  BY <1>3, <1>4 DEF LinesOf, t
<1>6. Basket(t)' = Basket(t) /\ \A l \in Basket(t) : lines'[l] = lines[l]
  BY <1>3, <1>5 DEF Basket
<1> QED BY <1>1, <1>3, <1>4, <1>6 DEF LockedOpen, OpenTills, t

\* The other requests.
LEMMA CommitBystander ==
  ASSUME Served, NEW r \in Sessions, Commit(r), NEW s \in Sessions, s # r
  PROVE  RequestOK(s)'
<1>1. RequestOK(s) /\ RequestOK(r)
  BY DEF Served
<1>2. pc[r] = "commit" /\ cmd' = cmd /\ pc' = [pc EXCEPT ![r] = "idle"] /\ held[r] \cap held[s] = {}
  BY DEF Commit, End, Goto, Served, LocksExclude
<1>3. Unmoved(s)
  BY DEF Commit, End, Goto, Unmoved, Served, Shapes
<1>4. PathOK(s)'
  BY <1>1, <1>3 DEF RequestOK, PathOK, Removes, Unmoved
<1>5. OpenOK(s)'
  <2> SUFFICES ASSUME cmd[s].kind = "open", pc[s] = "commit"
               PROVE  MayOpen(cmd[s])'
    BY <1>1, <1>3 DEF RequestOK, OpenOK, Unmoved
  <2>1. MayOpen(cmd[s])
    BY <1>1 DEF RequestOK, OpenOK
  <2>2. cmd[r].kind = "open" =>
          cmd[r].till # cmd[s].till /\ cmd[r].user # cmd[s].user /\ cmd[r].at # cmd[s].at
    BY <1>1, <1>2 DEF RequestOK, OpenOK
  <2>3. cmd[s].till \notin DOMAIN tills'
    BY <2>1, <2>2, CommitTills DEF MayOpen
  <2>4. ASSUME NEW t \in DOMAIN tills', tills'[t].open
        PROVE  tills'[t].user # cmd[s].user /\ tills'[t].at # cmd[s].at
    <3>1. CASE t \in DOMAIN tills
      BY <2>1, <2>4, <3>1, CommitTills DEF MayOpen, OpenTills
    <3>2. CASE t \notin DOMAIN tills
      BY <2>2, <2>4, <3>2, CommitTills
    <3> QED BY <3>1, <3>2
  <2> QED BY <1>2, <2>3, <2>4 DEF MayOpen, OpenTills
<1>6. LockedOpen(s) => LockedOpen(s)'
  BY <1>3, HeldTillStands
<1>7. TillOK(s)'
  <2>1. LockedOpen(s) /\ OrdinalFree(s) => OrdinalFree(s)'
    BY <1>2, <1>3, HeldTillStands DEF OrdinalFree, Ordinal, Unmoved
  <2>2. DOMAIN tills \subseteq DOMAIN tills'
    BY CommitTills
  <2> QED BY <1>1, <1>3, <1>6, <2>1, <2>2 DEF RequestOK, TillOK, Unmoved
<1>8. LineOK(s)'
  <2>1. LinesOf(cmd[s].till) \subseteq LinesOf(cmd[s].till)'
    BY <1>2, CommitLines DEF LinesOf
  <2>2. pc[s] # "idle" /\ cmd[s].kind = "add" => cmd[s].line \notin DOMAIN lines'
    BY <1>1, <1>2, CommitLines DEF RequestOK, LineOK
  <2>3. pc[s] # "idle" /\ cmd[s].kind = "add" =>
          \A q \in Sessions \ {s} : pc'[q] # "idle" /\ cmd'[q].kind = "add" => cmd'[q].line # cmd[s].line
    BY <1>1, <1>2 DEF RequestOK, LineOK, Served, Shapes
  <2> QED BY <1>1, <1>3, <2>1, <2>2, <2>3 DEF RequestOK, LineOK, IsLine, Unmoved
<1>9. RemoveOK(s)'
  BY <1>1, <1>3, <1>6 DEF RequestOK, RemoveOK, Removes, Unmoved
<1>10. SaleOK(s)'
  <2>1. number[r] # 0 => <<"sale", cmd[r].sale>> \in held[r] /\ <<"series", "invoice">> \in held[r]
    BY <1>1 DEF RequestOK, SaleOK
  <2>2. number[s] # 0 => sales' = sales
    <3>1. number[s] # 0 => <<"series", "invoice">> \in held[s]
      BY <1>1 DEF RequestOK, SaleOK
    <3> QED BY <1>2, <2>1, <3>1, CommitSales
  <2>3. <<"sale", cmd[s].sale>> \in held[s] /\ ~Sold(s) => cmd[s].sale \notin DOMAIN sales'
    BY <1>2, <2>1, CommitSales DEF Sold
  <2> QED BY <1>1, <1>3, <2>2, <2>3 DEF RequestOK, SaleOK, Sold, Unmoved
<1> QED BY <1>4, <1>5, <1>7, <1>8, <1>9, <1>10 DEF RequestOK

\* Two open tills of one user or at one drawer would need two decisions
\* under one lock.
LEMMA CommitExclusive ==
  ASSUME Served, NEW r \in Sessions, Commit(r)
  PROVE  TillsExclusive'
<1>1. RequestOK(r) /\ pc[r] = "commit"
  BY DEF Served, Commit
<1> SUFFICES ASSUME NEW t \in DOMAIN tills', NEW u \in DOMAIN tills', tills'[t].open, tills'[u].open, t # u
             PROVE  tills'[t].user # tills'[u].user /\ tills'[t].at # tills'[u].at
  BY DEF TillsExclusive, OpenTills
<1>2. ASSUME NEW v \in DOMAIN tills', NEW w \in DOMAIN tills', v \in DOMAIN tills, w \notin DOMAIN tills, tills'[v].open
      PROVE  tills'[v].user # tills'[w].user /\ tills'[v].at # tills'[w].at
  <2>1. cmd[r].kind = "open" /\ tills'[w].user = cmd[r].user /\ tills'[w].at = cmd[r].at
    BY <1>2, CommitTills
  <2>2. MayOpen(cmd[r])
    BY <1>1, <2>1 DEF RequestOK, OpenOK
  <2>3. v \in OpenTills /\ tills'[v].user = tills[v].user /\ tills'[v].at = tills[v].at
    BY <1>2, CommitTills DEF OpenTills
  <2> QED BY <2>1, <2>2, <2>3 DEF MayOpen
<1>3. CASE t \in DOMAIN tills /\ u \in DOMAIN tills
  BY <1>3, CommitTills DEF Served, TillsExclusive, OpenTills
<1>4. CASE t \in DOMAIN tills /\ u \notin DOMAIN tills
  BY <1>2, <1>4
<1>5. CASE t \notin DOMAIN tills /\ u \in DOMAIN tills
  BY <1>2, <1>5
<1>6. CASE t \notin DOMAIN tills /\ u \notin DOMAIN tills
  BY <1>6, CommitTills
<1> QED BY <1>3, <1>4, <1>5, <1>6

\* The ordinal a set line was checked for is still free.
LEMMA CommitOrdinals ==
  ASSUME Served, NEW r \in Sessions, Commit(r)
  PROVE  OrdinalsDistinct'
<1>1. pc[r] = "commit" /\ lines' = LinesAfter(r) /\ RequestOK(r) /\ OrdinalsDistinct
  BY DEF Commit, Served
<1>2. CASE cmd[r].kind \in SetKinds
  <2> DEFINE new == IF cmd[r].kind = "add" THEN Added(r) ELSE Revised(r)
             own == cmd[r].line
  <2>1. lines' = Put(lines, own, new)
    BY <1>1, <1>2 DEF LinesAfter, SetKinds
  <2>2. OrdinalFree(r)
    BY <1>1, <1>2 DEF RequestOK, TillOK
  <2>3. new.till = cmd[r].till /\ new.no = Ordinal(r)
    <3>1. CASE cmd[r].kind = "add"
      BY <3>1 DEF Added, Ordinal
    <3>2. CASE cmd[r].kind # "add"
      BY <1>1, <1>2, <3>2 DEF RequestOK, LineOK, SetKinds, Revised, IsLine, Ordinal
    <3> QED BY <3>1, <3>2
  <2> HIDE DEF new
  <2>4. DOMAIN lines' = DOMAIN lines \cup {own} /\ lines'[own] = new
        /\ \A l \in DOMAIN lines' \ {own} : l \in DOMAIN lines /\ lines'[l] = lines[l]
    BY <2>1 DEF Put
  <2>5. \A l \in DOMAIN lines' \ {own} : lines'[l].live /\ lines'[l].till = new.till => lines'[l].no # new.no
    BY <2>2, <2>3, <2>4 DEF OrdinalFree, Basket, LinesOf
  <2> QED BY <1>1, <2>4, <2>5 DEF OrdinalsDistinct
<1>3. CASE cmd[r].kind \notin SetKinds
  <2>1. lines' = Swept(lines, done[r]) /\ \A l \in DOMAIN lines : IsLine(lines[l])
    BY <1>1, <1>3 DEF LinesAfter, SetKinds, Swept, Served, Shapes
  <2>2. /\ DOMAIN lines' = DOMAIN lines
        /\ \A l \in DOMAIN lines :
             lines'[l].till = lines[l].till /\ lines'[l].no = lines[l].no /\ (lines'[l].live => lines[l].live)
    BY <2>1, SweptRows
  <2> QED BY <1>1, <2>2 DEF OrdinalsDistinct
<1> QED BY <1>2, <1>3

LEMMA CommitKeeps ==
  ASSUME Served, NEW r \in Sessions, Commit(r)
  PROVE  Served'
<1>1. /\ pc' = [pc EXCEPT ![r] = "idle"] /\ held' = [held EXCEPT ![r] = {}]
      /\ read' = [read EXCEPT ![r] = NoRead] /\ done' = [done EXCEPT ![r] = {}]
      /\ number' = [number EXCEPT ![r] = 0] /\ cmd' = cmd
  BY DEF Commit, End, Goto
<1>2. pc'[r] = "idle" /\ held'[r] = {} /\ done'[r] = {} /\ number'[r] = 0
  BY <1>1 DEF Served, Shapes
<1>3. Shapes'
  BY <1>1, CommitTills, CommitLines DEF Served, Shapes, IsRead, NoRead
<1>4. LocksExclude'
  BY <1>1 DEF Served, Shapes, LocksExclude
<1>5. RequestOK(r)'
  BY <1>2 DEF RequestOK, PathOK, OpenOK, TillOK, LineOK, RemoveOK, SaleOK
<1>6. \A s \in Sessions : RequestOK(s)'
  BY <1>5, CommitBystander
<1> QED BY <1>3, <1>4, <1>6, CommitExclusive, CommitOrdinals, CommitSales DEF Served

-----------------------------------------------------------------------------
\* Theorems of the specification.

LEMMA InitServed == Init => Served
<1> SUFFICES ASSUME Init PROVE Served
  OBVIOUS
<1>1. DOMAIN <<>> = {}
  OBVIOUS
<1>2. DOMAIN tills = {} /\ DOMAIN lines = {} /\ DOMAIN sales = {}
  BY <1>1 DEF Init
<1>3. Shapes
  <2>1. \A s \in Sessions : cmd[s] \in Commands
    BY CommandAssumption DEF Init
  <2> QED BY <1>2, <2>1 DEF Init, Shapes, IsRead, NoRead
<1>4. LocksExclude
  BY DEF Init, LocksExclude
<1>5. ASSUME NEW s \in Sessions PROVE RequestOK(s)
  BY DEF Init, RequestOK, PathOK, OpenOK, TillOK, LineOK, RemoveOK, SaleOK
<1>6. TillsExclusive /\ OrdinalsDistinct
  BY <1>2 DEF TillsExclusive, OpenTills, OrdinalsDistinct
<1>7. NumbersOK
  BY <1>2, FS_EmptySet DEF NumbersOK, NumbersGapless
<1> QED BY <1>3, <1>4, <1>5, <1>6, <1>7 DEF Served

\* Every step but a commit leaves the tables alone.
LEMMA OnlyCommitsWrite ==
  ASSUME [Next]_vars
  PROVE  UNCHANGED tables \/ \E s \in Sessions : Commit(s)
<1>1. CASE UNCHANGED vars
  BY <1>1 DEF vars, tables
<1>2. ASSUME NEW s \in Sessions, NEW c \in Commands, Begin(s, c) PROVE UNCHANGED tables
  BY <1>2 DEF Begin
<1>3. ASSUME NEW s \in Sessions, Step(s), ~Commit(s) PROVE UNCHANGED tables
  BY <1>3 DEF Step, Lock, ReplayFirst, ReadSnapshot, Plan, LockActor, LockTerminal, LockId, DecideOpen,
              AnswerClosed, LockTillToClose, SetLineOnTill, RefuseOnTill, SetLineOnLine, RefuseRemoved,
              FindRemoved, LockLineToRemove, RemoveLine, RefuseClosed, LockCheckout, CommitStored,
              InsertSale, RefuseShort, MoveStock, TakeNumber, Verify, AbortVictim
<1>4. ASSUME NEW s \in Sessions, Fail(s) PROVE UNCHANGED tables
  BY <1>4 DEF Fail
<1> QED BY <1>1, <1>2, <1>3, <1>4 DEF Next

LEMMA ServedStep ==
  ASSUME Served, [Next]_vars
  PROVE  Served'
<1>1. CASE UNCHANGED vars
  <2>1. /\ UNCHANGED tables /\ pc' = pc /\ cmd' = cmd /\ read' = read /\ done' = done
        /\ number' = number /\ held' = held
    BY <1>1 DEF vars, tables
  <2>2. ASSUME NEW s \in Sessions PROVE RequestOK(s)'
    BY <2>1, BystanderKeeps DEF Served, Unmoved, RequestOK, LineOK
  <2>3. Shapes' /\ LocksExclude'
    BY <2>1 DEF Served, Shapes, IsTill, IsLine, IsRead, LocksExclude, tables
  <2>4. (TillsExclusive /\ OrdinalsDistinct /\ NumbersOK)'
    BY <2>1 DEF Served, TillsExclusive, OpenTills, OrdinalsDistinct, NumbersOK, NumbersGapless, tables
  <2> QED BY <2>2, <2>3, <2>4 DEF Served
<1>2. ASSUME NEW s \in Sessions, Step(s) PROVE Served'
  BY <1>2, ReadingSteps, TillSteps, SetLineSteps, RemoveSteps, SaleSteps, CommitKeeps, FailingSteps DEF Step
<1> QED BY <1>1, <1>2, BeginKeeps, FailingSteps DEF Next

\* The invariant of the tills is inductive.
THEOREM TillsServed == Spec => []Served
<1>1. Served /\ [Next]_vars => Served'
  BY ServedStep
<1> QED BY InitServed, <1>1, PTL DEF Spec

\* One open till for a user and one for a drawer, however requests to open
\* race (0079:912).
THEOREM OneTillEach == Spec => []TillsExclusive
<1>1. Served => TillsExclusive
  BY DEF Served
<1> QED BY TillsServed, <1>1, PTL

\* The live lines of a basket have their own ordinals, however appends and
\* revisions of it race (0079:723, pos-cart-statements.ts:445).
THEOREM BasketOrdered == Spec => []OrdinalsDistinct
<1>1. Served => OrdinalsDistinct
  BY DEF Served
<1> QED BY TillsServed, <1>1, PTL

\* The invoices of the branch are numbered 1, 2, 3 ... (0078:946-966).
THEOREM InvoicesGapless == Spec => []NumbersGapless
<1>1. Served => NumbersGapless
  BY DEF Served, NumbersOK
<1> QED BY TillsServed, <1>1, PTL

\* Nothing of a closed till changes and nothing is sold from it, whatever was
\* under way when it closed (0079:762, 0079:968).
THEOREM ShiftIsFinal == Spec => ClosedTillFrozen
<1> DEFINE Frozen == \A t \in DOMAIN tills \ OpenTills :
       /\ tills'[t] = tills[t]
       /\ \A l \in DOMAIN lines' : lines'[l].till = t => l \in DOMAIN lines /\ lines'[l] = lines[l]
       /\ \A x \in DOMAIN sales' \ DOMAIN sales : sales'[x].basket \cap LinesOf(t) = {}
<1>1. ASSUME Served, [Next]_vars PROVE Frozen
  <2>1. CASE UNCHANGED tables
    BY <2>1 DEF tables
  <2>2. ASSUME NEW r \in Sessions, Commit(r), NEW t \in DOMAIN tills \ OpenTills
        PROVE  /\ tills'[t] = tills[t]
               /\ \A l \in DOMAIN lines' : lines'[l].till = t => l \in DOMAIN lines /\ lines'[l] = lines[l]
               /\ \A x \in DOMAIN sales' \ DOMAIN sales : sales'[x].basket \cap LinesOf(t) = {}
    <3>1. ~(t = cmd[r].till /\ LockedOpen(r))
      BY <2>2 DEF LockedOpen, OpenTills
    <3>2. RequestOK(r) /\ pc[r] = "commit"
      BY <1>1, <2>2 DEF Served, Commit
    <3>3. ASSUME NEW x \in DOMAIN sales' \ DOMAIN sales PROVE sales'[x].basket \cap LinesOf(t) = {}
      <4>1. number[r] # 0 /\ sales'[x].basket = DOMAIN read[r].rows
        BY <1>1, <2>2, CommitSales
      <4>2. CASE cmd[r].kind = "sell"
        <5>1. DOMAIN read[r].rows = {}
          BY <3>2, <4>2 DEF RequestOK, LineOK, SetKinds
        <5> QED BY <4>1, <5>1
      <4>3. CASE cmd[r].kind = "checkout"
        <5>1. DOMAIN read[r].rows # {} /\ DOMAIN read[r].rows \subseteq LinesOf(cmd[r].till)
          BY <3>2, <4>3 DEF RequestOK, LineOK
        <5>2. LockedOpen(r)
          BY <3>2, <4>3, <5>1 DEF RequestOK, RemoveOK, Removes
        <5> QED BY <3>1, <4>1, <5>1, <5>2 DEF LinesOf
      <4> QED BY <3>2, <4>1, <4>2, <4>3 DEF RequestOK, PathOK
    <3> QED BY <1>1, <2>2, <3>1, <3>3, CommitTouches
  <2> QED BY <1>1, <2>1, <2>2, OnlyCommitsWrite
<1> QED BY TillsServed, <1>1, PTL DEF Spec, ClosedTillFrozen

-----------------------------------------------------------------------------
\* What a transaction keeps of the lines it consumes, and what was told.

\* A row of the cart that is neither missing nor tombstoned.
Live(l) == l \in DOMAIN lines /\ lines[l].live

\* A transaction has the lines it consumes, or revises, locked and live.
HoldsLines(s) ==
  /\ \A l \in done[s] : <<"line", l>> \in held[s] /\ Live(l)
  /\ pc[s] = "guard" => <<"line", NextLine(s)>> \in held[s] /\ Live(NextLine(s))
  /\ pc[s] = "commit" /\ cmd[s].kind \in {"quantity", "discount"} => <<"line", cmd[s].line>> \in held[s] /\ Live(cmd[s].line)

\* The lines of a snapshot are still the lines that were read, but perhaps
\* for their quantity and discount, and for being live.
ReadsLines(s) ==
  /\ read[s].next \in Nat
  /\ pc[s] # "idle" /\ cmd[s].kind \in {"quantity", "discount"} => cmd[s].line \in DOMAIN read[s].rows
  /\ \A l \in DOMAIN read[s].rows :
       l \in DOMAIN lines /\ read[s].rows[l].no = lines[l].no /\ read[s].rows[l].item = lines[l].item

\* A checkout consumes its snapshot to the end and sells it as verified; one
\* that found its sale stored will not: a line of it is gone.
ConsumesWhole(s) ==
  /\ cmd[s].kind = "checkout" =>
       /\ done[s] # {} => pc[s] \in {"line", "guard", "verify", "commit"}
       /\ pc[s] \in {"line", "guard"} => done[s] \subseteq DOMAIN read[s].rows /\ done[s] # DOMAIN read[s].rows
       /\ pc[s] \in {"line", "guard", "verify", "commit"} =>
            number[s] # 0 \/ \E l \in DOMAIN read[s].rows : ~Live(l)
       /\ pc[s] = "commit" => Verified(s)
  /\ cmd[s].kind = "sell" /\ pc[s] = "commit" => number[s] # 0

\* What an answer says, of the tables.
Holds(s) ==
  /\ cmd[s].kind = "open" =>
       cmd[s].till \in DOMAIN tills /\ tills[cmd[s].till].user = cmd[s].user /\ tills[cmd[s].till].at = cmd[s].at
  /\ cmd[s].kind = "close" => cmd[s].till \in DOMAIN tills /\ ~tills[cmd[s].till].open
  /\ cmd[s].kind = "sell" => Sold(s) /\ SameIntent(s)
  /\ cmd[s].kind = "checkout" =>
       /\ Sold(s) /\ sales[cmd[s].sale].mode = cmd[s].mode
       /\ sales[cmd[s].sale].basket # {} /\ sales[cmd[s].sale].basket \subseteq LinesOf(cmd[s].till)

Told(s) == answer[s] \in {"done", "replayed"} => Holds(s)

SellingOK(s) == HoldsLines(s) /\ ReadsLines(s) /\ ConsumesWhole(s)

\* The sale of a checkout holds lines of one till, that of a direct sale none.
BasketsOK ==
  \A x \in DOMAIN sales :
    /\ sales[x].basket = {} => DOMAIN sales[x].items = {Own}
    /\ \A k, l \in sales[x].basket : lines[k].till = lines[l].till

OrdinalsOK == \E b \in Nat : \A l \in DOMAIN lines : lines[l].no \in 0..b

Sells ==
  /\ DOMAIN answer = Sessions
  /\ SoldIsScanned /\ BasketsOK /\ OrdinalsOK /\ Own \notin DOMAIN lines
  /\ \A s \in Sessions : SellingOK(s) /\ Told(s)

-----------------------------------------------------------------------------
\* Least and greatest numbers, and what merging depends on.

LEMMA LeastNat ==
  ASSUME NEW S, S \subseteq Nat, S # {}
  PROVE  \E n \in S : \A m \in S : n <= m
<1>1. PICK n \in S : \A m \in S : ~(<<m, n>> \in OpToRel(<, Nat))
  BY NatLessThanWellFounded, WFMin
<1>2. \A m \in S : ~(m < n)
  BY <1>1 DEF OpToRel
<1>3. \A m \in S : m \in Nat /\ n \in Nat
  OBVIOUS
<1>4. \A m \in S : n <= m
  BY <1>2, <1>3
<1> QED BY <1>4

LEMMA MaxIsNat ==
  ASSUME NEW S, NEW b \in Nat, S \subseteq 0..b, 0 \in S
  PROVE  Max(S) \in Nat
<1> DEFINE Bounds == {n \in Nat : \A m \in S : m <= n}
<1>1. b \in Bounds
  OBVIOUS
<1>2. PICK n \in Bounds : \A k \in Bounds : n <= k
  <2>1. Bounds \subseteq Nat /\ Bounds # {}
    BY <1>1
  <2> HIDE DEF Bounds
  <2> QED BY <2>1, LeastNat
<1>3. n \in S
  <2> SUFFICES ASSUME n \notin S PROVE FALSE
    OBVIOUS
  <2>1. n \in Nat /\ n > 0 /\ \A m \in S : m \in Nat /\ m <= n - 1
    BY <1>2
  <2>2. n - 1 \in Bounds
    BY <2>1
  <2> QED BY <1>2, <2>1, <2>2
<1>4. \A m \in S : n >= m
  BY <1>2
<1>5. Max(S) \in S
  BY <1>3, <1>4 DEF Max
<1>6. \A m \in S : m \in Nat
  OBVIOUS
<1> HIDE DEF Bounds
<1> QED BY <1>5, <1>6

\* A merged basket is not empty, and its lines are of the basket.
LEMMA MergedSome ==
  ASSUME NEW rows, DOMAIN rows # {}, \A l \in DOMAIN rows : rows[l].no \in Nat
  PROVE  DOMAIN Merged(rows) # {} /\ DOMAIN Merged(rows) \subseteq DOMAIN rows
<1> DEFINE N == {rows[l].no : l \in DOMAIN rows}
<1>1. PICK n \in N : \A m \in N : n <= m
  <2>1. N \subseteq Nat /\ N # {}
    OBVIOUS
  <2> HIDE DEF N
  <2> QED BY <2>1, LeastNat
<1>2. PICK l \in DOMAIN rows : rows[l].no = n
  OBVIOUS
<1>3. \A m \in Same(rows, l) : rows[l].no <= rows[m].no
  BY <1>1, <1>2 DEF Same
<1>4. l \in DOMAIN Merged(rows)
  BY <1>3 DEF Merged
<1> QED BY <1>4 DEF Merged

\* Merging looks at the ordinal, the item, the quantity and the discount of
\* a line, and at nothing else.
LEMMA MergedDepends ==
  ASSUME NEW f, NEW g, DOMAIN f = DOMAIN g,
         \A l \in DOMAIN f : f[l].no = g[l].no /\ f[l].item = g[l].item /\ f[l].qty = g[l].qty /\ f[l].disc = g[l].disc
  PROVE  Merged(f) = Merged(g)
<1>1. \A l \in DOMAIN f : Same(f, l) = Same(g, l) /\ Same(f, l) \subseteq DOMAIN f
  BY DEF Same
<1> DEFINE F == {k \in DOMAIN f : \A m \in Same(f, k) : f[k].no <= f[m].no}
           G == {k \in DOMAIN g : \A m \in Same(g, k) : g[k].no <= g[m].no}
<1>2. F = G
  BY <1>1
<1>3. ASSUME NEW l \in F
      PROVE  /\ [k \in Same(f, l) |-> f[k].qty] = [k \in Same(g, l) |-> g[k].qty]
             /\ [k \in Same(f, l) |-> f[k].disc] = [k \in Same(g, l) |-> g[k].disc]
             /\ f[l].item = g[l].item
  BY <1>1
<1> QED BY <1>2, <1>3 DEF Merged

\* The line a checkout consumes next is one of its snapshot.
LEMMA NextOfSnapshot ==
  ASSUME NEW s \in Sessions, cmd[s].kind = "checkout",
         done[s] \subseteq DOMAIN read[s].rows, done[s] # DOMAIN read[s].rows,
         \A l \in DOMAIN read[s].rows : read[s].rows[l].no \in Nat
  PROVE  NextLine(s) \in DOMAIN read[s].rows \ done[s]
<1> DEFINE R == DOMAIN read[s].rows \ done[s]
           N == {read[s].rows[l].no : l \in R}
<1>1. PICK n \in N : \A m \in N : n <= m
  <2>1. N \subseteq Nat /\ N # {}
    OBVIOUS
  <2> HIDE DEF N
  <2> QED BY <2>1, LeastNat
<1>2. \E l \in R : \A k \in R : read[s].rows[l].no <= read[s].rows[k].no
  BY <1>1
<1>3. NextLine(s) = CHOOSE l \in R : \A k \in R : read[s].rows[l].no <= read[s].rows[k].no
  BY DEF NextLine
<1> QED BY <1>2, <1>3

-----------------------------------------------------------------------------
\* What a commit does to the lines and the sales.

\* A row keeps its till, its ordinal and its item; only a live row changes,
\* under its lock.
LEMMA CommitRows ==
  ASSUME Served, NEW r \in Sessions, Commit(r), HoldsLines(r), ReadsLines(r)
  PROVE  /\ \A l \in DOMAIN lines :
              /\ l \in DOMAIN lines' /\ lines'[l].till = lines[l].till
              /\ lines'[l].no = lines[l].no /\ lines'[l].item = lines[l].item
              /\ lines'[l] = lines[l] \/ (lines[l].live /\ <<"line", l>> \in held[r])
         /\ \A l \in DOMAIN lines' \ DOMAIN lines :
              cmd[r].kind = "add" /\ l = cmd[r].line /\ lines'[l].no = read[r].next
<1>1. pc[r] = "commit" /\ lines' = LinesAfter(r) /\ RequestOK(r)
  BY DEF Commit, Served
<1>2. \A l \in DOMAIN lines : IsLine(lines[l])
  BY DEF Served, Shapes
<1>3. CASE cmd[r].kind = "add"
  <2>1. lines' = Put(lines, cmd[r].line, Added(r))
    BY <1>1, <1>3 DEF LinesAfter
  <2>2. cmd[r].line \notin DOMAIN lines
    BY <1>1, <1>3 DEF RequestOK, LineOK
  <2> QED BY <1>3, <2>1, <2>2 DEF Put, Added
<1>4. CASE cmd[r].kind \in {"quantity", "discount"}
  <2>1. lines' = Put(lines, cmd[r].line, Revised(r))
    BY <1>1, <1>4 DEF LinesAfter
  <2>2. cmd[r].line \in DOMAIN lines /\ lines[cmd[r].line].live /\ <<"line", cmd[r].line>> \in held[r]
    BY <1>1, <1>4 DEF HoldsLines, Live
  <2>3. lines[cmd[r].line].till = cmd[r].till /\ cmd[r].line \in DOMAIN read[r].rows
    BY <1>1, <1>4 DEF RequestOK, LineOK, LinesOf, ReadsLines
  <2>4. read[r].rows[cmd[r].line].no = lines[cmd[r].line].no /\ read[r].rows[cmd[r].line].item = lines[cmd[r].line].item
    BY <2>3 DEF ReadsLines
  <2>5. Revised(r).till = cmd[r].till /\ Revised(r).no = lines[cmd[r].line].no /\ Revised(r).item = lines[cmd[r].line].item
    BY <1>1, <1>4, <2>4 DEF RequestOK, LineOK, Revised, IsLine
  <2> QED BY <2>1, <2>2, <2>3, <2>5 DEF Put
<1>5. CASE cmd[r].kind \notin SetKinds
  <2>1. lines' = Swept(lines, done[r])
    BY <1>1, <1>5 DEF LinesAfter, SetKinds, Swept
  <2>2. \A l \in DOMAIN lines :
          /\ lines'[l].till = lines[l].till /\ lines'[l].no = lines[l].no /\ lines'[l].item = lines[l].item
          /\ l \notin done[r] => lines'[l] = lines[l]
    BY <1>2, <2>1, SweptRows
  <2>3. \A l \in done[r] : lines[l].live /\ <<"line", l>> \in held[r]
    BY DEF HoldsLines, Live
  <2>4. DOMAIN lines' = DOMAIN lines
    BY <1>2, <2>1, SweptRows
  <2> QED BY <2>2, <2>3, <2>4
<1> QED BY <1>3, <1>4, <1>5 DEF SetKinds

\* A stored sale is not written again.
LEMMA CommitRecords ==
  ASSUME Served, NEW r \in Sessions, Commit(r)
  PROVE  /\ \A x \in DOMAIN sales : x \in DOMAIN sales' /\ sales'[x] = sales[x]
         /\ \A x \in DOMAIN sales' \ DOMAIN sales : x = cmd[r].sale /\ sales'[x] = NewSale(r) /\ number[r] # 0
         /\ number[r] # 0 => ~Sold(r) /\ cmd[r].sale \in DOMAIN sales' /\ sales'[cmd[r].sale] = NewSale(r)
<1>1. CASE number[r] = 0
  BY <1>1 DEF Commit
<1>2. CASE number[r] # 0
  <2>1. sales' = Put(sales, cmd[r].sale, NewSale(r)) /\ ~Sold(r)
    BY <1>2 DEF Commit, Served, RequestOK, SaleOK
  <2> QED BY <1>2, <2>1 DEF Put, Sold
<1> QED BY <1>1, <1>2

\* What a checkout consumes when it commits.
LEMMA CheckoutConsumes ==
  ASSUME Served, NEW r \in Sessions, Commit(r), HoldsLines(r), ReadsLines(r), ConsumesWhole(r),
         cmd[r].kind = "checkout"
  PROVE  /\ number[r] # 0 /\ DOMAIN read[r].rows # {} /\ done[r] = DOMAIN read[r].rows
         /\ Basket(cmd[r].till) = DOMAIN read[r].rows
         /\ \A l \in DOMAIN read[r].rows : Live(l) /\ Tombstoned(l)' /\ lines[l].till = cmd[r].till
         /\ Merged(read[r].rows) = Merged([l \in DOMAIN read[r].rows |-> lines'[l]])
         /\ Basket(cmd[r].till)' = {}
<1>1. pc[r] = "commit" /\ RequestOK(r) /\ lines' = LinesAfter(r) /\ cmd' = cmd
  BY DEF Served, Commit, End
<1>2. done[r] = DOMAIN read[r].rows /\ done[r] # {} /\ DOMAIN read[r].rows \subseteq LinesOf(cmd[r].till)
  BY <1>1 DEF RequestOK, RemoveOK, LineOK, Removes
<1>3. \A l \in done[r] : Live(l)
  BY DEF HoldsLines
<1>4. Verified(r) /\ number[r] # 0
  BY <1>1, <1>2, <1>3 DEF ConsumesWhole
<1>5. Basket(cmd[r].till) = DOMAIN read[r].rows
  BY <1>2, <1>3, <1>4 DEF Verified, Basket, Live
<1>6. lines' = Swept(lines, done[r]) /\ \A l \in DOMAIN lines : IsLine(lines[l])
  BY <1>1 DEF LinesAfter, SetKinds, Swept, Served, Shapes
<1>7. /\ DOMAIN lines' = DOMAIN lines
      /\ \A l \in DOMAIN lines :
           /\ lines'[l].till = lines[l].till /\ lines'[l].no = lines[l].no /\ lines'[l].item = lines[l].item
           /\ lines'[l].qty = lines[l].qty /\ lines'[l].disc = lines[l].disc
           /\ lines'[l].live => lines[l].live /\ l \notin done[r]
  BY <1>6, SweptRows
<1>8. \A l \in DOMAIN read[r].rows : Tombstoned(l)'
  BY <1>2, <1>7 DEF Tombstoned, LinesOf
<1>9. Merged(read[r].rows) = Merged([l \in DOMAIN read[r].rows |-> lines'[l]])
  <2> DEFINE g == [l \in DOMAIN read[r].rows |-> lines'[l]]
             f == read[r].rows
  <2>1. DOMAIN f = DOMAIN g
    OBVIOUS
  <2>2. \A l \in DOMAIN f :
          f[l].no = g[l].no /\ f[l].item = g[l].item /\ f[l].qty = g[l].qty /\ f[l].disc = g[l].disc
    <3> SUFFICES ASSUME NEW l \in DOMAIN f
                 PROVE  f[l].no = g[l].no /\ f[l].item = g[l].item /\ f[l].qty = g[l].qty /\ f[l].disc = g[l].disc
      OBVIOUS
    <3>1. l \in DOMAIN lines /\ g[l] = lines'[l]
      BY <1>2 DEF LinesOf
    <3>2. f[l].no = lines[l].no /\ f[l].item = lines[l].item
      BY DEF ReadsLines
    <3>3. f[l].qty = lines[l].qty /\ f[l].disc = lines[l].disc
      BY <1>4 DEF Verified
    <3> QED BY <1>7, <3>1, <3>2, <3>3
  <2> HIDE DEF f, g
  <2>3. Merged(f) = Merged(g)
    BY <2>1, <2>2, MergedDepends
  <2> QED BY <2>3 DEF f, g
<1>10. Basket(cmd[r].till)' = {}
  <2> SUFFICES ASSUME NEW l \in DOMAIN lines', lines'[l].till = cmd[r].till, lines'[l].live PROVE FALSE
    BY <1>1 DEF Basket, LinesOf
  <2>1. l \in DOMAIN lines /\ l \notin done[r] /\ lines[l].live /\ lines[l].till = cmd[r].till
    BY <1>7
  <2> QED BY <1>2, <1>5, <2>1 DEF Basket, LinesOf
<1> QED BY <1>2, <1>3, <1>4, <1>5, <1>8, <1>9, <1>10 DEF LinesOf

\* The lines of a stored sale stay as they were sold, and a new sale takes
\* lines no sale has.
LEMMA CommitSold ==
  ASSUME Served, Sells, NEW r \in Sessions, Commit(r)
  PROVE  SoldIsScanned' /\ BasketsOK'
<1>1. HoldsLines(r) /\ ReadsLines(r) /\ ConsumesWhole(r) /\ RequestOK(r) /\ pc[r] = "commit"
  BY DEF Sells, SellingOK, Served, Commit
<1>2. ASSUME NEW x \in DOMAIN sales
      PROVE  /\ sales'[x] = sales[x]
             /\ \A l \in sales[x].basket : Tombstoned(l) /\ l \in DOMAIN lines' /\ lines'[l] = lines[l]
  <2>1. \A l \in sales[x].basket : Tombstoned(l)
    BY DEF Sells, SoldIsScanned
  <2>2. \A l \in sales[x].basket : l \in DOMAIN lines /\ ~lines[l].live
    BY <2>1 DEF Tombstoned
  <2>3. \A l \in sales[x].basket : l \in DOMAIN lines' /\ lines'[l] = lines[l]
    BY <1>1, <2>2, CommitRows
  <2> QED BY <2>1, <2>3, CommitRecords
<1>3. ASSUME NEW x \in DOMAIN sales' \ DOMAIN sales
      PROVE  /\ \A y \in DOMAIN sales : sales'[x].basket \cap sales[y].basket = {}
             /\ sales'[x].basket # {} =>
                  /\ \A l \in sales'[x].basket : Tombstoned(l)'
                  /\ sales'[x].items = Merged([l \in sales'[x].basket |-> lines'[l]])
             /\ sales'[x].basket = {} => DOMAIN sales'[x].items = {Own}
             /\ \A k, l \in sales'[x].basket : lines'[k].till = lines'[l].till
  <2>1. sales'[x] = NewSale(r) /\ number[r] # 0
    BY CommitRecords
  <2>2. sales'[x].basket = DOMAIN read[r].rows /\ sales'[x].items = ItemsOf(r)
    BY <2>1 DEF NewSale
  <2>3. CASE cmd[r].kind = "checkout"
    <3>1. /\ DOMAIN read[r].rows # {}
          /\ \A l \in DOMAIN read[r].rows : Live(l) /\ Tombstoned(l)' /\ lines[l].till = cmd[r].till
          /\ Merged(read[r].rows) = Merged([l \in DOMAIN read[r].rows |-> lines'[l]])
      BY <1>1, <2>3, CheckoutConsumes
    <3>2. ItemsOf(r) = Merged(read[r].rows)
      BY <2>3 DEF ItemsOf
    <3>3. \A l \in DOMAIN read[r].rows : lines'[l].till = cmd[r].till
      BY <1>1, <3>1, CommitRows DEF Live
    <3>4. \A y \in DOMAIN sales : DOMAIN read[r].rows \cap sales[y].basket = {}
      BY <1>2, <3>1 DEF Live, Tombstoned
    <3> HIDE DEF Tombstoned
    <3> QED BY <2>2, <3>1, <3>2, <3>3, <3>4
  <2>4. CASE cmd[r].kind = "sell"
    <3>1. DOMAIN read[r].rows = {}
      BY <1>1, <2>4 DEF RequestOK, LineOK, SetKinds
    <3>2. DOMAIN ItemsOf(r) = {Own}
      BY <2>4 DEF ItemsOf
    <3> QED BY <2>2, <3>1, <3>2
  <2>5. cmd[r].kind \in {"checkout", "sell"}
    BY <1>1, <2>1 DEF RequestOK, PathOK
  <2> QED BY <2>3, <2>4, <2>5
<1>4. \A x, y \in DOMAIN sales' : x # y => sales'[x].basket \cap sales'[y].basket = {}
  <2> SUFFICES ASSUME NEW x \in DOMAIN sales', NEW y \in DOMAIN sales', x # y
               PROVE  sales'[x].basket \cap sales'[y].basket = {}
    OBVIOUS
  <2>1. CASE x \in DOMAIN sales /\ y \in DOMAIN sales
    BY <1>2, <2>1 DEF Sells, SoldIsScanned
  <2>2. CASE x \in DOMAIN sales /\ y \notin DOMAIN sales
    BY <1>2, <1>3, <2>2
  <2>3. CASE x \notin DOMAIN sales /\ y \in DOMAIN sales
    BY <1>2, <1>3, <2>3
  <2>4. CASE x \notin DOMAIN sales /\ y \notin DOMAIN sales
    <3>1. x = cmd[r].sale /\ y = cmd[r].sale
      BY <2>4, CommitRecords
    <3> QED BY <3>1
  <2> QED BY <2>1, <2>2, <2>3, <2>4
<1>5. ASSUME NEW x \in DOMAIN sales', sales'[x].basket # {}
      PROVE  /\ \A l \in sales'[x].basket : Tombstoned(l)'
             /\ sales'[x].items = Merged([l \in sales'[x].basket |-> lines'[l]])
  <2>1. CASE x \in DOMAIN sales
    <3>1. sales'[x] = sales[x] /\ \A l \in sales[x].basket : Tombstoned(l) /\ l \in DOMAIN lines' /\ lines'[l] = lines[l]
      BY <1>2, <2>1
    <3>2. \A l \in sales[x].basket : Tombstoned(l)'
      BY <3>1 DEF Tombstoned
    <3>3. [l \in sales[x].basket |-> lines'[l]] = [l \in sales[x].basket |-> lines[l]]
      BY <3>1
    <3>4. sales[x].items = Merged([l \in sales[x].basket |-> lines[l]])
      BY <1>5, <2>1, <3>1 DEF Sells, SoldIsScanned
    <3> QED BY <3>1, <3>2, <3>3, <3>4
  <2>2. CASE x \notin DOMAIN sales
    BY <1>3, <1>5, <2>2
  <2> QED BY <2>1, <2>2
<1>6. BasketsOK'
  <2> SUFFICES ASSUME NEW x \in DOMAIN sales'
               PROVE  /\ sales'[x].basket = {} => DOMAIN sales'[x].items = {Own}
                      /\ \A k, l \in sales'[x].basket : lines'[k].till = lines'[l].till
    BY DEF BasketsOK
  <2>1. CASE x \in DOMAIN sales
    BY <1>2, <2>1 DEF Sells, BasketsOK
  <2>2. CASE x \notin DOMAIN sales
    BY <1>3, <2>2
  <2> QED BY <2>1, <2>2
<1> QED BY <1>4, <1>5, <1>6 DEF SoldIsScanned

LEMMA CommitBound ==
  ASSUME Served, Sells, NEW r \in Sessions, Commit(r)
  PROVE  OrdinalsOK' /\ Own \notin DOMAIN lines'
<1>1. HoldsLines(r) /\ ReadsLines(r)
  BY DEF Sells, SellingOK
<1>2. PICK b \in Nat : \A l \in DOMAIN lines : lines[l].no \in 0..b
  BY DEF Sells, OrdinalsOK
<1> DEFINE m == read[r].next
           c == IF b >= m THEN b ELSE m
<1>3. m \in Nat
  BY <1>1 DEF ReadsLines
<1>4. c \in Nat /\ 0..b \subseteq 0..c /\ m \in 0..c
  BY <1>3
<1>5. \A l \in DOMAIN lines' : (l \in DOMAIN lines /\ lines'[l].no = lines[l].no) \/ (lines'[l].no = m /\ l = cmd[r].line)
  BY <1>1, CommitRows
<1> HIDE DEF m, c
<1>6. \A l \in DOMAIN lines' : lines'[l].no \in 0..c
  BY <1>2, <1>4, <1>5
<1>7. cmd[r].line # Own
  BY CommandAssumption DEF Served, Shapes
<1> QED BY <1>4, <1>5, <1>6, <1>7 DEF OrdinalsOK, Sells

\* What another request has locked or read does not change under it.
LEMMA CommitOthers ==
  ASSUME Served, Sells, NEW r \in Sessions, Commit(r), NEW s \in Sessions, s # r
  PROVE  SellingOK(s)'
<1>1. HoldsLines(r) /\ ReadsLines(r) /\ SellingOK(s) /\ RequestOK(s) /\ held[r] \cap held[s] = {}
  BY DEF Sells, SellingOK, Served, LocksExclude
<1>2. Unmoved(s)
  BY DEF Commit, End, Goto, Unmoved, Served, Shapes
<1>3. \A l : <<"line", l>> \in held[s] /\ Live(l) => Live(l)' /\ lines'[l] = lines[l]
  BY <1>1, CommitRows DEF Live
<1>4. NextLine(s)' = NextLine(s)
  BY <1>2 DEF Unmoved, NextLine
<1>5. HoldsLines(s)'
  BY <1>1, <1>2, <1>3, <1>4 DEF SellingOK, HoldsLines, Unmoved
<1>6. ReadsLines(s)'
  <2>1. read'[s] = read[s] /\ pc'[s] = pc[s] /\ cmd'[s] = cmd[s]
    BY <1>2 DEF Unmoved
  <2>2. \A l \in DOMAIN lines : l \in DOMAIN lines' /\ lines'[l].no = lines[l].no /\ lines'[l].item = lines[l].item
    BY <1>1, CommitRows
  <2> QED BY <1>1, <2>1, <2>2 DEF SellingOK, ReadsLines
<1>7. ConsumesWhole(s)'
  <2>1. \A l \in DOMAIN read[s].rows : ~Live(l) => ~Live(l)'
    BY <1>1, CommitRows DEF SellingOK, ReadsLines, Live
  <2>2. ASSUME pc[s] = "commit", cmd[s].kind = "checkout" PROVE Verified(s)'
    <3>1. /\ done[s] = DOMAIN read[s].rows /\ LockedOpen(s)
          /\ \A l \in DOMAIN read[s].rows : l \in Basket(cmd[s].till)
      BY <1>1, <2>2 DEF RequestOK, RemoveOK, LineOK, Removes, SellingOK, HoldsLines, Live, Basket
    <3>2. /\ Basket(cmd[s].till)' = Basket(cmd[s].till)
          /\ \A l \in Basket(cmd[s].till) : lines'[l] = lines[l]
      BY <1>2, <3>1, HeldTillStands
    <3>3. Verified(s)
      BY <1>1, <2>2 DEF SellingOK, ConsumesWhole
    <3>4. read'[s] = read[s] /\ done'[s] = done[s] /\ cmd'[s] = cmd[s]
      BY <1>2 DEF Unmoved
    <3>5. Basket(cmd[s].till)' \subseteq done[s]
      BY <3>2, <3>3 DEF Verified
    <3>6. \A l \in DOMAIN read[s].rows : lines'[l].qty = read[s].rows[l].qty /\ lines'[l].disc = read[s].rows[l].disc
      BY <3>1, <3>2, <3>3 DEF Verified
    <3> QED BY <3>4, <3>5, <3>6 DEF Verified
  <2> QED BY <1>1, <1>2, <2>1, <2>2 DEF SellingOK, ConsumesWhole, Unmoved
<1> QED BY <1>5, <1>6, <1>7 DEF SellingOK

\* What was told stays true: the tills keep their user and drawer and do not
\* reopen, the sales are not written again.
LEMMA CommitStillHolds ==
  ASSUME Served, Sells, NEW r \in Sessions, Commit(r), NEW s \in Sessions, Holds(s)
  PROVE  Holds(s)'
<1>1. cmd'[s] = cmd[s] /\ HoldsLines(r) /\ ReadsLines(r)
  BY DEF Commit, End, Sells, SellingOK
<1>2. \A t : LinesOf(t) \subseteq LinesOf(t)'
  BY <1>1, CommitRows DEF LinesOf
<1>3. cmd[s].kind \in {"open", "close"} => Holds(s)'
  BY <1>1, CommitTills DEF Holds
<1>4. Sold(s) => Sold(s)' /\ sales'[cmd[s].sale] = sales[cmd[s].sale]
  BY <1>1, CommitRecords DEF Sold
<1>5. cmd[s].kind = "sell" => ItemsOf(s)' = ItemsOf(s)
  BY <1>1 DEF ItemsOf
<1>6. cmd[s].kind = "sell" => Sold(s)' /\ SameIntent(s)'
  BY <1>1, <1>4, <1>5 DEF Holds, SameIntent
<1>7. cmd[s].kind = "checkout" => Holds(s)'
  BY <1>1, <1>2, <1>4 DEF Holds
<1> QED BY <1>1, <1>3, <1>6, <1>7 DEF Holds

LEMMA CommitTold ==
  ASSUME Served, Sells, NEW r \in Sessions, Commit(r)
  PROVE  Holds(r)'
<1>1. /\ HoldsLines(r) /\ ReadsLines(r) /\ ConsumesWhole(r) /\ RequestOK(r) /\ pc[r] = "commit"
      /\ cmd' = cmd /\ tills' = TillsAfter(r)
  BY DEF Sells, SellingOK, Served, Commit, End
<1>2. CASE cmd[r].kind = "open"
  BY <1>1, <1>2 DEF TillsAfter, Put, Holds
<1>3. CASE cmd[r].kind = "close"
  <2>1. cmd[r].till \in DOMAIN tills
    BY <1>1, <1>3 DEF RequestOK, TillOK
  <2>2. tills' = [tills EXCEPT ![cmd[r].till].open = FALSE] /\ IsTill(tills[cmd[r].till])
    BY <1>1, <1>3, <2>1 DEF TillsAfter, Served, Shapes
  <2>3. cmd[r].till \in DOMAIN tills' /\ ~tills'[cmd[r].till].open
    BY <2>1, <2>2 DEF IsTill
  <2> QED BY <1>1, <1>3, <2>3 DEF Holds
<1>4. CASE cmd[r].kind = "sell"
  <2>1. number[r] # 0
    BY <1>1, <1>4 DEF ConsumesWhole
  <2>2. cmd[r].sale \in DOMAIN sales' /\ sales'[cmd[r].sale] = NewSale(r)
    BY <2>1, CommitRecords
  <2>3. ItemsOf(r)' = ItemsOf(r)
    BY <1>1, <1>4 DEF ItemsOf
  <2> QED BY <1>1, <1>4, <2>2, <2>3 DEF Holds, Sold, SameIntent, NewSale
<1>5. CASE cmd[r].kind = "checkout"
  <2>1. /\ number[r] # 0 /\ DOMAIN read[r].rows # {}
        /\ \A l \in DOMAIN read[r].rows : Live(l) /\ lines[l].till = cmd[r].till
    BY <1>1, <1>5, CheckoutConsumes
  <2>2. cmd[r].sale \in DOMAIN sales' /\ sales'[cmd[r].sale] = NewSale(r)
    BY <2>1, CommitRecords
  <2>3. DOMAIN read[r].rows \subseteq LinesOf(cmd[r].till)'
    BY <1>1, <2>1, CommitRows DEF LinesOf, Live
  <2> QED BY <1>1, <1>5, <2>1, <2>2, <2>3 DEF Holds, Sold, NewSale
<1> QED BY <1>2, <1>3, <1>4, <1>5, <1>1 DEF Holds

-----------------------------------------------------------------------------
\* Steps that write no table, again: what is kept of the lines and the sales.

LEMMA AsideKeeps ==
  ASSUME UNCHANGED tables, NEW r \in Sessions, Unmoved(r), SellingOK(r)
  PROVE  SellingOK(r)'
<1>1. /\ pc'[r] = pc[r] /\ cmd'[r] = cmd[r] /\ read'[r] = read[r]
      /\ done'[r] = done[r] /\ number'[r] = number[r] /\ held'[r] = held[r]
      /\ lines' = lines
  BY DEF Unmoved, tables
<1>2. NextLine(r)' = NextLine(r)
  BY <1>1 DEF NextLine
<1>3. \A l : Live(l)' <=> Live(l)
  BY <1>1 DEF Live
<1>4. Verified(r)' <=> Verified(r)
  BY <1>1 DEF Verified, Basket, LinesOf
<1>5. HoldsLines(r)'
  BY <1>1, <1>2, <1>3 DEF SellingOK, HoldsLines
<1>6. ReadsLines(r)'
  BY <1>1 DEF SellingOK, ReadsLines
<1>7. ConsumesWhole(r)'
  BY <1>1, <1>3, <1>4 DEF SellingOK, ConsumesWhole
<1> QED BY <1>5, <1>6, <1>7 DEF SellingOK

LEMMA SaidStillHolds ==
  ASSUME UNCHANGED tables, NEW r \in Sessions, cmd'[r] = cmd[r], Holds(r)
  PROVE  Holds(r)'
<1>1. cmd[r].kind = "sell" => ItemsOf(r)' = ItemsOf(r)
  BY DEF ItemsOf
<1>2. tills' = tills /\ lines' = lines /\ sales' = sales
  BY DEF tables
<1>3. cmd[r].kind \in {"open", "close", "checkout"} => Holds(r)'
  BY <1>2 DEF Holds, Sold, LinesOf
<1>4. cmd[r].kind = "sell" => Sold(r)' /\ SameIntent(r)'
  BY <1>1, <1>2 DEF Holds, Sold, SameIntent
<1> QED BY <1>3, <1>4 DEF Holds

\* Only one request moves: what is left to show is what holds of it.
LEMMA OneMoves ==
  ASSUME Sells, NEW s \in Sessions, UNCHANGED <<tables>>, DOMAIN answer' = Sessions,
         \A r \in Sessions \ {s} : Unmoved(r) /\ answer'[r] = answer[r],
         SellingOK(s)', Told(s)'
  PROVE  Sells'
<1>1. SoldIsScanned' /\ BasketsOK' /\ OrdinalsOK' /\ Own \notin DOMAIN lines'
  BY DEF Sells, SoldIsScanned, BasketsOK, OrdinalsOK, tables, Tombstoned
<1>2. ASSUME NEW r \in Sessions PROVE SellingOK(r)' /\ Told(r)'
  <2>1. CASE r = s
    BY <2>1
  <2>2. CASE r # s
    <3>1. SellingOK(r) /\ Unmoved(r) /\ answer'[r] = answer[r] /\ Told(r) /\ cmd'[r] = cmd[r]
      BY <2>2 DEF Sells, Unmoved
    <3>2. Holds(r) => Holds(r)'
      BY <3>1, SaidStillHolds
    <3> QED BY <3>1, <3>2, AsideKeeps DEF Told
  <2> QED BY <2>1, <2>2
<1> QED BY <1>1, <1>2 DEF Sells

\* A request ends with nothing written, and says what holds.
LEMMA EndTells ==
  ASSUME Served, Sells, NEW s \in Sessions, NEW a, pc[s] # "idle", End(s, a), UNCHANGED tables,
         a \in {"done", "replayed"} => Holds(s)
  PROVE  Sells'
<1>1. /\ pc' = [pc EXCEPT ![s] = "idle"] /\ held' = [held EXCEPT ![s] = {}]
      /\ read' = [read EXCEPT ![s] = NoRead] /\ done' = [done EXCEPT ![s] = {}]
      /\ number' = [number EXCEPT ![s] = 0] /\ cmd' = cmd /\ answer' = [answer EXCEPT ![s] = a]
  BY DEF End, Goto
<1>2. DOMAIN answer = Sessions
  BY DEF Sells
<1>3. /\ pc'[s] = "idle" /\ done'[s] = {} /\ read'[s] = NoRead /\ answer'[s] = a /\ DOMAIN answer' = Sessions
      /\ \A r \in Sessions \ {s} : Unmoved(r) /\ answer'[r] = answer[r]
  BY <1>1, <1>2 DEF Served, Shapes, Unmoved
<1>4. NoRead.next \in Nat /\ DOMAIN NoRead.rows = {}
  BY DEF NoRead
<1>5. SellingOK(s)'
  BY <1>3, <1>4 DEF SellingOK, HoldsLines, ReadsLines, ConsumesWhole
<1>6. Told(s)'
  BY <1>1, <1>3, SaidStillHolds DEF Told
<1> QED BY <1>3, <1>5, <1>6, OneMoves

\* A request goes on, its own reading unchanged.
Moves(s, from, to) ==
  /\ UNCHANGED <<tables, local, answer>>
  /\ pc[s] = from /\ pc'[s] = to /\ held[s] \subseteq held'[s]
  /\ \A r \in Sessions \ {s} : Unmoved(r)

LEMMA LockMoves ==
  ASSUME Served, NEW s \in Sessions, NEW from, NEW to, Lock(s, from, to), UNCHANGED local
  PROVE  Moves(s, from, to) /\ held'[s] = held[s] \cup Wants(s)
<1>1. cmd' = cmd /\ read' = read /\ done' = done /\ number' = number /\ answer' = answer
  BY DEF local, Lock
<1>2. /\ UNCHANGED <<tables, cmd>> /\ pc[s] = from /\ pc'[s] = to
      /\ held'[s] = held[s] \cup Wants(s)
      /\ \A r \in Sessions \ {s} : Unmoved(r)
  BY <1>1, LockEffect
<1> QED BY <1>1, <1>2 DEF Moves

LEMMA GotoMoves ==
  ASSUME Served, NEW s \in Sessions, NEW to, Goto(s, to), UNCHANGED <<tables, local, held, answer>>
  PROVE  Moves(s, pc[s], to)
<1>1. cmd' = cmd /\ read' = read /\ done' = done /\ number' = number /\ held' = held
      /\ pc' = [pc EXCEPT ![s] = to]
  BY DEF local, Goto
<1> QED BY <1>1 DEF Moves, Served, Shapes, Unmoved

Late == {"line", "guard", "verify", "commit"}

LEMMA MovesKeep ==
  ASSUME Served, Sells, NEW s \in Sessions, NEW from, NEW to, Moves(s, from, to), from # "idle",
         to = "guard" => from = "line" /\ <<"line", NextLine(s)>> \in held'[s] /\ Live(NextLine(s)),
         to = "commit" /\ cmd[s].kind \in {"quantity", "discount"} =>
           <<"line", cmd[s].line>> \in held'[s] /\ Live(cmd[s].line),
         cmd[s].kind = "checkout" =>
           /\ from \in Late => to \in Late \ {"line"}
           /\ to = "line" => DOMAIN read[s].rows # {}
           /\ to \in Late => from \in Late \/ number[s] # 0 \/ \E l \in DOMAIN read[s].rows : ~Live(l)
           /\ to = "commit" => Verified(s),
         cmd[s].kind = "sell" => to # "commit"
  PROVE  Sells'
<1>1. /\ pc[s] = from /\ pc'[s] = to /\ cmd'[s] = cmd[s] /\ read'[s] = read[s]
      /\ done'[s] = done[s] /\ number'[s] = number[s] /\ held[s] \subseteq held'[s]
      /\ lines' = lines /\ answer' = answer
  BY DEF Moves, local, tables
<1>2. NextLine(s)' = NextLine(s)
  BY <1>1 DEF NextLine
<1>3. \A l : Live(l)' <=> Live(l)
  BY <1>1 DEF Live
<1>4. Verified(s)' <=> Verified(s)
  BY <1>1 DEF Verified, Basket, LinesOf
<1>5. SellingOK(s) /\ Told(s)
  BY DEF Sells
<1>6. HoldsLines(s)'
  BY <1>1, <1>2, <1>3, <1>5 DEF SellingOK, HoldsLines
<1>7. ReadsLines(s)'
  BY <1>1, <1>5 DEF SellingOK, ReadsLines
<1>8. ConsumesWhole(s)'
  BY <1>1, <1>3, <1>4, <1>5 DEF SellingOK, ConsumesWhole, Late
<1>9. SellingOK(s)'
  BY <1>6, <1>7, <1>8 DEF SellingOK
<1>10. UNCHANGED tables /\ cmd'[s] = cmd[s] /\ \A r \in Sessions \ {s} : Unmoved(r) /\ answer'[r] = answer[r]
  BY <1>1 DEF Moves
<1>11. Told(s)'
  BY <1>1, <1>5, <1>10, SaidStillHolds DEF Told
<1>12. DOMAIN answer' = Sessions
  BY <1>1 DEF Sells
<1> QED BY <1>9, <1>10, <1>11, <1>12, OneMoves

\* Rows a request has read have ordinals.
LEMMA ReadOrdinals ==
  ASSUME Sells, NEW s \in Sessions
  PROVE  \A l \in DOMAIN read[s].rows : read[s].rows[l].no \in Nat
<1>1. PICK b \in Nat : \A l \in DOMAIN lines : lines[l].no \in 0..b
  BY DEF Sells, OrdinalsOK
<1>2. \A l \in DOMAIN lines : lines[l].no \in Nat
  BY <1>1
<1> QED BY <1>2 DEF Sells, SellingOK, ReadsLines

\* A stored sale whose lines are lines of the cart is a checkout's: it has
\* sold a whole basket of one till, all of it tombstoned.
LEMMA StoredBasket ==
  ASSUME Sells, NEW x \in DOMAIN sales, DOMAIN sales[x].items \subseteq DOMAIN lines
  PROVE  /\ sales[x].basket # {} /\ sales[x].basket \subseteq DOMAIN lines
         /\ \E l \in DOMAIN sales[x].items : ~Live(l) /\ \A k \in sales[x].basket : lines[k].till = lines[l].till
<1>1. sales[x].basket # {}
  BY DEF Sells, BasketsOK
<1>2. /\ \A l \in sales[x].basket : Tombstoned(l)
      /\ sales[x].items = Merged([l \in sales[x].basket |-> lines[l]])
  BY <1>1 DEF Sells, SoldIsScanned
<1>3. \A l \in sales[x].basket : l \in DOMAIN lines /\ ~Live(l)
  BY <1>2 DEF Tombstoned, Live
<1>4. PICK b \in Nat : \A l \in DOMAIN lines : lines[l].no \in 0..b
  BY DEF Sells, OrdinalsOK
<1>5. \A l \in DOMAIN lines : lines[l].no \in Nat
  BY <1>4
<1> DEFINE f == [l \in sales[x].basket |-> lines[l]]
<1>6. DOMAIN f # {} /\ \A l \in DOMAIN f : f[l].no \in Nat
  BY <1>1, <1>3, <1>5
<1>7. DOMAIN Merged(f) # {} /\ DOMAIN Merged(f) \subseteq DOMAIN f
  <2> HIDE DEF f
  <2> QED BY <1>6, MergedSome
<1>8. PICK l \in DOMAIN sales[x].items : l \in sales[x].basket
  BY <1>2, <1>7
<1>9. \A k \in sales[x].basket : lines[k].till = lines[l].till
  BY <1>8 DEF Sells, BasketsOK
<1> QED BY <1>1, <1>3, <1>8, <1>9

LEMMA StoredOnTill ==
  ASSUME Sells, NEW s \in Sessions, cmd[s].kind = "checkout", Sold(s), sales[cmd[s].sale].mode = cmd[s].mode,
         DOMAIN sales[cmd[s].sale].items \subseteq LinesOf(cmd[s].till)
  PROVE  Holds(s) /\ \E l \in DOMAIN sales[cmd[s].sale].items : ~Live(l)
<1> DEFINE x == cmd[s].sale
<1>1. x \in DOMAIN sales /\ DOMAIN sales[x].items \subseteq DOMAIN lines
  BY DEF Sold, LinesOf
<1>2. PICK l \in DOMAIN sales[x].items : ~Live(l) /\ \A k \in sales[x].basket : lines[k].till = lines[l].till
  BY <1>1, StoredBasket
<1>3. sales[x].basket # {} /\ sales[x].basket \subseteq DOMAIN lines
  BY <1>1, StoredBasket
<1>4. sales[x].basket \subseteq LinesOf(cmd[s].till)
  BY <1>2, <1>3 DEF LinesOf
<1> QED BY <1>2, <1>3, <1>4 DEF Holds

\* What a checkout finds stored as its own intent.
LEMMA StoredIntent ==
  ASSUME Served, Sells, NEW s \in Sessions, cmd[s].kind = "checkout", Sold(s), SameIntent(s),
         pc[s] \notin {"idle", "replay", "snapshot"}
  PROVE  Holds(s) /\ \E l \in DOMAIN read[s].rows : ~Live(l)
<1>1. sales[cmd[s].sale].items = Merged(read[s].rows) /\ sales[cmd[s].sale].mode = cmd[s].mode
  BY DEF SameIntent, ItemsOf
<1>2. DOMAIN read[s].rows \subseteq LinesOf(cmd[s].till)
  BY DEF Served, RequestOK, LineOK
<1>3. DOMAIN sales[cmd[s].sale].items \subseteq DOMAIN read[s].rows
  BY <1>1 DEF Merged
<1>4. Holds(s) /\ \E l \in DOMAIN sales[cmd[s].sale].items : ~Live(l)
  BY <1>1, <1>2, <1>3, StoredOnTill
<1> QED BY <1>3, <1>4

\* The requests of a till, its opening and its close.
LEMMA TillTells ==
  ASSUME Served, Sells, NEW s \in Sessions,
         LockActor(s) \/ LockTerminal(s) \/ LockId(s) \/ DecideOpen(s) \/ AnswerClosed(s) \/ LockTillToClose(s)
  PROVE  Sells'
<1>0. PathOK(s) /\ TillOK(s)
  BY DEF Served, RequestOK
<1>1. CASE LockActor(s)
  <2>1. Moves(s, "actor", "terminal") /\ cmd[s].kind = "open"
    BY <1>0, <1>1, LockMoves DEF LockActor, PathOK, Lock
  <2> QED BY <2>1, MovesKeep
<1>2. CASE LockTerminal(s)
  <2>1. Moves(s, "terminal", "id") /\ cmd[s].kind = "open"
    BY <1>0, <1>2, LockMoves DEF LockTerminal, PathOK, Lock
  <2> QED BY <2>1, MovesKeep
<1>3. CASE LockId(s)
  <2>1. Moves(s, "id", "decide") /\ cmd[s].kind = "open"
    BY <1>0, <1>3, LockMoves DEF LockId, PathOK, Lock
  <2> QED BY <2>1, MovesKeep
<1>4. CASE DecideOpen(s)
  <2>1. UNCHANGED tables /\ pc[s] = "decide" /\ cmd[s].kind = "open"
    BY <1>0, <1>4 DEF DecideOpen, PathOK
  <2>2. CASE End(s, "refused")
    BY <2>1, <2>2, EndTells
  <2>3. CASE cmd[s].till \in DOMAIN tills /\ tills[cmd[s].till].user = cmd[s].user
             /\ tills[cmd[s].till].at = cmd[s].at /\ End(s, "replayed")
    BY <2>1, <2>3, EndTells DEF Holds
  <2>4. CASE Goto(s, "commit") /\ UNCHANGED <<local, held, answer>>
    <3>1. Moves(s, "decide", "commit")
      BY <2>1, <2>4, GotoMoves
    <3> QED BY <2>1, <3>1, MovesKeep
  <2> QED BY <1>4, <2>2, <2>3, <2>4 DEF DecideOpen
<1>5. CASE AnswerClosed(s)
  <2>1. /\ UNCHANGED tables /\ pc[s] = "till" /\ cmd[s].kind = "close" /\ ~tills[cmd[s].till].open
        /\ End(s, "replayed") \/ End(s, "refused")
    BY <1>5 DEF AnswerClosed
  <2>2. Holds(s)
    BY <1>0, <2>1 DEF Holds, TillOK
  <2>3. CASE End(s, "replayed")
    BY <2>1, <2>2, <2>3, EndTells
  <2>4. CASE End(s, "refused")
    BY <2>1, <2>4, EndTells
  <2> QED BY <2>1, <2>3, <2>4
<1>6. CASE LockTillToClose(s)
  <2>1. Moves(s, "till", "commit") /\ cmd[s].kind = "close"
    BY <1>6, LockMoves DEF LockTillToClose
  <2> QED BY <2>1, MovesKeep
<1> QED BY <1>1, <1>2, <1>3, <1>4, <1>5, <1>6

LEMMA SetLineTells ==
  ASSUME Served, Sells, NEW s \in Sessions,
         SetLineOnTill(s) \/ RefuseOnTill(s) \/ SetLineOnLine(s) \/ RefuseRemoved(s)
  PROVE  Sells'
<1>0. LineOK(s)
  BY DEF Served, RequestOK
<1>1. CASE SetLineOnTill(s)
  <2>1. Moves(s, "till", "line") /\ cmd[s].kind \in SetKinds
    BY <1>1, LockMoves DEF SetLineOnTill
  <2> QED BY <2>1, MovesKeep DEF SetKinds
<1>2. CASE RefuseOnTill(s)
  BY <1>2, EndTells DEF RefuseOnTill
<1>3. CASE SetLineOnLine(s)
  <2>1. Moves(s, "line", "commit") /\ cmd[s].kind \in SetKinds /\ pc[s] = "line" /\ ~Tombstoned(cmd[s].line)
        /\ held'[s] = held[s] \cup Wants(s)
    BY <1>3, LockMoves DEF SetLineOnLine, Lock
  <2>2. cmd[s].kind # "checkout" => NextLine(s) = cmd[s].line
    BY DEF NextLine
  <2>3. <<"line", cmd[s].line>> \in held'[s]
    BY <2>1, <2>2 DEF Wants, SetKinds
  <2>4. cmd[s].kind \in {"quantity", "discount"} => Live(cmd[s].line)
    BY <1>0, <2>1 DEF LineOK, LinesOf, Tombstoned, Live
  <2> QED BY <2>1, <2>3, <2>4, MovesKeep DEF SetKinds
<1>4. CASE RefuseRemoved(s)
  BY <1>4, EndTells DEF RefuseRemoved
<1> QED BY <1>1, <1>2, <1>3, <1>4

\* The line a removal is about to consume is a row of the cart.
LEMMA NextIsRow ==
  ASSUME Served, Sells, NEW s \in Sessions, Removes(s), pc[s] \in {"line", "guard"}
  PROVE  /\ NextLine(s) \in DOMAIN lines
         /\ cmd[s].kind = "checkout" => NextLine(s) \in DOMAIN read[s].rows \ done[s]
<1>1. CASE cmd[s].kind = "checkout"
  <2>1. done[s] \subseteq DOMAIN read[s].rows /\ done[s] # DOMAIN read[s].rows
    BY <1>1 DEF Sells, SellingOK, ConsumesWhole
  <2>2. NextLine(s) \in DOMAIN read[s].rows \ done[s]
    BY <1>1, <2>1, ReadOrdinals, NextOfSnapshot
  <2> QED BY <2>2 DEF Sells, SellingOK, ReadsLines
<1>2. CASE cmd[s].kind = "remove"
  BY <1>2 DEF Served, RequestOK, LineOK, LinesOf, NextLine
<1> QED BY <1>1, <1>2 DEF Removes

LEMMA RemoveTells ==
  ASSUME Served, Sells, NEW s \in Sessions,
         FindRemoved(s) \/ LockLineToRemove(s) \/ RemoveLine(s) \/ RefuseClosed(s)
  PROVE  Sells'
<1>1. CASE FindRemoved(s)
  <2>1. cmd[s].kind = "remove" => Holds(s)
    BY DEF Holds
  <2> QED BY <1>1, <2>1, EndTells DEF FindRemoved
<1>2. CASE LockLineToRemove(s)
  <2>1. /\ Moves(s, "line", "guard") /\ Removes(s) /\ pc[s] = "line" /\ ~Tombstoned(NextLine(s))
        /\ held'[s] = held[s] \cup Wants(s)
    BY <1>2, LockMoves DEF LockLineToRemove
  <2>2. Live(NextLine(s)) /\ <<"line", NextLine(s)>> \in held'[s]
    BY <2>1, NextIsRow DEF Tombstoned, Live, Wants
  <2> QED BY <2>1, <2>2, MovesKeep DEF Late, Removes
<1>3. CASE RemoveLine(s)
  <2> DEFINE to == AfterRemoval(s)
             n == NextLine(s)
  <2>1. /\ pc[s] = "guard" /\ Lock(s, "guard", to)
        /\ done' = [done EXCEPT ![s] = done[s] \cup {n}]
        /\ cmd' = cmd /\ read' = read /\ number' = number /\ answer' = answer
    BY <1>3 DEF RemoveLine, Lock
  <2>2. /\ UNCHANGED <<tables, cmd>> /\ pc'[s] = to /\ held'[s] = held[s] \cup Wants(s)
        /\ \A r \in Sessions \ {s} : Unmoved(r)
    <3> HIDE DEF to
    <3>1. \A r \in Sessions \ {s} : read'[r] = read[r] /\ done'[r] = done[r] /\ number'[r] = number[r]
      BY <2>1 DEF Served, Shapes
    <3> QED BY <2>1, <3>1, LockEffect
  <2>3. done'[s] = done[s] \cup {n} /\ lines' = lines /\ DOMAIN answer' = Sessions
    BY <2>1, <2>2 DEF Served, Shapes, tables, Sells
  <2>4. SellingOK(s) /\ Told(s) /\ Removes(s)
    BY <2>1 DEF Sells, Served, RequestOK, PathOK
  <2>5. <<"line", n>> \in held[s] /\ Live(n)
    BY <2>1, <2>4 DEF SellingOK, HoldsLines
  <2>6. \A l : Live(l)' <=> Live(l)
    BY <2>3 DEF Live
  <2>7. /\ cmd[s].kind = "remove" => to = "commit"
        /\ cmd[s].kind = "checkout" => to = IF DOMAIN read[s].rows = done[s] \cup {n} THEN "verify" ELSE "line"
    BY DEF AfterRemoval
  <2>8. cmd[s].kind \in {"remove", "checkout"}
    BY <2>4 DEF Removes
  <2>9. cmd[s].kind = "checkout" => n \in DOMAIN read[s].rows \ done[s]
    BY <2>1, <2>4, NextIsRow
  <2> HIDE DEF to, n
  <2>10. HoldsLines(s)'
    BY <2>1, <2>2, <2>3, <2>4, <2>5, <2>6, <2>7, <2>8 DEF SellingOK, HoldsLines
  <2>11. ReadsLines(s)'
    BY <2>1, <2>2, <2>3, <2>4, <2>8 DEF SellingOK, ReadsLines
  <2>12. ConsumesWhole(s)'
    BY <2>1, <2>2, <2>3, <2>4, <2>6, <2>7, <2>8, <2>9 DEF SellingOK, ConsumesWhole
  <2>13. Told(s)'
    BY <2>1, <2>2, <2>4, SaidStillHolds DEF Told
  <2> QED BY <2>1, <2>2, <2>3, <2>10, <2>11, <2>12, <2>13, OneMoves DEF SellingOK
<1>4. CASE RefuseClosed(s)
  BY <1>4, EndTells DEF RefuseClosed
<1> QED BY <1>1, <1>2, <1>3, <1>4

LEMMA ReadingTells ==
  ASSUME Served, Sells, NEW s \in Sessions, ReplayFirst(s) \/ ReadSnapshot(s) \/ Plan(s) \/ Verify(s)
  PROVE  Sells'
<1>0. PathOK(s) /\ SellingOK(s) /\ Told(s)
  BY DEF Served, RequestOK, Sells
<1>1. CASE ReplayFirst(s)
  <2>1. UNCHANGED tables /\ pc[s] = "replay" /\ cmd[s].kind = "checkout"
    BY <1>0, <1>1 DEF ReplayFirst, PathOK
  <2>2. CASE End(s, "refused")
    BY <2>1, <2>2, EndTells
  <2>3. CASE Sold(s) /\ ProvenReplay(s) /\ End(s, "replayed")
    <3>1. Holds(s)
      BY <2>1, <2>3, StoredOnTill DEF ProvenReplay
    <3> QED BY <2>1, <2>3, <3>1, EndTells
  <2>4. CASE Goto(s, "snapshot") /\ UNCHANGED <<local, held, answer>>
    <3>1. Moves(s, "replay", "snapshot")
      BY <2>1, <2>4, GotoMoves
    <3> QED BY <2>1, <3>1, MovesKeep DEF Late
  <2> QED BY <1>1, <2>2, <2>3, <2>4 DEF ReplayFirst
<1>2. CASE ReadSnapshot(s)
  <2>1. UNCHANGED tables /\ pc[s] = "snapshot" /\ cmd[s].kind = "checkout"
    BY <1>0, <1>2 DEF ReadSnapshot, PathOK
  <2>2. CASE End(s, "refused")
    BY <2>1, <2>2, EndTells
  <2>3. CASE /\ read' = [read EXCEPT ![s].rows = [l \in Basket(cmd[s].till) |-> lines[l]]]
             /\ Goto(s, "plan") /\ UNCHANGED <<cmd, done, number, held, answer>>
    <3>1. read'[s] = [read[s] EXCEPT !.rows = [l \in Basket(cmd[s].till) |-> lines[l]]] /\ IsRead(read[s])
      BY <2>3 DEF Served, Shapes
    <3>2. read'[s].next = read[s].next /\ read'[s].rows = [l \in Basket(cmd[s].till) |-> lines[l]]
      BY <3>1 DEF IsRead
    <3>3. /\ pc'[s] = "plan" /\ cmd' = cmd /\ done' = done /\ number' = number /\ held' = held
          /\ answer' = answer /\ lines' = lines
          /\ \A r \in Sessions \ {s} : Unmoved(r)
      BY <2>1, <2>3 DEF Goto, Served, Shapes, Unmoved, tables
    <3>4. done[s] = {} /\ read[s].next \in Nat
      BY <1>0, <2>1 DEF SellingOK, ConsumesWhole, ReadsLines
    <3>5. HoldsLines(s)' /\ ConsumesWhole(s)'
      BY <2>1, <3>3, <3>4 DEF HoldsLines, ConsumesWhole
    <3>6. ReadsLines(s)'
      BY <2>1, <3>2, <3>3, <3>4 DEF ReadsLines, Basket, LinesOf
    <3>7. Told(s)'
      BY <1>0, <2>1, <3>3, SaidStillHolds DEF Told
    <3>8. DOMAIN answer' = Sessions
      BY <3>3 DEF Sells
    <3> QED BY <2>1, <3>3, <3>5, <3>6, <3>7, <3>8, OneMoves DEF SellingOK
  <2> QED BY <1>2, <2>2, <2>3 DEF ReadSnapshot
<1>3. CASE Plan(s)
  <2>1. UNCHANGED tables /\ pc[s] = "plan" /\ cmd[s].kind \in {"checkout", "sell"}
    BY <1>0, <1>3 DEF Plan, PathOK
  <2>2. CASE End(s, "refused")
    BY <2>1, <2>2, EndTells
  <2>3. CASE Sold(s) /\ SameIntent(s) /\ End(s, "replayed")
    <3>1. cmd[s].kind = "checkout" => Holds(s)
      BY <2>1, <2>3, StoredIntent
    <3>2. cmd[s].kind = "sell" => Holds(s)
      BY <2>3 DEF Holds
    <3> QED BY <2>1, <2>3, <3>1, <3>2, EndTells
  <2>4. CASE Goto(s, IF cmd[s].kind = "checkout" THEN "checkout" ELSE "sale") /\ UNCHANGED <<local, held, answer>>
    <3> DEFINE to == IF cmd[s].kind = "checkout" THEN "checkout" ELSE "sale"
    <3>1. Moves(s, "plan", to)
      BY <2>1, <2>4, GotoMoves
    <3>2. to \in {"checkout", "sale"}
      OBVIOUS
    <3> HIDE DEF to
    <3> QED BY <2>1, <3>1, <3>2, MovesKeep DEF Late
  <2> QED BY <1>3, <2>2, <2>3, <2>4 DEF Plan
<1>4. CASE Verify(s)
  <2>1. UNCHANGED tables /\ pc[s] = "verify" /\ cmd[s].kind = "checkout"
    BY <1>0, <1>4 DEF Verify, PathOK
  <2>2. CASE End(s, "refused")
    BY <2>1, <2>2, EndTells
  <2>3. CASE Verified(s) /\ Goto(s, "commit") /\ UNCHANGED <<local, held, answer>>
    <3>1. Moves(s, "verify", "commit")
      BY <2>1, <2>3, GotoMoves
    <3> QED BY <2>1, <2>3, <3>1, MovesKeep DEF Late
  <2> QED BY <1>4, <2>2, <2>3 DEF Verify
<1> QED BY <1>1, <1>2, <1>3, <1>4

LEMMA SaleTells ==
  ASSUME Served, Sells, NEW s \in Sessions,
         LockCheckout(s) \/ CommitStored(s) \/ InsertSale(s) \/ RefuseShort(s) \/ MoveStock(s) \/ TakeNumber(s)
  PROVE  Sells'
<1>0. PathOK(s) /\ LineOK(s) /\ SellingOK(s) /\ Told(s)
  BY DEF Served, RequestOK, Sells
<1>1. CASE LockCheckout(s)
  <2>1. Moves(s, "checkout", "sale") /\ pc[s] = "checkout"
    BY <1>1, LockMoves DEF LockCheckout, Lock
  <2> QED BY <2>1, MovesKeep DEF Late
<1>2. CASE CommitStored(s)
  <2>1. pc[s] = "sale" /\ Sold(s) /\ cmd[s].kind \in {"checkout", "sell"}
    BY <1>0, <1>2 DEF CommitStored, PathOK
  <2>2. CASE End(s, "refused") /\ UNCHANGED tables
    BY <2>1, <2>2, EndTells
  <2>3. CASE SameIntent(s) /\ cmd[s].kind = "sell" /\ End(s, "replayed") /\ UNCHANGED tables
    BY <2>1, <2>3, EndTells DEF Holds
  <2>4. CASE SameIntent(s) /\ cmd[s].kind = "checkout" /\ Lock(s, "sale", "line") /\ UNCHANGED local
    <3>1. Moves(s, "sale", "line")
      BY <2>4, LockMoves
    <3>2. \E l \in DOMAIN read[s].rows : ~Live(l)
      BY <2>1, <2>4, StoredIntent
    <3> QED BY <2>4, <3>1, <3>2, MovesKeep DEF Late
  <2> QED BY <1>2, <2>2, <2>3, <2>4 DEF CommitStored
<1>3. CASE InsertSale(s)
  <2>1. Moves(s, "sale", "stock")
    BY <1>3, LockMoves DEF InsertSale
  <2> QED BY <2>1, MovesKeep DEF Late
<1>4. CASE RefuseShort(s)
  BY <1>4, EndTells DEF RefuseShort
<1>5. CASE MoveStock(s)
  <2>1. Moves(s, "stock", "series")
    BY <1>5, LockMoves DEF MoveStock
  <2> QED BY <2>1, MovesKeep DEF Late
<1>6. CASE TakeNumber(s)
  <2> DEFINE to == AfterSale(s)
             n == 1 + Max({0} \cup {sales[x].number : x \in DOMAIN sales})
  <2>1. /\ Lock(s, "series", to) /\ number' = [number EXCEPT ![s] = n] /\ cmd' = cmd /\ read' = read
        /\ done' = done /\ answer' = answer
    BY <1>6 DEF TakeNumber, Lock
  <2>2. n # 0
    <3>1. Cardinality(DOMAIN sales) \in Nat
      BY FS_CardinalityType DEF Served, NumbersOK
    <3>2. {sales[x].number : x \in DOMAIN sales} = 1..Cardinality(DOMAIN sales)
      BY DEF Served, NumbersOK, NumbersGapless
    <3> QED BY <3>1, <3>2, MaxOfRun
  <2>3. pc[s] = "series" /\ cmd[s].kind \in {"checkout", "sell"}
    BY <1>0, <2>1 DEF Lock, PathOK
  <2>4. to = IF cmd[s].kind = "checkout" THEN "line" ELSE "commit"
    BY DEF AfterSale
  <2> HIDE DEF to, n
  <2>5. /\ UNCHANGED <<tables, cmd>> /\ pc'[s] = to /\ held'[s] = held[s] \cup Wants(s)
        /\ \A r \in Sessions \ {s} : Unmoved(r)
    <3>1. \A r \in Sessions \ {s} : read'[r] = read[r] /\ done'[r] = done[r] /\ number'[r] = number[r]
      BY <2>1 DEF Served, Shapes
    <3> QED BY <2>1, <3>1, LockEffect
  <2>6. number'[s] = n /\ lines' = lines /\ DOMAIN answer' = Sessions
    BY <2>1, <2>5 DEF Served, Shapes, tables, Sells
  <2>7. \A l : Live(l)' <=> Live(l)
    BY <2>6 DEF Live
  <2>8. HoldsLines(s)'
    BY <1>0, <2>1, <2>3, <2>4, <2>5, <2>7 DEF SellingOK, HoldsLines
  <2>9. ReadsLines(s)'
    BY <1>0, <2>1, <2>3, <2>4, <2>5, <2>6 DEF SellingOK, ReadsLines
  <2>10. ConsumesWhole(s)'
    <3>1. cmd[s].kind = "checkout" => done[s] = {} /\ DOMAIN read[s].rows # {}
      BY <1>0, <2>3 DEF SellingOK, ConsumesWhole, LineOK
    <3> QED BY <2>1, <2>2, <2>3, <2>4, <2>5, <2>6, <3>1 DEF ConsumesWhole
  <2>11. Told(s)'
    BY <1>0, <2>1, <2>5, SaidStillHolds DEF Told
  <2> QED BY <2>1, <2>5, <2>6, <2>8, <2>9, <2>10, <2>11, OneMoves DEF SellingOK
<1> QED BY <1>1, <1>2, <1>3, <1>4, <1>5, <1>6

LEMMA FailingTells ==
  ASSUME Served, Sells, NEW s \in Sessions, Fail(s) \/ AbortVictim(s)
  PROVE  Sells'
<1>1. CASE Fail(s)
  BY <1>1, EndTells DEF Fail
<1>2. CASE AbortVictim(s)
  <2>1. PICK S \in SUBSET Sessions : s \in S /\ Deadlocked(S)
    BY <1>2 DEF AbortVictim
  <2>2. Wants(s) # {}
    BY <2>1 DEF Deadlocked, Blockers
  <2>3. pc[s] # "idle"
    BY <2>2 DEF Wants
  <2> QED BY <1>2, <2>3, EndTells DEF AbortVictim
<1> QED BY <1>1, <1>2

\* The next ordinal of a basket is a number: there is a greatest one.
LEMMA NextNoIsNat ==
  ASSUME Sells, NEW t PROVE NextNo(t) \in Nat
<1>1. PICK b \in Nat : \A l \in DOMAIN lines : lines[l].no \in 0..b
  BY DEF Sells, OrdinalsOK
<1> DEFINE S == {0} \cup {lines[l].no : l \in LinesOf(t)}
<1>2. S \subseteq 0..b /\ 0 \in S
  BY <1>1 DEF LinesOf
<1>3. Max(S) \in Nat
  <2> HIDE DEF S
  <2> QED BY <1>2, MaxIsNat
<1> QED BY <1>3 DEF NextNo

LEMMA BeginTells ==
  ASSUME Served, Sells, NEW s \in Sessions, NEW c \in Commands, Begin(s, c)
  PROVE  Sells'
<1>1. /\ pc[s] = "idle" /\ Passes(c) /\ UNCHANGED tables
      /\ cmd' = [cmd EXCEPT ![s] = c] /\ read' = [read EXCEPT ![s] = GateRead(c)]
      /\ pc' = [pc EXCEPT ![s] = FirstStep(c)] /\ answer' = [answer EXCEPT ![s] = "none"]
      /\ done' = done /\ number' = number /\ held' = held
  BY DEF Begin, Goto
<1>2. /\ cmd'[s] = c /\ read'[s] = GateRead(c) /\ pc'[s] = FirstStep(c) /\ done'[s] = {} /\ answer'[s] = "none"
      /\ \A r \in Sessions \ {s} : Unmoved(r) /\ answer'[r] = answer[r]
      /\ DOMAIN answer' = Sessions /\ lines' = lines
  BY <1>1 DEF Served, Shapes, Unmoved, RequestOK, PathOK, tables, Sells
<1>3. c.kind \in Kinds /\ pc'[s] \in {"actor", "till", "line", "replay", "plan"}
      /\ (c.kind = "checkout" => pc'[s] = "replay")
  BY <1>2, CommandAssumption DEF FirstStep, SetKinds
<1>4. HoldsLines(s)' /\ ConsumesWhole(s)'
  BY <1>2, <1>3 DEF HoldsLines, ConsumesWhole
<1>5. GateRead(c).next \in Nat
  BY NextNoIsNat DEF GateRead
<1>6. /\ DOMAIN GateRead(c).rows \subseteq DOMAIN lines
      /\ \A l \in DOMAIN GateRead(c).rows : GateRead(c).rows[l] = lines[l]
      /\ c.kind \in {"quantity", "discount"} => c.line \in DOMAIN GateRead(c).rows
  <2>1. c.kind \in {"quantity", "discount"} => c.line \in DOMAIN lines
    BY <1>1 DEF Passes, Basket, LinesOf
  <2> QED BY <2>1 DEF GateRead
<1>7. ReadsLines(s)'
  BY <1>2, <1>5, <1>6 DEF ReadsLines
<1>8. Told(s)'
  BY <1>2 DEF Told
<1> QED BY <1>1, <1>2, <1>4, <1>7, <1>8, OneMoves DEF SellingOK

LEMMA CommitSells ==
  ASSUME Served, Sells, NEW r \in Sessions, Commit(r)
  PROVE  Sells'
<1>1. /\ pc' = [pc EXCEPT ![r] = "idle"] /\ read' = [read EXCEPT ![r] = NoRead]
      /\ done' = [done EXCEPT ![r] = {}] /\ answer' = [answer EXCEPT ![r] = "done"] /\ cmd' = cmd
  BY DEF Commit, End, Goto
<1>2. /\ pc'[r] = "idle" /\ done'[r] = {} /\ read'[r] = NoRead /\ DOMAIN answer' = Sessions
      /\ \A s \in Sessions \ {r} : answer'[s] = answer[s]
  BY <1>1 DEF Served, Shapes, Sells
<1>3. NoRead.next \in Nat /\ DOMAIN NoRead.rows = {}
  BY DEF NoRead
<1>4. SellingOK(r)'
  BY <1>2, <1>3 DEF SellingOK, HoldsLines, ReadsLines, ConsumesWhole
<1>5. ASSUME NEW s \in Sessions PROVE SellingOK(s)' /\ Told(s)'
  <2>1. CASE s = r
    BY <1>4, <2>1, CommitTold DEF Told
  <2>2. CASE s # r
    <3>1. Told(s) /\ answer'[s] = answer[s]
      BY <1>2, <2>2 DEF Sells
    <3> QED BY <2>2, <3>1, CommitOthers, CommitStillHolds DEF Told
  <2> QED BY <2>1, <2>2
<1> QED BY <1>2, <1>5, CommitSold, CommitBound DEF Sells

LEMMA InitSells == Init => Sells
<1> SUFFICES ASSUME Init PROVE Sells
  OBVIOUS
<1>1. DOMAIN <<>> = {}
  OBVIOUS
<1>2. DOMAIN lines = {} /\ DOMAIN sales = {} /\ DOMAIN answer = Sessions
  BY <1>1 DEF Init
<1>3. SoldIsScanned /\ BasketsOK
  BY <1>2 DEF SoldIsScanned, BasketsOK
<1>4. OrdinalsOK
  <2>1. \A l \in DOMAIN lines : lines[l].no \in 0..0
    BY <1>2
  <2> QED BY <2>1 DEF OrdinalsOK
<1>5. ASSUME NEW s \in Sessions PROVE SellingOK(s) /\ Told(s)
  <2>1. pc[s] = "idle" /\ done[s] = {} /\ read[s] = NoRead /\ answer[s] = "none"
    BY DEF Init
  <2>2. NoRead.next \in Nat /\ DOMAIN NoRead.rows = {}
    BY <1>1 DEF NoRead
  <2> QED BY <2>1, <2>2 DEF SellingOK, HoldsLines, ReadsLines, ConsumesWhole, Told
<1> QED BY <1>2, <1>3, <1>4, <1>5 DEF Sells

LEMMA SellsStep ==
  ASSUME Served, Sells, [Next]_vars
  PROVE  Sells'
<1>1. CASE UNCHANGED vars
  <2>1. /\ UNCHANGED tables /\ answer' = answer /\ cmd' = cmd
        /\ \A s \in Sessions : Unmoved(s)
    BY <1>1 DEF vars, tables, Unmoved
  <2>2. ASSUME NEW s \in Sessions PROVE SellingOK(s)' /\ Told(s)'
    BY <2>1, AsideKeeps, SaidStillHolds DEF Sells, Told
  <2> QED BY <2>1, <2>2 DEF Sells, SoldIsScanned, BasketsOK, OrdinalsOK, tables, Tombstoned
<1>2. ASSUME NEW s \in Sessions, Step(s) PROVE Sells'
  BY <1>2, ReadingTells, TillTells, SetLineTells, RemoveTells, SaleTells, CommitSells, FailingTells DEF Step
<1> QED BY <1>1, <1>2, BeginTells, FailingTells DEF Next

-----------------------------------------------------------------------------
\* Theorems about what is sold.

\* With the locks, the lines and the sales of a branch are kept inductively.
THEOREM SalesKept == Spec => [](Served /\ Sells)
<1>1. Served /\ Sells /\ [Next]_vars => (Served /\ Sells)'
  BY ServedStep, SellsStep
<1> QED BY InitServed, InitSells, <1>1, PTL DEF Spec

\* A scanned line is sold once, in the quantity and with the discount it has
\* (pos-checkout.service.ts:110-140).
THEOREM SoldAsScanned == Spec => []SoldIsScanned
<1>1. Sells => SoldIsScanned
  BY DEF Sells
<1> QED BY SalesKept, <1>1, PTL

\* What a till was told stays true (0078:588, 0079:929).
THEOREM TillsToldTrue == Spec => []AnswersAreTrue
<1>1. ASSUME Served, Sells PROVE AnswersAreTrue
  <2> SUFFICES ASSUME NEW s \in Sessions, answer[s] \in {"done", "replayed"}
               PROVE  CASE cmd[s].kind = "open"  -> cmd[s].till \in DOMAIN tills /\ tills[cmd[s].till].user = cmd[s].user
                                      /\ tills[cmd[s].till].at = cmd[s].at
                 [] cmd[s].kind = "close" -> ~tills[cmd[s].till].open
                 [] cmd[s].kind = "sell"  ->
             Sold(s) /\ sales[cmd[s].sale].mode = cmd[s].mode /\ sales[cmd[s].sale].items = ItemsOf(s)
                 [] cmd[s].kind = "checkout" ->
             /\ Sold(s) /\ sales[cmd[s].sale].mode = cmd[s].mode
             /\ sales[cmd[s].sale].basket # {} /\ sales[cmd[s].sale].basket \subseteq LinesOf(cmd[s].till)
                 [] OTHER -> TRUE
    BY DEF AnswersAreTrue
  <2>1. Holds(s) /\ cmd[s].kind \in Kinds
    BY <1>1, KindOf DEF Sells, Told
  <2> QED BY <2>1 DEF Holds, SameIntent
<1> QED BY SalesKept, <1>1, PTL

\* A checkout that commits sells the whole basket: what it consumed is one
\* sale, and nothing of the session is left live
\* (pos-checkout.service.ts:365-399).
THEOREM WholeBasketSold == Spec => CheckoutIsWhole
<1> DEFINE Whole == \A s \in Sessions :
       pc[s] = "commit" /\ pc'[s] = "idle" /\ cmd[s].kind = "checkout" /\ lines' # lines =>
         /\ Sold(s)' /\ ~Sold(s)
         /\ sales'[cmd[s].sale].basket = Basket(cmd[s].till)
         /\ Basket(cmd[s].till)' = {}
<1>1. ASSUME Served, Sells, [Next]_vars PROVE Whole
  <2> SUFFICES ASSUME NEW s \in Sessions, pc[s] = "commit", pc'[s] = "idle", cmd[s].kind = "checkout", lines' # lines
               PROVE  /\ Sold(s)' /\ ~Sold(s)
                      /\ sales'[cmd[s].sale].basket = Basket(cmd[s].till)
                      /\ Basket(cmd[s].till)' = {}
    OBVIOUS
  <2>1. PICK r \in Sessions : Commit(r)
    BY <1>1, OnlyCommitsWrite DEF tables
  <2>2. r = s
    <3>1. r # s => pc'[s] = pc[s]
      BY <1>1, <2>1 DEF Commit, End, Goto, Served, Shapes
    <3> QED BY <3>1
  <2>3. HoldsLines(s) /\ ReadsLines(s) /\ ConsumesWhole(s) /\ cmd' = cmd
    BY <1>1, <2>1 DEF Sells, SellingOK, Commit, End
  <2>4. number[s] # 0 /\ Basket(cmd[s].till) = DOMAIN read[s].rows /\ Basket(cmd[s].till)' = {}
    BY <1>1, <2>1, <2>2, <2>3, CheckoutConsumes
  <2>5. ~Sold(s) /\ cmd[s].sale \in DOMAIN sales' /\ sales'[cmd[s].sale].basket = DOMAIN read[s].rows
    <3>1. Commit(s) /\ Served
      BY <1>1, <2>1, <2>2
    <3>2. ~Sold(s) /\ cmd[s].sale \in DOMAIN sales' /\ sales'[cmd[s].sale] = NewSale(s)
      BY <2>4, <3>1, CommitRecords
    <3> QED BY <3>2 DEF NewSale
  <2> QED BY <2>3, <2>4, <2>5 DEF Sold
<1> QED BY SalesKept, <1>1, PTL DEF Spec, CheckoutIsWhole

-----------------------------------------------------------------------------
(* Stock.  A sale that is to commit has locked the stock of what it sells, *)
(* and there is enough of it: no other sale takes of it meanwhile.         *)

\* Rows whose quantities can be added up.
Counted(rows) == IsFiniteSet(DOMAIN rows) /\ \A l \in DOMAIN rows : rows[l].qty \in Nat

\* What a request keeps can be added up, and no two of the lines a checkout
\* read share an ordinal, so that it sells each item in one line.
RowsOK(s) ==
  /\ Counted(read[s].rows)
  /\ cmd[s].kind = "checkout" =>
       \A k, l \in DOMAIN read[s].rows : k # l => read[s].rows[k].no # read[s].rows[l].no

Reserves(s) ==
  /\ pc[s] = "series" \/ number[s] # 0 =>
       \A l \in DOMAIN ItemsOf(s) :
         /\ <<"stock", ItemsOf(s)[l].item>> \in held[s]
         /\ \A i \in Items : ItemsOf(s)[l].item = i => ItemsOf(s)[l].qty <= stock[i]
  /\ pc[s] \in {"replay", "snapshot"} => number[s] = 0

Stocked ==
  /\ stock \in [Items -> Nat] /\ StockIsSold
  /\ Counted(lines) /\ \A x \in DOMAIN sales : Counted(sales[x].items)
  /\ \A s \in Sessions : RowsOK(s) /\ Reserves(s)

\* The merged lines can be added up.
LEMMA MergedCounted ==
  ASSUME NEW rows, Counted(rows)
  PROVE  Counted(Merged(rows))
<1>1. DOMAIN Merged(rows) \subseteq DOMAIN rows
  BY DEF Merged
<1>2. IsFiniteSet(DOMAIN Merged(rows))
  BY <1>1, FS_Subset DEF Counted
<1>3. ASSUME NEW l \in DOMAIN Merged(rows) PROVE Merged(rows)[l].qty \in Nat
  <2> DEFINE f == [k \in Same(rows, l) |-> rows[k].qty]
  <2>1. IsFiniteSet(Same(rows, l))
    BY FS_Subset DEF Counted, Same
  <2>2. f \in [Same(rows, l) -> Nat]
    BY DEF Counted, Same
  <2>3. Merged(rows)[l].qty = Total(f)
    BY DEF Merged
  <2> HIDE DEF f
  <2> QED  BY <2>1, <2>2, <2>3, TotalOfNat
<1> QED  BY <1>2, <1>3 DEF Counted

\* What a request is to sell: quantities that add up, each item in one line.
LEMMA ItemsCounted ==
  ASSUME Served, Sells, NEW s \in Sessions, RowsOK(s)
  PROVE  /\ Counted(ItemsOf(s))
         /\ \A k, l \in DOMAIN ItemsOf(s) : ItemsOf(s)[k].item = ItemsOf(s)[l].item => k = l
<1>1. CASE cmd[s].kind = "checkout"
  <2> DEFINE rows == read[s].rows
  <2>1. ItemsOf(s) = Merged(rows)
    BY <1>1 DEF ItemsOf
  <2>2. Counted(Merged(rows))
    BY MergedCounted DEF RowsOK
  <2>3. \A l \in DOMAIN rows : rows[l].no \in Nat
    BY ReadOrdinals
  <2>4. \A k, l \in DOMAIN rows : k # l => rows[k].no # rows[l].no
    BY <1>1 DEF RowsOK
  <2> HIDE DEF rows
  <2>5. ASSUME NEW k \in DOMAIN Merged(rows), NEW l \in DOMAIN Merged(rows),
               Merged(rows)[k].item = Merged(rows)[l].item
        PROVE  k = l
    <3>1. k \in DOMAIN rows /\ l \in DOMAIN rows /\ rows[k].item = rows[l].item
      BY <2>5 DEF Merged
    <3>2. k \in Same(rows, l) /\ l \in Same(rows, k)
      BY <3>1 DEF Same
    <3>3. rows[k].no <= rows[l].no /\ rows[l].no <= rows[k].no
      BY <3>2 DEF Merged
    <3> QED  BY <2>3, <2>4, <3>1, <3>3
  <2> QED  BY <2>1, <2>2, <2>5
<1>2. CASE cmd[s].kind # "checkout"
  <2>1. ItemsOf(s) = [l \in {Own} |-> [item |-> cmd[s].item, qty |-> cmd[s].qty, disc |-> 0]]
    BY <1>2 DEF ItemsOf
  <2>2. cmd[s].qty \in Nat
    BY CommandAssumption DEF Served, Shapes
  <2>3. IsFiniteSet({Own})
    BY FS_Singleton
  <2> QED  BY <2>1, <2>2, <2>3 DEF Counted
<1> QED  BY <1>1, <1>2

\* What a sale takes of an item: what its one line of the item says, if any.
\* Of an item, rows that name each item once hold nothing or one row's quantity.
OneEach(items) == \A k, l \in DOMAIN items : items[k].item = items[l].item => k = l

TakesRow(items, i, t) ==
  t \in Nat /\ (t = 0 \/ \E l \in DOMAIN items : items[l].item = i /\ t = items[l].qty)

OfItem(items, i) == Total([l \in {l \in DOMAIN items : items[l].item = i} |-> items[l].qty])

LEMMA TakesOne ==
  ASSUME NEW items, Counted(items), OneEach(items), NEW i
  PROVE  TakesRow(items, i, OfItem(items, i))
<1> DEFINE S == {l \in DOMAIN items : items[l].item = i}
           f == [l \in S |-> items[l].qty]
<1>0. OfItem(items, i) = Total(f)
  BY Zenon DEF OfItem
<1>1. CASE S = {}
  <2>1. Total(f) = 0
    BY <1>1, TotalOfNone
  <2> QED  BY <1>0, <2>1 DEF TakesRow
<1>2. CASE S # {}
  <2>1. PICK l \in S : S = {l}
    BY <1>2 DEF OneEach
  <2>2. f \in [{l} -> Int] /\ f[l] = items[l].qty /\ items[l].qty \in Nat
    BY <2>1 DEF Counted
  <2>3. Total(f) = items[l].qty
    <3> HIDE DEF f
    <3> QED  BY <2>2, TotalOfOne
  <2>4. l \in DOMAIN items /\ items[l].item = i
    BY <2>1
  <2> HIDE DEF f, S
  <2> QED  BY ONLY <1>0, <2>2, <2>3, <2>4 DEF TakesRow
<1> QED  BY <1>1, <1>2

\* What a step that writes no table does to a request: it goes on with what it
\* read, it ends, it begins, or it reads its basket.
GoesOn(s) ==
  /\ cmd'[s] = cmd[s] /\ read'[s] = read[s] /\ held[s] \subseteq held'[s]
  /\ pc'[s] = "series" => pc[s] = "series" \/ MoveStock(s)
  /\ number'[s] # 0 => number[s] # 0 \/ pc[s] = "series"
  /\ pc'[s] \in {"replay", "snapshot"} => number'[s] = number[s] /\ pc[s] \in {"replay", "snapshot"}

Stops(s) == read'[s] = NoRead /\ number'[s] = 0 /\ pc'[s] = "idle"

Reads(s) ==
  /\ pc[s] = "snapshot" /\ pc'[s] = "plan" /\ number'[s] = number[s] /\ cmd'[s] = cmd[s]
  /\ read'[s].rows = [l \in Basket(cmd[s].till) |-> lines[l]]

Begins(s) ==
  /\ pc[s] = "idle" /\ pc'[s] # "series" /\ number'[s] = number[s]
  /\ \E c \in Commands :
       cmd'[s] = c /\ read'[s] = GateRead(c) /\ (c.kind \in {"quantity", "discount"} => c.line \in DOMAIN lines)

Acts(s) == GoesOn(s) \/ Stops(s) \/ Reads(s) \/ Begins(s)

LEMMA EndStops ==
  ASSUME Served, NEW s \in Sessions, NEW a, End(s, a)
  PROVE  Stops(s) /\ \A r \in Sessions \ {s} : GoesOn(r)
BY DEF End, Goto, Served, Shapes, Stops, GoesOn

LEMMA LockGoesOn ==
  ASSUME Served, NEW s \in Sessions, NEW from, NEW to, Lock(s, from, to), UNCHANGED <<cmd, read>>,
         \A r \in Sessions \ {s} : number'[r] = number[r],
         number'[s] # number[s] => from = "series",
         to = "series" => MoveStock(s),
         to \in {"replay", "snapshot"} => number' = number /\ from \in {"replay", "snapshot"}
  PROVE  \A r \in Sessions : GoesOn(r)
BY DEF Lock, Goto, Served, Shapes, GoesOn

LEMMA GotoGoesOn ==
  ASSUME Served, NEW s \in Sessions, NEW to, Goto(s, to), UNCHANGED <<local, held>>,
         to # "series", to \in {"replay", "snapshot"} => pc[s] \in {"replay", "snapshot"}
  PROVE  \A r \in Sessions : GoesOn(r)
BY DEF Goto, Served, Shapes, GoesOn, local

LEMMA OneActs ==
  ASSUME Served, NEW s \in Sessions, Step(s) \/ Fail(s), ~Commit(s)
  PROVE  \A r \in Sessions : Acts(r)
<1> USE DEF Acts
<1>1. ASSUME NEW a, End(s, a) PROVE \A r \in Sessions : Acts(r)
  BY <1>1, EndStops
<1>2. ASSUME NEW to, Goto(s, to), UNCHANGED <<local, held>>,
             to # "series", to \in {"replay", "snapshot"} => pc[s] \in {"replay", "snapshot"}
      PROVE  \A r \in Sessions : Acts(r)
  BY <1>2, GotoGoesOn
<1>3. ASSUME NEW from, NEW to, Lock(s, from, to), UNCHANGED local, to \notin {"series", "replay", "snapshot"}
      PROVE  \A r \in Sessions : Acts(r)
  <2>1. UNCHANGED <<cmd, read>> /\ number' = number
    BY <1>3 DEF local
  <2> QED  BY <1>3, <2>1, LockGoesOn
<1>4. CASE ReplayFirst(s)
  BY <1>1, <1>2, <1>4 DEF ReplayFirst
<1>5. CASE ReadSnapshot(s)
  <2>1. CASE Basket(cmd[s].till) = {}
    BY <1>1, <1>5, <2>1 DEF ReadSnapshot
  <2>2. CASE Basket(cmd[s].till) # {}
    <3>1. IsRead(read[s]) /\ DOMAIN read = Sessions /\ DOMAIN pc = Sessions
      BY DEF Served, Shapes
    <3>2. /\ read' = [read EXCEPT ![s].rows = [l \in Basket(cmd[s].till) |-> lines[l]]]
          /\ Goto(s, "plan") /\ UNCHANGED <<cmd, done, number, held>> /\ pc[s] = "snapshot"
      BY <1>5, <2>2 DEF ReadSnapshot
    <3>3. read'[s].rows = [l \in Basket(cmd[s].till) |-> lines[l]]
      BY <3>1, <3>2 DEF IsRead
    <3>4. Reads(s)
      BY <3>1, <3>2, <3>3 DEF Reads, Goto
    <3>5. \A r \in Sessions \ {s} : GoesOn(r)
      BY <3>1, <3>2 DEF GoesOn, Goto
    <3> QED  BY <3>4, <3>5
  <2> QED  BY <2>1, <2>2
<1>6. CASE Plan(s)
  BY <1>1, <1>2, <1>6 DEF Plan
<1>7. CASE LockActor(s) \/ LockTerminal(s) \/ LockId(s) \/ LockTillToClose(s)
  BY <1>3, <1>7 DEF LockActor, LockTerminal, LockId, LockTillToClose
<1>8. CASE DecideOpen(s) \/ AnswerClosed(s)
  BY <1>1, <1>2, <1>8 DEF DecideOpen, AnswerClosed
<1>9. CASE SetLineOnTill(s) \/ RefuseOnTill(s) \/ SetLineOnLine(s) \/ RefuseRemoved(s)
  BY <1>1, <1>3, <1>9 DEF SetLineOnTill, RefuseOnTill, SetLineOnLine, RefuseRemoved
<1>10. CASE FindRemoved(s) \/ LockLineToRemove(s) \/ RefuseClosed(s)
  BY <1>1, <1>3, <1>10 DEF FindRemoved, LockLineToRemove, RefuseClosed
<1>11. CASE RemoveLine(s)
  <2>1. Lock(s, "guard", AfterRemoval(s)) /\ UNCHANGED <<cmd, read, number>>
    BY <1>11 DEF RemoveLine
  <2>2. AfterRemoval(s) \notin {"series", "replay", "snapshot"}
    BY DEF AfterRemoval
  <2> QED  BY <2>1, <2>2, LockGoesOn
<1>12. CASE LockCheckout(s) \/ CommitStored(s) \/ InsertSale(s) \/ RefuseShort(s)
  BY <1>1, <1>3, <1>12 DEF LockCheckout, CommitStored, InsertSale, RefuseShort
<1>13. CASE MoveStock(s)
  <2>1. Lock(s, "stock", "series") /\ UNCHANGED <<cmd, read>> /\ number' = number
    BY <1>13 DEF MoveStock, local
  <2> QED  BY <1>13, <2>1, LockGoesOn
<1>14. CASE TakeNumber(s)
  <2>1. Lock(s, "series", AfterSale(s)) /\ UNCHANGED <<cmd, read>> /\ \A r \in Sessions \ {s} : number'[r] = number[r]
    BY <1>14 DEF TakeNumber, Served, Shapes
  <2>2. AfterSale(s) \notin {"series", "replay", "snapshot"}
    BY DEF AfterSale
  <2> QED  BY <2>1, <2>2, LockGoesOn
<1>15. CASE Verify(s)
  BY <1>1, <1>2, <1>15 DEF Verify
<1>16. CASE Fail(s) \/ AbortVictim(s)
  BY <1>1, <1>16 DEF Fail, AbortVictim
<1> QED  BY <1>4, <1>5, <1>6, <1>7, <1>8, <1>9, <1>10, <1>11, <1>12, <1>13, <1>14, <1>15, <1>16 DEF Step

LEMMA BeginActs ==
  ASSUME Served, NEW s \in Sessions, NEW c \in Commands, Begin(s, c)
  PROVE  \A r \in Sessions : Acts(r)
<1>1. /\ pc' = [pc EXCEPT ![s] = FirstStep(c)] /\ cmd' = [cmd EXCEPT ![s] = c]
      /\ read' = [read EXCEPT ![s] = GateRead(c)] /\ number' = number /\ held' = held /\ pc[s] = "idle"
  BY DEF Begin, Goto
<1>2. FirstStep(c) # "series"
  BY CommandAssumption DEF FirstStep, Kinds, SetKinds
<1>3. c.kind \in {"quantity", "discount"} => c.line \in DOMAIN lines
  BY DEF Begin, Passes, Basket, LinesOf
<1>4. DOMAIN pc = Sessions /\ DOMAIN read = Sessions /\ cmd \in [Sessions -> Commands]
  BY DEF Served, Shapes
<1>5. Begins(s)
  BY <1>1, <1>2, <1>3, <1>4 DEF Begins
<1>6. \A r \in Sessions \ {s} : GoesOn(r)
  BY <1>1, <1>4 DEF GoesOn
<1> QED  BY <1>5, <1>6 DEF Acts

\* A request goes on with the rows it has read: its sale is the same.
LEMMA SameItemsToSell ==
  ASSUME NEW s \in Sessions, cmd'[s] = cmd[s], read'[s] = read[s]
  PROVE  ItemsOf(s)' = ItemsOf(s) /\ (RowsOK(s) => RowsOK(s)')
BY DEF ItemsOf, RowsOK

LEMMA ActsKeepRows ==
  ASSUME Served, Stocked, NEW s \in Sessions, Acts(s)
  PROVE  RowsOK(s)'
<1>1. RowsOK(s) /\ Counted(lines)
  BY DEF Stocked
<1>2. CASE GoesOn(s)
  BY <1>1, <1>2, SameItemsToSell DEF GoesOn
<1>3. ASSUME read'[s].rows = <<>> PROVE RowsOK(s)'
  <2>1. DOMAIN read'[s].rows = {}
    BY <1>3
  <2> QED  BY <2>1, FS_EmptySet DEF RowsOK, Counted
<1>4. CASE Stops(s)
  BY <1>3, <1>4 DEF Stops, NoRead
<1>5. CASE Reads(s)
  <2> DEFINE t == cmd[s].till
  <2>1. read'[s].rows = [l \in Basket(t) |-> lines[l]]
    BY <1>5 DEF Reads
  <2>2. Basket(t) \subseteq DOMAIN lines
    BY DEF Basket, LinesOf
  <2>3. IsFiniteSet(Basket(t))
    BY <1>1, <2>2, FS_Subset DEF Counted
  <2>4. \A k, l \in Basket(t) : k # l => lines[k].no # lines[l].no
    BY DEF Served, OrdinalsDistinct, Basket, LinesOf
  <2> QED  BY <1>1, <2>1, <2>2, <2>3, <2>4 DEF RowsOK, Counted
<1>6. CASE Begins(s)
  <2>1. PICK c \in Commands :
          cmd'[s] = c /\ read'[s] = GateRead(c) /\ (c.kind \in {"quantity", "discount"} => c.line \in DOMAIN lines)
    BY <1>6 DEF Begins
  <2>2. CASE c.kind \in {"quantity", "discount"}
    <3>1. read'[s].rows = [l \in {c.line} |-> lines[l]] /\ cmd'[s].kind # "checkout"
      BY <2>1, <2>2 DEF GateRead
    <3> QED  BY <1>1, <2>1, <2>2, <3>1, FS_Singleton DEF RowsOK, Counted
  <2>3. CASE c.kind \notin {"quantity", "discount"}
    BY <1>3, <2>1, <2>3 DEF GateRead
  <2> QED  BY <2>2, <2>3
<1> QED  BY <1>2, <1>4, <1>5, <1>6 DEF Acts

LEMMA ActsKeepReserves ==
  ASSUME Served, Sells, Stocked, UNCHANGED tables, NEW s \in Sessions, Acts(s)
  PROVE  Reserves(s)'
<1>1. RowsOK(s) /\ Reserves(s) /\ stock' = stock
  BY DEF Stocked, tables
<1>2. CASE GoesOn(s)
  <2>1. ItemsOf(s)' = ItemsOf(s) /\ held[s] \subseteq held'[s]
    BY <1>2, SameItemsToSell DEF GoesOn
  <2>2. CASE pc[s] = "series" \/ number[s] # 0
    BY <1>1, <1>2, <2>1, <2>2 DEF Reserves, GoesOn
  <2>3. CASE ~(pc[s] = "series" \/ number[s] # 0)
    <3>1. pc'[s] \in {"replay", "snapshot"} => number'[s] = 0
      BY <1>2, <2>3 DEF GoesOn
    <3>2. number'[s] = 0
      BY <1>2, <2>3 DEF GoesOn
    <3>3. CASE pc'[s] # "series"
      BY <3>1, <3>2, <3>3 DEF Reserves
    <3>4. CASE pc'[s] = "series"
      <4>1. MoveStock(s)
        BY <1>2, <2>3, <3>4 DEF GoesOn
      <4>2. Wants(s) = {<<"stock", ItemsOf(s)[l].item>> : l \in DOMAIN ItemsOf(s)}
        BY <4>1 DEF MoveStock, Wants
      <4>3. Wants(s) \subseteq held'[s]
        BY <4>1 DEF MoveStock, Lock, Served, Shapes
      <4>4. \A l \in DOMAIN ItemsOf(s) : ItemsOf(s)[l].qty \in Nat
        BY <1>1, ItemsCounted DEF Counted
      <4>5. \A l \in DOMAIN ItemsOf(s) : ~(stock[ItemsOf(s)[l].item] < ItemsOf(s)[l].qty)
        BY <4>1 DEF MoveStock, Short
      <4>6. \A i \in Items : stock[i] \in Nat
        BY DEF Stocked
      <4>7. \A l \in DOMAIN ItemsOf(s) : \A i \in Items : ItemsOf(s)[l].item = i => ItemsOf(s)[l].qty <= stock[i]
        BY <4>4, <4>5, <4>6
      <4> QED  BY <1>1, <2>1, <3>1, <4>2, <4>3, <4>7 DEF Reserves
    <3> QED  BY <3>3, <3>4
  <2> QED  BY <2>2, <2>3
<1>3. CASE Stops(s)
  BY <1>3 DEF Stops, Reserves
<1>4. CASE Reads(s)
  BY <1>1, <1>4 DEF Reads, Reserves
<1>5. CASE Begins(s)
  <2>1. number[s] = 0
    BY <1>5 DEF Begins, Served, RequestOK, PathOK
  <2> QED  BY <1>5, <2>1 DEF Begins, Reserves
<1> QED  BY <1>2, <1>3, <1>4, <1>5 DEF Acts

LEMMA ActsKeepStocked ==
  ASSUME Served, Sells, Stocked, UNCHANGED tables, \A s \in Sessions : Acts(s)
  PROVE  Stocked'
<1>1. (stock \in [Items -> Nat] /\ Counted(lines) /\ \A x \in DOMAIN sales : Counted(sales[x].items))'
  BY DEF Stocked, tables, Counted
<1>2. StockIsSold'
  <2>1. \A x, i : TakenBy(x, i)' = TakenBy(x, i)
    BY DEF TakenBy, tables
  <2> QED  BY <2>1 DEF Stocked, StockIsSold, tables
<1>3. ASSUME NEW s \in Sessions PROVE RowsOK(s)' /\ Reserves(s)'
  BY ActsKeepRows, ActsKeepReserves
<1> QED  BY <1>1, <1>2, <1>3 DEF Stocked

LEMMA CommitCounted ==
  ASSUME Served, Sells, Stocked, NEW r \in Sessions, Commit(r)
  PROVE  Counted(lines)'
<1>1. HoldsLines(r) /\ ReadsLines(r) /\ RowsOK(r) /\ Counted(lines)
  BY DEF Sells, SellingOK, Stocked
<1>2. DOMAIN lines' \subseteq DOMAIN lines \cup {cmd[r].line}
  BY <1>1, CommitRows
<1>3. IsFiniteSet(DOMAIN lines \cup {cmd[r].line})
  BY <1>1, FS_AddElement DEF Counted
<1>4. IsFiniteSet(DOMAIN lines')
  BY <1>2, <1>3, FS_Subset
<1>5. pc[r] = "commit" /\ lines' = LinesAfter(r) /\ RequestOK(r)
  BY DEF Commit, Served
<1>6. cmd[r].qty \in Nat
  BY CommandAssumption DEF Served, Shapes
<1>7. CASE cmd[r].kind = "add"
  <2>1. lines' = Put(lines, cmd[r].line, Added(r))
    BY <1>5, <1>7 DEF LinesAfter
  <2>2. Added(r).qty \in Nat
    BY <1>6 DEF Added
  <2> QED  BY <1>1, <1>4, <2>1, <2>2 DEF Put, Counted
<1>8. CASE cmd[r].kind \in {"quantity", "discount"}
  <2>1. lines' = Put(lines, cmd[r].line, Revised(r))
    BY <1>5, <1>8 DEF LinesAfter
  <2>2. cmd[r].line \in DOMAIN read[r].rows /\ IsLine(read[r].rows[cmd[r].line])
    BY <1>1, <1>5, <1>8 DEF ReadsLines, RequestOK, LineOK
  <2>3. read[r].rows[cmd[r].line].qty \in Nat
    BY <1>1, <2>2 DEF RowsOK, Counted
  <2>4. Revised(r).qty \in Nat
    BY <1>6, <2>2, <2>3 DEF Revised, IsLine
  <2> QED  BY <1>1, <1>4, <2>1, <2>4 DEF Put, Counted
<1>9. CASE cmd[r].kind \notin SetKinds
  <2>1. lines' = Swept(lines, done[r])
    BY <1>5, <1>9 DEF LinesAfter, SetKinds, Swept
  <2>2. \A l \in DOMAIN lines : IsLine(lines[l])
    BY DEF Served, Shapes
  <2>3. DOMAIN lines' = DOMAIN lines /\ \A l \in DOMAIN lines : lines'[l].qty = lines[l].qty
    BY <2>1, <2>2, SweptRows
  <2> QED  BY <1>1, <1>4, <2>3 DEF Counted
<1> QED  BY <1>7, <1>8, <1>9 DEF SetKinds

\* What a commit takes is there, and locked for it.
LEMMA TakenIsReserved ==
  ASSUME Served, Sells, Stocked, NEW r \in Sessions, number[r] # 0, NEW i \in Items
  PROVE  /\ Taken(r, i) \in Nat /\ Taken(r, i) <= stock[i]
         /\ Taken(r, i) = 0 \/ <<"stock", i>> \in held[r]
<1> DEFINE items == ItemsOf(r)
<1>1. Counted(items) /\ \A k, l \in DOMAIN items : items[k].item = items[l].item => k = l
  BY ItemsCounted DEF Stocked
<1>2. \A l \in DOMAIN items : <<"stock", items[l].item>> \in held[r] /\ (items[l].item = i => items[l].qty <= stock[i])
  BY DEF Stocked, Reserves
<1>3. Taken(r, i) = Total([l \in {l \in DOMAIN items : items[l].item = i} |-> items[l].qty])
  BY DEF Taken
<1>4. stock[i] \in Nat
  BY DEF Stocked
<1> HIDE DEF items
<1>5. Taken(r, i) \in Nat /\ (Taken(r, i) = 0 \/ \E l \in DOMAIN items : items[l].item = i /\ Taken(r, i) = items[l].qty)
  <2>1. Counted(items) /\ OneEach(items)
    BY ONLY <1>1 DEF OneEach
  <2>2. TakesRow(items, i, OfItem(items, i))
    BY ONLY <2>1, TakesOne
  <2>3. Taken(r, i) = OfItem(items, i)
    BY ONLY <1>3, Zenon DEF OfItem
  <2> QED  BY ONLY <2>2, <2>3, Zenon DEF TakesRow
<1> QED  BY <1>2, <1>4, <1>5

LEMMA TakenByIsInt ==
  ASSUME Stocked, NEW x \in DOMAIN sales, NEW i
  PROVE  TakenBy(x, i) \in Int
<1> DEFINE S == {l \in DOMAIN sales[x].items : sales[x].items[l].item = i}
           f == [l \in S |-> sales[x].items[l].qty]
<1>1. Counted(sales[x].items)
  BY DEF Stocked
<1>2. IsFiniteSet(S) /\ f \in [S -> Int]
  BY <1>1, FS_Subset DEF Counted
<1>3. TakenBy(x, i) = Total(f)
  BY DEF TakenBy
<1> HIDE DEF S, f
<1> QED  BY <1>2, <1>3, TotalSplits

LEMMA CommitStock ==
  ASSUME Served, Sells, Stocked, NEW r \in Sessions, Commit(r)
  PROVE  (stock \in [Items -> Nat] /\ StockIsSold /\ \A x \in DOMAIN sales : Counted(sales[x].items))'
<1>1. CASE number[r] = 0
  <2>1. sales' = sales /\ stock' = stock
    BY <1>1 DEF Commit
  <2>2. \A x, i : TakenBy(x, i)' = TakenBy(x, i)
    BY <2>1 DEF TakenBy
  <2> QED  BY <2>1, <2>2 DEF Stocked, StockIsSold, Counted
<1>2. CASE number[r] # 0
  <2> DEFINE D == DOMAIN sales
  <2> PICK n \in {cmd[r].sale} : TRUE
    OBVIOUS
  <2>1. n \notin D /\ DOMAIN sales' = D \cup {n} /\ sales'[n] = NewSale(r) /\ \A x \in D : sales'[x] = sales[x]
    <3>1. /\ ~Sold(r) /\ sales'[cmd[r].sale] = NewSale(r)
          /\ \A x \in DOMAIN sales : sales'[x] = sales[x]
      BY <1>2, CommitRecords
    <3>2. DOMAIN sales' = DOMAIN sales \cup {cmd[r].sale}
      BY <1>2, CommitSales
    <3>3. n = cmd[r].sale
      OBVIOUS
    <3> QED  BY ONLY <3>1, <3>2, <3>3, Zenon DEF Sold
  <2>2. stock' = [i \in Items |-> stock[i] - Taken(r, i)]
    BY <1>2 DEF Commit
  <2>3. sales'[n].items = ItemsOf(r) /\ Counted(ItemsOf(r))
    BY <2>1, ItemsCounted DEF NewSale, Stocked
  <2>4. \A x \in DOMAIN sales' : Counted(sales'[x].items)
    BY <2>1, <2>3 DEF Stocked
  <2>5. IsFiniteSet(D)
    BY DEF Served, NumbersOK
  <2>6. ASSUME NEW i \in Items
        PROVE  /\ stock'[i] \in Nat
               /\ stock'[i] + Total([x \in DOMAIN sales' |-> TakenBy(x, i)']) = Opening[i]
    <3> DEFINE h == [x \in DOMAIN sales' |-> TakenBy(x, i)']
    <3>1. Taken(r, i) \in Nat /\ Taken(r, i) <= stock[i] /\ stock[i] \in Nat /\ stock'[i] = stock[i] - Taken(r, i)
      BY <1>2, <2>2, TakenIsReserved DEF Stocked
    <3>2. \A x \in D : TakenBy(x, i)' = TakenBy(x, i)
      BY <2>1 DEF TakenBy
    <3>3. TakenBy(n, i)' = Taken(r, i)
      BY <2>3 DEF TakenBy, Taken
    <3>4. \A x \in D : TakenBy(x, i) \in Int
      BY TakenByIsInt
    <3>5. h \in [D \cup {n} -> Int] /\ h[n] = Taken(r, i)
      BY <2>1, <3>1, <3>2, <3>3, <3>4
    <3>6. On(h, D) = [x \in D |-> TakenBy(x, i)]
      BY <2>1, <3>2 DEF On
    <3>7. stock[i] + Total([x \in D |-> TakenBy(x, i)]) = Opening[i]
      BY DEF Stocked, StockIsSold
    <3>8. Total([x \in D |-> TakenBy(x, i)]) \in Int
      <4> DEFINE g == [x \in D |-> TakenBy(x, i)]
      <4>1. g \in [D -> Int]
        BY <3>4
      <4> HIDE DEF g, D
      <4>2. Total(g) \in Int
        BY <2>5, <4>1, TotalSplits
      <4> QED  BY <4>2 DEF g
    <3>9. Total(h) = Taken(r, i) + Total([x \in D |-> TakenBy(x, i)])
      <4> HIDE DEF h, D
      <4>1. Total(h) = h[n] + Total(On(h, D))
        BY <2>1, <2>5, <3>5, TotalAdds
      <4> QED  BY <3>5, <3>6, <4>1
    <3> QED  BY <3>1, <3>7, <3>8, <3>9
  <2>7. stock' \in [Items -> Nat]
    BY <2>2, <2>6
  <2>8. StockIsSold'
    BY <2>6 DEF StockIsSold
  <2> QED  BY <2>4, <2>7, <2>8
<1> QED  BY <1>1, <1>2

LEMMA CommitReserves ==
  ASSUME Served, Sells, Stocked, NEW r \in Sessions, Commit(r), NEW s \in Sessions
  PROVE  RowsOK(s)' /\ Reserves(s)'
<1>1. RowsOK(s) /\ Reserves(s)
  BY DEF Stocked
<1>2. End(r, "done")
  BY DEF Commit
<1>3. CASE s = r
  <2>1. read'[s] = NoRead /\ number'[s] = 0 /\ pc'[s] = "idle"
    BY <1>2, <1>3, EndStops DEF Stops
  <2>2. DOMAIN read'[s].rows = {}
    BY <2>1 DEF NoRead
  <2> QED  BY <2>1, <2>2, FS_EmptySet DEF RowsOK, Counted, Reserves
<1>4. CASE s # r
  <2>1. cmd' = cmd /\ read'[s] = read[s] /\ held'[s] = held[s] /\ number'[s] = number[s] /\ pc'[s] = pc[s]
    BY <1>2, <1>4 DEF End, Goto, Served, Shapes
  <2>2. ItemsOf(s)' = ItemsOf(s) /\ RowsOK(s)'
    BY <1>1, <2>1, SameItemsToSell
  <2>3. ASSUME NEW i \in Items, <<"stock", i>> \in held[s] PROVE stock'[i] = stock[i]
    <3>1. CASE number[r] = 0
      BY <3>1 DEF Commit
    <3>2. CASE number[r] # 0
      <4>1. <<"stock", i>> \notin held[r]
        BY <1>4, <2>3 DEF Served, LocksExclude
      <4>2. Taken(r, i) = 0 /\ stock[i] \in Nat
        BY <3>2, <4>1, TakenIsReserved DEF Stocked
      <4>3. stock'[i] = stock[i] - Taken(r, i)
        BY <3>2 DEF Commit
      <4> QED  BY <4>2, <4>3
    <3> QED  BY <3>1, <3>2
  <2> QED  BY <1>1, <2>1, <2>2, <2>3 DEF Reserves
<1> QED  BY <1>3, <1>4

LEMMA InitStocked == Init => Stocked
<1> SUFFICES ASSUME Init PROVE Stocked
  OBVIOUS
<1>1. stock \in [Items -> Nat] /\ DOMAIN sales = {} /\ DOMAIN lines = {}
  BY CommandAssumption DEF Init
<1>2. \A i \in Items : Total([x \in DOMAIN sales |-> TakenBy(x, i)]) = 0
  BY <1>1, TotalOfNone
<1>3. StockIsSold
  BY <1>1, <1>2 DEF StockIsSold, Init
<1>4. ASSUME NEW s \in Sessions PROVE RowsOK(s) /\ Reserves(s)
  <2>1. read[s] = NoRead /\ number[s] = 0 /\ pc[s] = "idle"
    BY DEF Init
  <2>2. DOMAIN read[s].rows = {}
    BY <2>1 DEF NoRead
  <2> QED  BY <2>1, <2>2, FS_EmptySet DEF RowsOK, Counted, Reserves
<1> QED  BY <1>1, <1>3, <1>4, FS_EmptySet DEF Stocked, Counted

LEMMA StockedStep ==
  ASSUME Served, Sells, Stocked, [Next]_vars
  PROVE  Stocked'
<1>1. CASE \E r \in Sessions : Commit(r)
  <2>1. PICK r \in Sessions : Commit(r)
    BY <1>1
  <2> QED  BY <2>1, CommitCounted, CommitStock, CommitReserves DEF Stocked
<1>2. CASE ~\E r \in Sessions : Commit(r)
  <2>1. UNCHANGED tables
    BY <1>2, OnlyCommitsWrite
  <2>2. \A s \in Sessions : Acts(s)
    <3>1. CASE UNCHANGED vars
      BY <3>1 DEF vars, Acts, GoesOn
    <3>2. CASE Next
      BY <1>2, <3>2, OneActs, BeginActs DEF Next
    <3> QED  BY <3>1, <3>2
  <2> QED  BY <2>1, <2>2, ActsKeepStocked
<1> QED  BY <1>1, <1>2

\* What has left the stock is what was sold, and there was enough of it
\* (0078:554, 877).
THEOREM StockMovesOnce == Spec => []StockIsSold
<1>1. Served /\ Sells /\ Stocked /\ [Next]_vars => (Served /\ Sells /\ Stocked)'
  BY ServedStep, SellsStep, StockedStep
<1>2. Stocked => StockIsSold
  BY DEF Stocked
<1> QED  BY InitServed, InitSells, InitStocked, <1>1, <1>2, PTL DEF Spec
=============================================================================
