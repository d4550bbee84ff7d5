-------------------------- MODULE StockLedgerProofs --------------------------
(***************************************************************************)
(* The stock ledger for every number of sessions, warehouses, variants,    *)
(* commands and submissions, every Scale and every QtyLimit not above it:  *)
(* the arithmetic of a valuation, the ledger's safety, that the concurrent *)
(* ledger implements the atomic one, and that the books follow the stock.  *)
(***************************************************************************)
EXTENDS StockLedger, SumTheorems

-----------------------------------------------------------------------------
(* Arithmetic: quantities stay below Scale, so two roundings never add up  *)
(* to a minor unit.                                                        *)

\* Floor division and remainder.
LEMMA DivMod ==
  ASSUME NEW n \in Int, NEW d \in Nat \ {0}
  PROVE  /\ n \div d \in Int /\ n % d \in 0..(d - 1)
         /\ n = d * (n \div d) + (n % d)
  OBVIOUS

\* A natural number divided with rounding is within half a divisor of exact.
LEMMA HalfEvenBounds ==
  ASSUME NEW n \in Nat, NEW d \in Nat \ {0}
  PROVE  /\ HalfEvenNat(n, d) \in Nat
         /\ 2 * (d * HalfEvenNat(n, d)) <= 2 * n + d
         /\ 2 * n <= 2 * (d * HalfEvenNat(n, d)) + d
<1> DEFINE q == n \div d
           r == n % d
<1>1. q \in Nat /\ r \in Nat /\ r < d /\ n = d * q + r
  BY DivMod
<1>2. HalfEvenNat(n, d) = IF \/ 2 * r > d
                             \/ 2 * r = d /\ q % 2 = 1
                          THEN q + 1 ELSE q
  BY DEF HalfEvenNat
<1> HIDE DEF q, r
<1>3. d * (q + 1) = d * q + d /\ d * q \in Nat
  BY <1>1
<1>4. CASE HalfEvenNat(n, d) = q + 1 /\ 2 * r >= d
  BY <1>1, <1>3, <1>4
<1>5. CASE HalfEvenNat(n, d) = q /\ 2 * r <= d
  BY <1>1, <1>3, <1>5
<1> QED
  BY <1>1, <1>2, <1>4, <1>5

LEMMA RoundTyped ==
  ASSUME NEW n \in Int, NEW d \in Nat \ {0}
  PROVE  RoundHalfEven(n, d) \in Int /\ (n >= 0 => RoundHalfEven(n, d) >= 0)
<1>1. CASE n < 0
  BY <1>1, HalfEvenBounds, -n \in Nat DEF RoundHalfEven
<1>2. CASE n >= 0
  BY <1>2, HalfEvenBounds, n \in Nat DEF RoundHalfEven
<1> QED
  BY <1>1, <1>2

LEMMA ProductMonotone ==
  ASSUME NEW a \in Int, NEW b \in Int, NEW c \in Nat, a <= b
  PROVE  a * c <= b * c
  OBVIOUS

\* Taking Q of the onHand units at their rounded average takes no more than the
\* valuation: two roundings never add up to a minor unit, because a quantity
\* stays below Scale.
LEMMA PartialWithinValuation ==
  ASSUME NEW V \in Nat, NEW onHand \in Nat \ {0}, NEW Q \in Nat,
         Q < onHand, onHand < QtyLimit
  PROVE  RoundHalfEven(Q * RoundHalfEven(V * Scale, onHand), Scale) \in 0..V
<1> DEFINE S == Scale
           VS == V * S
           avg == HalfEvenNat(VS, onHand)
           QA == Q * avg
           h == HalfEvenNat(QA, S)
<1>1. S \in Nat \ {0} /\ onHand < S
  BY ValuationAssumption
<1>2. VS \in Nat
  BY <1>1
<1>3. avg \in Nat /\ 2 * (onHand * avg) <= 2 * VS + onHand
  BY <1>2, HalfEvenBounds
<1>4. QA \in Nat
  BY <1>3
<1>5. h \in Nat /\ 2 * (S * h) <= 2 * QA + S
  BY <1>1, <1>4, HalfEvenBounds
<1>6. RoundHalfEven(VS, onHand) = avg /\ RoundHalfEven(QA, S) = h
  BY <1>2, <1>4 DEF RoundHalfEven
<1>7. h <= V
  <2> SUFFICES ASSUME h >= V + 1 PROVE FALSE
    BY <1>5
  <2>1. S * (V + 1) <= S * h
    BY <1>1, <1>5, ProductMonotone
  <2>2. S * (V + 1) = VS + S
    BY <1>1
  <2>3. 2 * VS + S <= 2 * QA
    <3> HIDE DEF VS, QA, h, S
    <3> QED BY <1>1, <1>2, <1>4, <1>5, <2>1, <2>2
  <2>4. (2 * VS + S) * onHand <= (2 * QA) * onHand
    <3> HIDE DEF VS, QA, h, S
    <3> QED BY <1>1, <1>2, <1>4, <2>3, ProductMonotone
  <2>5. (2 * (onHand * avg)) * Q <= (2 * VS + onHand) * Q
    <3> HIDE DEF VS, avg
    <3> QED BY <1>2, <1>3, ProductMonotone
  <2>6. (2 * QA) * onHand = (2 * (onHand * avg)) * Q
    <3> HIDE DEF avg
    <3> QED BY <1>3
  <2>7. (2 * VS) * Q <= (2 * VS) * onHand
    <3> HIDE DEF VS
    <3> QED BY <1>2
  <2>8. S * onHand <= onHand * Q
    <3>1. (2 * VS + S) * onHand = (2 * VS) * onHand + S * onHand
      BY <1>1, <1>2
    <3>2. (2 * VS + onHand) * Q = (2 * VS) * Q + onHand * Q
      BY <1>1, <1>2
    <3> HIDE DEF VS, QA, avg, S
    <3> QED BY <1>1, <1>2, <1>3, <1>4, <2>4, <2>5, <2>6, <2>7, <3>1, <3>2
  <2>9. onHand * Q < S * onHand
    <3> HIDE DEF S
    <3> QED BY <1>1
  <2> QED
    <3> HIDE DEF S
    <3> QED BY <1>1, <2>8, <2>9
<1> QED
  BY <1>5, <1>6, <1>7

-----------------------------------------------------------------------------
\* A request with the fields the valuation reads, and a stored movement.
TypedRequest(req) ==
  /\ req.kind \in Kinds /\ req.qty \in Int
  /\ req.cost \in Int \cup {None} /\ req.value \in Int \cup {None}

\* What the pair of a request is, when there is one: a transfer_in's pair is a
\* transfer_out, which never adds value.
TypedPair(req, pair) ==
  pair # None =>
    /\ pair.value \in Int /\ pair.snap \in Int \cup {None}
    /\ req.kind = "transfer_in" => pair.value <= 0

LEMMA OutboundValue ==
  ASSUME NEW lvl \in Levels, LawfulLevel(lvl),
         NEW req, TypedRequest(req), req.qty < 0, OutboundAccepted(lvl, req)
  PROVE  LET v == Outbound(lvl, req)
         IN /\ v.value \in Int /\ v.value <= 0
            /\ v.snap \in Int
            /\ lvl.valuation + v.value >= 0
            /\ -req.qty = lvl.onHand => lvl.valuation + v.value = 0
<1> DEFINE Q == -req.qty
<1>1. Q \in Nat \ {0} /\ Q <= lvl.onHand /\ lvl.onHand \in Nat /\ lvl.onHand < QtyLimit
  BY DEF TypedRequest, OutboundAccepted, LawfulLevel, Levels
<1>2. lvl.valuation \in Nat /\ lvl.avg \in Int
  BY DEF Levels, LawfulLevel, OutboundAccepted
<1>3. CASE Q = lvl.onHand
  BY <1>1, <1>2, <1>3 DEF Outbound
<1>4. CASE Q # lvl.onHand
  <2>1. lvl.avg = RoundHalfEven(lvl.valuation * Scale, lvl.onHand)
    BY <1>1 DEF LawfulLevel, AvgFresh
  <2>2. RoundHalfEven(Q * lvl.avg, Scale) \in 0..lvl.valuation
    <3>1. Q \in Nat /\ Q < lvl.onHand /\ lvl.onHand \in Nat \ {0} /\ lvl.onHand < QtyLimit
      BY ONLY <1>1, <1>4
    <3> HIDE DEF Q
    <3>2. RoundHalfEven(Q * RoundHalfEven(lvl.valuation * Scale, lvl.onHand), Scale) \in 0..lvl.valuation
      BY ONLY <1>2, <3>1, PartialWithinValuation
    <3> QED  BY ONLY <2>1, <3>2, Zenon
  <2>3. Outbound(lvl, req) = [value |-> -RoundHalfEven(Q * lvl.avg, Scale), snap |-> lvl.avg]
    BY <1>4 DEF Outbound
  <2> QED
    BY <1>2, <1>4, <2>2, <2>3
<1> QED
  BY <1>3, <1>4

LEMMA InboundValue ==
  ASSUME NEW req, TypedRequest(req), req.qty > 0, InboundAccepted(req)
  PROVE  LET v == Inbound(req) IN v.value \in Nat /\ v.snap \in Int
<1>1. req.qty \in Nat /\ req.cost \in Nat
  BY DEF TypedRequest, InboundAccepted
<1>2. CASE req.value # None
  BY <1>1, <1>2 DEF Inbound, InboundAccepted, TypedRequest
<1>3. CASE req.value = None
  <2>1. req.qty * req.cost \in Nat
    BY <1>1
  <2>2. RoundHalfEven(req.qty * req.cost, Scale) \in Nat
    BY <2>1, RoundTyped, ValuationAssumption
  <2> QED
    BY <1>1, <1>3, <2>2 DEF Inbound
<1> QED
  BY <1>2, <1>3

\* A movement that keeps the quantity in range, the valuation non-negative and
\* an empty key worthless leaves a lawful key.
LEMMA ApplyLawful ==
  ASSUME NEW lvl \in Levels, LawfulLevel(lvl), NEW qty \in Int, NEW value \in Int,
         lvl.onHand + qty >= 0, lvl.onHand + qty < QtyLimit,
         lvl.valuation + value >= 0,
         lvl.onHand + qty = 0 => lvl.valuation + value = 0
  PROVE  /\ ApplyMovement(lvl, qty, value) \in Levels
         /\ LawfulLevel(ApplyMovement(lvl, qty, value))
<1> DEFINE h == lvl.onHand + qty
           V == lvl.valuation + value
           avg == AverageUnitCost(V, h, lvl.avg)
<1>1. h \in Nat /\ V \in Nat /\ lvl.seq + 1 \in Nat
  BY DEF Levels
<1>2. h # 0 => avg = RoundHalfEven(V * Scale, h) /\ avg \in Nat
  <2>1. V * Scale \in Nat
    BY <1>1, ValuationAssumption
  <2> QED
    BY <1>1, <2>1, RoundTyped DEF AverageUnitCost
<1>3. h = 0 => avg = lvl.avg
  BY DEF AverageUnitCost
<1>4. avg \in Int \cup {None} /\ (avg # None => avg >= 0)
  BY <1>1, <1>2, <1>3 DEF Levels, LawfulLevel
<1>5. ApplyMovement(lvl, qty, value) = [onHand |-> h, valuation |-> V, avg |-> avg, seq |-> lvl.seq + 1]
  BY DEF ApplyMovement
<1> HIDE DEF avg, h, V
<1>6. ApplyMovement(lvl, qty, value) \in Levels
  BY <1>1, <1>4, <1>5 DEF Levels
<1>7. LawfulLevel(ApplyMovement(lvl, qty, value))
  BY <1>1, <1>2, <1>4, <1>5 DEF LawfulLevel, AvgFresh, h, V
<1> QED
  BY <1>6, <1>7

\* Admission keeps a key lawful, whatever the kind of the movement.
LEMMA AdmissibleLawful ==
  ASSUME NEW lvl \in Levels, LawfulLevel(lvl),
         NEW req, TypedRequest(req), NEW pair, TypedPair(req, pair),
         Admissible(lvl, req, pair)
  PROVE  LET v == Valued(lvl, req, pair)
         IN /\ v.value \in Int /\ v.snap \in Int \cup {None}
            /\ req.kind = "transfer_out" => v.value <= 0
            /\ ApplyMovement(lvl, req.qty, v.value) \in Levels
            /\ LawfulLevel(ApplyMovement(lvl, req.qty, v.value))
<1> DEFINE v == Valued(lvl, req, pair)
<1>1. /\ SignAllowed(req.kind, req.qty) /\ ValuationAccepted(lvl, req, pair)
      /\ InRange(ApplyMovement(lvl, req.qty, v.value), v.value)
  BY DEF Admissible
<1>2. lvl.onHand \in Nat /\ lvl.valuation \in Nat /\ req.qty \in Int
  BY DEF Levels, LawfulLevel, TypedRequest
<1>3. lvl.onHand + req.qty < QtyLimit
  BY <1>1, <1>2, ValuationAssumption DEF InRange, Magnitude, ApplyMovement
<1>4. /\ v.value \in Int /\ v.snap \in Int \cup {None}
      /\ req.kind = "transfer_out" => v.value <= 0
      /\ lvl.onHand + req.qty >= 0
      /\ lvl.valuation + v.value >= 0
      /\ lvl.onHand + req.qty = 0 => lvl.valuation + v.value = 0
  <2>1. CASE req.kind = "transfer_in"
    <3>1. req.qty > 0 /\ pair # None /\ v = Paired(pair)
      BY <1>1, <2>1 DEF SignAllowed, ValuationAccepted, TransferInAccepted, Valued
    <3> QED
      BY <1>2, <2>1, <3>1 DEF TypedPair, Paired
  <2>2. CASE req.kind = "purchase_reversal"
    <3>1. ReversalAccepted(lvl, req, pair) /\ v = Paired(pair)
      BY <1>1, <2>2 DEF ValuationAccepted, Valued
    <3> QED
      BY <1>2, <2>2, <3>1 DEF TypedPair, Paired, ReversalAccepted
  <2>3. CASE req.kind \notin {"transfer_in", "purchase_reversal"} /\ req.qty < 0
    <3>1. OutboundAccepted(lvl, req) /\ v = Outbound(lvl, req)
      BY <1>1, <2>3 DEF ValuationAccepted, Valued
    <3> QED
      BY <1>2, <2>3, <3>1, OutboundValue DEF OutboundAccepted
  <2>4. CASE req.kind \notin {"transfer_in", "purchase_reversal"} /\ ~(req.qty < 0)
    <3>1. req.qty > 0 /\ req.kind # "transfer_out"
      BY <1>1, <1>2, <2>4 DEF SignAllowed, TypedRequest, Kinds
    <3>2. InboundAccepted(req) /\ v = Inbound(req)
      BY <1>1, <2>4 DEF ValuationAccepted, Valued
    <3> QED
      BY <1>2, <3>1, <3>2, InboundValue
  <2> QED
    BY <2>1, <2>2, <2>3, <2>4
<1> HIDE DEF v
<1>5. ApplyMovement(lvl, req.qty, v.value) \in Levels /\ LawfulLevel(ApplyMovement(lvl, req.qty, v.value))
  BY <1>2, <1>3, <1>4, ApplyLawful
<1> QED
  BY <1>4, <1>5 DEF v

-----------------------------------------------------------------------------
(* Safety *)

\* A well-formed request of a command: it names the command's document, one of
\* the keys, and one of its lines.
RequestShape(c, req) ==
  /\ TypedRequest(req)
  /\ req.key \in Keys /\ req.doc = c.doc /\ req.line \in Nat

LEMMA RequestAtTyped ==
  ASSUME NEW c, WellFormed(c), NEW j \in Nat \ {0}, LineOf(c, j) \in 1..Len(c.lines)
  PROVE  RequestShape(c, RequestAt(c, j))
<1> DEFINE i == LineOf(c, j)
           l == c.lines[i]
<1>1. l \in Lines /\ i \in Nat
  BY DEF WellFormed
<1>2. \A kind \in Kinds, wh \in Warehouses, qty \in Int, cost \in Int \cup {None}, value \in Int \cup {None} :
        RequestShape(c, Request(c, i, kind, wh, qty, cost, value))
  BY <1>1 DEF Request, RequestShape, TypedRequest, Keys, Lines
<1>3. /\ l.qty \in Int /\ -l.qty \in Int
      /\ l.cost \in Int \cup {None} /\ l.value \in Int \cup {None}
      /\ None \in Int \cup {None}
  BY <1>1 DEF Lines
<1>4. /\ c.wh \in Warehouses
      /\ c.op = "transfer" => c.to \in Warehouses
      /\ c.op \in Operations
  BY DEF WellFormed
<1>5. /\ "transfer_out" \in Kinds /\ "transfer_in" \in Kinds /\ "adjustment" \in Kinds
      /\ "damage" \in Kinds /\ "purchase" \in Kinds /\ "purchase_reversal" \in Kinds
  BY DEF Kinds
<1> HIDE DEF i, l
<1>6. CASE c.op = "transfer" /\ j % 2 = 1
  <2>1. RequestAt(c, j) = Request(c, i, "transfer_out", c.wh, -l.qty, None, None)
    BY <1>6, Zenon DEF RequestAt, i, l
  <2>2. RequestShape(c, Request(c, i, "transfer_out", c.wh, -l.qty, None, None))
    BY ONLY <1>2, <1>3, <1>4, <1>5, <1>6, Zenon
  <2> QED
    BY ONLY <2>1, <2>2, Zenon
<1>7. CASE c.op = "transfer" /\ j % 2 # 1
  <2>1. RequestAt(c, j) = Request(c, i, "transfer_in", c.to, l.qty, None, None)
    BY <1>7, Zenon DEF RequestAt, i, l
  <2>2. RequestShape(c, Request(c, i, "transfer_in", c.to, l.qty, None, None))
    BY ONLY <1>2, <1>3, <1>4, <1>5, <1>7, Zenon
  <2> QED
    BY ONLY <2>1, <2>2, Zenon
<1>8. CASE c.op = "adjustment"
  <2>1. RequestAt(c, j) = Request(c, i, "adjustment", c.wh, l.qty, l.cost, None)
    BY <1>8, Zenon DEF RequestAt, i, l
  <2>2. RequestShape(c, Request(c, i, "adjustment", c.wh, l.qty, l.cost, None))
    BY ONLY <1>2, <1>3, <1>4, <1>5, Zenon
  <2> QED
    BY ONLY <2>1, <2>2, Zenon
<1>9. CASE c.op = "damage"
  <2>1. RequestAt(c, j) = Request(c, i, "damage", c.wh, -l.qty, None, None)
    BY <1>9, Zenon DEF RequestAt, i, l
  <2>2. RequestShape(c, Request(c, i, "damage", c.wh, -l.qty, None, None))
    BY ONLY <1>2, <1>3, <1>4, <1>5, Zenon
  <2> QED
    BY ONLY <2>1, <2>2, Zenon
<1>10. CASE c.op = "receive"
  <2>1. RequestAt(c, j) = Request(c, i, "purchase", c.wh, l.qty, l.cost, l.value)
    BY <1>10, Zenon DEF RequestAt, i, l
  <2>2. RequestShape(c, Request(c, i, "purchase", c.wh, l.qty, l.cost, l.value))
    BY ONLY <1>2, <1>3, <1>4, <1>5, Zenon
  <2> QED
    BY ONLY <2>1, <2>2, Zenon
<1>11. CASE c.op = "reverse"
  <2>1. RequestAt(c, j) = Request(c, i, "purchase_reversal", c.wh, -l.qty, None, None)
    BY <1>11, Zenon DEF RequestAt, i, l
  <2>2. RequestShape(c, Request(c, i, "purchase_reversal", c.wh, -l.qty, None, None))
    BY ONLY <1>2, <1>3, <1>4, <1>5, Zenon
  <2> QED
    BY ONLY <2>1, <2>2, Zenon
<1> QED
  BY <1>4, <1>6, <1>7, <1>8, <1>9, <1>10, <1>11 DEF Operations

LEMMA RequestsTyped ==
  ASSUME NEW c, WellFormed(c)
  PROVE  /\ Len(Requests(c)) \in Nat
         /\ DOMAIN Requests(c) = 1..Len(Requests(c))
         /\ \A j \in DOMAIN Requests(c) :
              RequestShape(c, Requests(c)[j]) /\ Requests(c)[j] = RequestAt(c, j)
<1> DEFINE n == Len(c.lines)
           m == IF c.op = "transfer" THEN 2 * n ELSE n
<1>1. n \in Nat /\ m \in Nat
  BY DEF WellFormed
<1>2. \A j \in 1..m : LineOf(c, j) \in 1..n
  BY <1>1 DEF LineOf
<1>3. Requests(c) = [j \in 1..m |-> RequestAt(c, j)]
  BY DEF Requests
<1> HIDE DEF n, m
<1>4. Requests(c) \in Seq({RequestAt(c, j) : j \in 1..m})
  BY <1>1, <1>3
<1>5. Len(Requests(c)) = m /\ DOMAIN Requests(c) = 1..m
  BY <1>1, <1>3, <1>4
<1>6. \A j \in 1..m : RequestShape(c, RequestAt(c, j))
  BY <1>1, <1>2, RequestAtTyped DEF n
<1> QED
  BY <1>1, <1>3, <1>5, <1>6

-----------------------------------------------------------------------------
(* The inductive invariant: a stronger typing, in which every level, seen   *)
(* or committed, is lawful and no transfer_out adds value.                  *)

LawfulLevels == {l \in Levels : LawfulLevel(l)}

LawfulMovements == {m \in Movements : m.kind = "transfer_out" => m.value <= 0}

CommittedOK ==
  /\ level \in [Keys -> LawfulLevels]
  /\ ledger \subseteq LawfulMovements
  /\ DOMAIN gl = DOMAIN docs
  /\ \A d \in DOMAIN docs : docs[d] \in Commands /\ docs[d].doc = d

SessionsOK ==
  /\ pc \in [Sessions -> {"idle", "quoted", "targets", "header", "rows", "apply"}]
  /\ cmd \in [Sessions -> Commands \cup {None}]
  /\ \A s \in Sessions : pc[s] # "idle" => cmd[s] \in Commands
  /\ rows \in [Sessions -> SUBSET Keys]
  /\ work \in [Sessions -> [Keys -> LawfulLevels]]
  /\ out \in [Sessions -> Seq(LawfulMovements)]

LawfulState == CommittedOK /\ SessionsOK /\ submits \in 0..MaxSubmits

LEMMA EmptyLevelLawful == EmptyLevel \in LawfulLevels
  BY ValuationAssumption DEF EmptyLevel, LawfulLevels, Levels, LawfulLevel, AvgFresh

\* What a session has written is a set of its movements.
LEMMA WrittenLawful ==
  ASSUME SessionsOK, NEW s \in Sessions
  PROVE  Written(s) \subseteq LawfulMovements
<1>1. out[s] \in Seq(LawfulMovements)
  BY DEF SessionsOK
<1> QED
  BY <1>1 DEF Written

LEMMA PairTyped ==
  ASSUME NEW c, NEW req, NEW moves \in SUBSET LawfulMovements
  PROVE  TypedPair(req, Pair(c, req, moves))
<1> DEFINE sources == {m \in moves :
                    /\ m.line = req.line
                    /\ \/ req.kind = "transfer_in" /\ m.kind = "transfer_out" /\ m.doc = req.doc
                       \/ req.kind = "purchase_reversal" /\ m.kind = "purchase" /\ m.doc = c.of}
<1>1. CASE sources = {}
  BY <1>1 DEF Pair, TypedPair
<1>2. CASE sources # {}
  <2>1. PICK m \in sources : Pair(c, req, moves) = m
    BY <1>2 DEF Pair
  <2>2. m \in Movements /\ (m.kind = "transfer_out" => m.value <= 0)
    BY <2>1 DEF LawfulMovements
  <2>3. m.value \in Int /\ m.snap \in Int \cup {None}
    BY <2>2 DEF Movements
  <2>4. req.kind = "transfer_in" => m.kind = "transfer_out"
    BY <2>1
  <2> QED
    BY <2>1, <2>2, <2>3, <2>4 DEF TypedPair
<1> QED
  BY <1>1, <1>2

\* Rollback and commit leave every session lawful.
LEMMA ReleaseLawful ==
  ASSUME SessionsOK, NEW s \in Sessions, Release(s)
  PROVE  SessionsOK'
<1>1. pc' \in [Sessions -> {"idle", "quoted", "targets", "header", "rows", "apply"}]
  BY DEF SessionsOK, Release
<1>2. cmd' \in [Sessions -> Commands \cup {None}]
  BY DEF SessionsOK, Release
<1>3. \A t \in Sessions : pc'[t] # "idle" => cmd'[t] \in Commands
  BY DEF SessionsOK, Release
<1>4. rows' \in [Sessions -> SUBSET Keys]
  BY DEF SessionsOK, Release
<1>5. work' \in [Sessions -> [Keys -> LawfulLevels]]
  BY EmptyLevelLawful DEF SessionsOK, Release
<1>6. out' \in [Sessions -> Seq(LawfulMovements)]
  <2>1. <<>> \in Seq(LawfulMovements)
    OBVIOUS
  <2> QED
    BY <2>1 DEF SessionsOK, Release
<1> QED
  BY <1>1, <1>2, <1>3, <1>4, <1>5, <1>6 DEF SessionsOK

LEMMA InitLawful == Init => LawfulState
<1> SUFFICES ASSUME Init PROVE LawfulState
  OBVIOUS
<1>1. CommittedOK
  <2>1. DOMAIN gl = DOMAIN docs /\ DOMAIN docs = {}
    BY DEF Init
  <2> QED
    BY <2>1, EmptyLevelLawful DEF Init, CommittedOK
<1>2. SessionsOK
  <2>1. <<>> \in Seq(LawfulMovements)
    OBVIOUS
  <2> QED
    BY <2>1, EmptyLevelLawful DEF Init, SessionsOK
<1> QED
  BY <1>1, <1>2, LedgerAssumption DEF Init, LawfulState

-----------------------------------------------------------------------------
(* The two steps that write: a request is applied, a command commits.       *)

LEMMA ApplyingTyped ==
  ASSUME LawfulState, NEW s \in Sessions, Applying(s)
  PROVE  /\ cmd[s] \in Commands
         /\ NextRequest(s).key \in Keys
         /\ TypedRequest(NextRequest(s))
         /\ NextRequest(s).doc = cmd[s].doc /\ NextRequest(s).line \in Nat
         /\ work[s][NextRequest(s).key] \in LawfulLevels
         /\ TypedPair(NextRequest(s), PairOf(s))
<1>1. cmd[s] \in Commands /\ WellFormed(cmd[s])
  BY LedgerAssumption DEF LawfulState, SessionsOK, Applying
<1>2. out[s] \in Seq(LawfulMovements) /\ Len(out[s]) \in Nat
  BY DEF LawfulState, SessionsOK
<1>3. Len(out[s]) + 1 \in DOMAIN Requests(cmd[s])
  BY <1>1, <1>2, RequestsTyped DEF Applying
<1>4. RequestShape(cmd[s], NextRequest(s))
  BY <1>1, <1>3, RequestsTyped DEF NextRequest
<1>5. ledger \cup Written(s) \in SUBSET LawfulMovements
  BY WrittenLawful DEF LawfulState, CommittedOK
<1>6. TypedPair(NextRequest(s), PairOf(s))
  BY <1>5, PairTyped DEF PairOf
<1>7. work[s][NextRequest(s).key] \in LawfulLevels
  BY <1>4 DEF RequestShape, LawfulState, SessionsOK
<1> QED
  BY <1>1, <1>4, <1>6, <1>7 DEF RequestShape

LEMMA ApplyRequestLawful ==
  ASSUME LawfulState, NEW s \in Sessions, ApplyRequest(s)
  PROVE  LawfulState'
<1> DEFINE req == NextRequest(s)
           lvl == work[s][req.key]
           v == Valued(lvl, req, PairOf(s))
           lvl2 == ApplyMovement(lvl, req.qty, v.value)
           m == [doc |-> req.doc, line |-> req.line, kind |-> req.kind, key |-> req.key,
                 qty |-> req.qty, value |-> v.value, snap |-> v.snap, seq |-> lvl.seq + 1]
<1>1. /\ cmd[s] \in Commands /\ req.key \in Keys /\ TypedRequest(req)
      /\ req.doc = cmd[s].doc /\ req.line \in Nat
      /\ lvl \in LawfulLevels /\ TypedPair(req, PairOf(s))
  BY ApplyingTyped DEF ApplyRequest
<1>2. Admissible(lvl, req, PairOf(s))
  BY DEF ApplyRequest, Accepted
<1>3. lvl \in Levels /\ LawfulLevel(lvl)
  BY <1>1 DEF LawfulLevels
<1>4. /\ v.value \in Int /\ v.snap \in Int \cup {None}
      /\ req.kind = "transfer_out" => v.value <= 0
      /\ lvl2 \in LawfulLevels
  <2> HIDE DEF req, lvl
  <2> QED BY <1>1, <1>2, <1>3, AdmissibleLawful DEF LawfulLevels
<1>5. /\ work' = [work EXCEPT ![s][req.key] = lvl2]
      /\ out' = [out EXCEPT ![s] = Append(@, m)]
      /\ UNCHANGED <<committed, archived, pc, cmd, quote, rows, submits>>
  BY DEF ApplyRequest
<1>6. m \in LawfulMovements
  <2>1. req.kind \in Kinds /\ req.qty \in Int /\ lvl.seq + 1 \in Nat \ {0}
    BY <1>1, <1>3 DEF TypedRequest, Levels
  <2> HIDE DEF req, lvl, v
  <2>2. m \in Movements
    BY <1>1, <1>4, <2>1 DEF Movements
  <2> QED
    BY <1>4, <2>2 DEF LawfulMovements
<1> HIDE DEF req, lvl, v, lvl2, m
<1>7. work' \in [Sessions -> [Keys -> LawfulLevels]]
  BY <1>1, <1>4, <1>5 DEF LawfulState, SessionsOK
<1>8. out' \in [Sessions -> Seq(LawfulMovements)]
  <2>1. \A t \in Sessions : out[t] \in Seq(LawfulMovements)
    BY DEF LawfulState, SessionsOK
  <2>2. Append(out[s], m) \in Seq(LawfulMovements)
    BY <1>6, <2>1
  <2> QED
    BY <1>5, <2>1, <2>2 DEF LawfulState, SessionsOK
<1> QED
  BY <1>5, <1>7, <1>8 DEF LawfulState, SessionsOK, CommittedOK, committed

LEMMA CommitLawful ==
  ASSUME LawfulState, NEW s \in Sessions, Commit(s)
  PROVE  LawfulState'
<1>1. SessionsOK'
  BY ReleaseLawful DEF Commit, LawfulState
<1>2. level' \in [Keys -> LawfulLevels]
  <2>1. \A k \in Keys : Published(s, k) \in LawfulLevels
    BY DEF Published, LawfulState, SessionsOK, CommittedOK
  <2> QED
    BY <2>1 DEF Commit
<1>3. ledger' \subseteq LawfulMovements
  BY WrittenLawful DEF Commit, LawfulState, CommittedOK
<1>4. cmd[s] \in Commands
  BY DEF Commit, Applied, LawfulState, SessionsOK
<1>5. DOMAIN gl' = DOMAIN docs'
  BY DEF Commit, PostEntry, With, LawfulState, CommittedOK
<1>6. \A d \in DOMAIN docs' : docs'[d] \in Commands /\ docs'[d].doc = d
  BY <1>4 DEF Commit, With, LawfulState, CommittedOK
<1> QED
  BY <1>1, <1>2, <1>3, <1>5, <1>6 DEF Commit, LawfulState, CommittedOK

-----------------------------------------------------------------------------
(* Every step preserves the lawful state.                                   *)

LEMMA QuietSteps ==
  ASSUME LawfulState, NEW s \in Sessions,
         \/ \E c \in Commands : Submit(s, c)
         \/ Begin(s) \/ LockTargets(s) \/ InsertHeader(s) \/ LockRow(s) \/ RowsLocked(s)
  PROVE  LawfulState'
<1> USE DEF LawfulState, CommittedOK, SessionsOK, committed
<1>1. ASSUME NEW c \in Commands, Submit(s, c) PROVE LawfulState'
  BY <1>1, LedgerAssumption DEF Submit
<1>2. CASE Begin(s)
  BY <1>2 DEF Begin
<1>3. CASE LockTargets(s)
  BY <1>3 DEF LockTargets
<1>4. CASE InsertHeader(s)
  BY <1>4 DEF InsertHeader
<1>5. CASE LockRow(s)
  <2>1. PICK k \in Keys : /\ rows' = [rows EXCEPT ![s] = @ \cup {k}]
                           /\ work' = [work EXCEPT ![s][k] = level[k]]
    BY <1>5 DEF LockRow
  <2>2. UNCHANGED <<committed, archived, pc, cmd, quote, out, submits>>
    BY <1>5 DEF LockRow
  <2>3. work' \in [Sessions -> [Keys -> LawfulLevels]]
    BY <2>1, <2>2
  <2>4. rows' \in [Sessions -> SUBSET Keys]
    BY <2>1, <2>2
  <2> QED
    BY <2>2, <2>3, <2>4
<1>6. CASE RowsLocked(s)
  BY <1>6 DEF RowsLocked
<1> QED
  BY <1>1, <1>2, <1>3, <1>4, <1>5, <1>6

LEMMA EndingSteps ==
  ASSUME LawfulState, NEW s \in Sessions, AnswerFromStore(s) \/ Refuse(s) \/ Crash(s)
  PROVE  LawfulState'
<1>1. Release(s) /\ UNCHANGED <<committed, archived, submits>>
  BY DEF AnswerFromStore, Refuse, Crash
<1>2. SessionsOK'
  BY <1>1, ReleaseLawful DEF LawfulState
<1> QED
  BY <1>1, <1>2 DEF LawfulState, CommittedOK, committed

LEMMA ArchiveSteps ==
  ASSUME LawfulState, NEW t, ArchiveTarget(t) \/ ArchiveProduct(t)
  PROVE  LawfulState'
BY DEF ArchiveTarget, ArchiveProduct, LawfulState, CommittedOK, SessionsOK, committed

LEMMA StepLawful == LawfulState /\ [Next]_vars => LawfulState'
<1> SUFFICES ASSUME LawfulState, [Next]_vars PROVE LawfulState'
  OBVIOUS
<1>1. ASSUME NEW s \in Sessions, SessionStep(s) PROVE LawfulState'
  BY <1>1, QuietSteps, EndingSteps, ApplyRequestLawful, CommitLawful DEF SessionStep
<1>2. ASSUME NEW s \in Sessions, NEW c \in Commands, Submit(s, c) PROVE LawfulState'
  BY <1>2, QuietSteps
<1>3. ASSUME NEW s \in Sessions, Crash(s) PROVE LawfulState'
  BY <1>3, EndingSteps
<1>4. ASSUME NEW t, ArchiveTarget(t) \/ ArchiveProduct(t) PROVE LawfulState'
  BY <1>4, ArchiveSteps
<1>5. CASE UNCHANGED vars
  BY <1>5 DEF vars, LawfulState, CommittedOK, SessionsOK, committed
<1> QED
  BY <1>1, <1>2, <1>3, <1>4, <1>5 DEF Next

LEMMA LawfulInvariant == Spec => []LawfulState
<1>1. Init => LawfulState
  BY InitLawful
<1>2. LawfulState /\ [Next]_vars => LawfulState'
  BY StepLawful
<1> QED
  BY <1>1, <1>2, PTL DEF Spec

\* Type correctness: whatever the sessions do, levels, movements, documents and
\* postings have their shapes, and a document has exactly one posting.
THEOREM TypeCorrect == Spec => []TypeOK
<1>1. LawfulState => TypeOK
  <2> SUFFICES ASSUME LawfulState PROVE TypeOK
    OBVIOUS
  <2>1. LawfulMovements \subseteq Movements /\ LawfulLevels \subseteq Levels
    BY DEF LawfulMovements, LawfulLevels
  <2>2. \A s \in Sessions : out[s] \in Seq(Movements)
    BY <2>1 DEF LawfulState, SessionsOK
  <2>3. out \in [Sessions -> Seq(Movements)]
    BY <2>2 DEF LawfulState, SessionsOK
  <2> QED
    BY <2>1, <2>3 DEF LawfulState, CommittedOK, SessionsOK, TypeOK
<1> QED
  BY <1>1, LawfulInvariant, PTL

\* No command, however it interleaves, oversells a key, takes more value from it
\* than it holds, leaves value on an empty key or a stale average.
THEOREM LevelsStayLawful == Spec => []LevelsLawful
<1>1. LawfulState => LevelsLawful
  BY DEF LawfulState, CommittedOK, LawfulLevels, LevelsLawful
<1> QED
  BY <1>1, LawfulInvariant, PTL

-----------------------------------------------------------------------------
(* The second invariant: a stock row has one writer, and what the writer    *)
(* has written continues the row's committed numbering.                     *)

\* The movements of ms on k are numbered first, first + 1, ..., last.
Numbered(ms, k, first, last) ==
  /\ {m.seq : m \in {n \in ms : n.key = k}} = first..last
  /\ \A m, n \in ms : m.key = k /\ n.key = k /\ m.seq = n.seq => m = n

LedgerNumbered == \A k \in Keys : Numbered(ledger, k, 1, level[k].seq)

WriterOf(s) ==
  /\ pc[s] = "apply" => KeysOf(cmd[s]) \subseteq rows[s]
  /\ \A m \in Written(s) : m.key \in rows[s]
  /\ \A k \in rows[s] :
       /\ level[k].seq <= work[s][k].seq
       /\ Numbered(Written(s), k, level[k].seq + 1, work[s][k].seq)

Serialised ==
  /\ RowsExclusive
  /\ ViewsCurrent
  /\ LedgerNumbered
  /\ \A s \in Sessions : WriterOf(s)

LEMMA InitSerialised == Init => Serialised
<1> SUFFICES ASSUME Init PROVE Serialised
  OBVIOUS
<1>1. RowsExclusive /\ ViewsCurrent
  BY DEF Init, RowsExclusive, ViewsCurrent
<1>2. LedgerNumbered
  <2>1. \A k \in Keys : level[k].seq = 0
    BY DEF Init, EmptyLevel
  <2> QED
    BY <2>1 DEF Init, LedgerNumbered, Numbered
<1>3. ASSUME NEW s \in Sessions PROVE WriterOf(s)
  <2>1. Written(s) = {} /\ rows[s] = {} /\ pc[s] = "idle"
    BY DEF Init, Written
  <2> QED
    BY <2>1 DEF WriterOf
<1> QED
  BY <1>1, <1>2, <1>3 DEF Serialised

\* A session that ends holds no row and has written nothing.
LEMMA Released ==
  ASSUME SessionsOK, NEW s \in Sessions, Release(s)
  PROVE  /\ pc'[s] = "idle" /\ rows'[s] = {} /\ Written(s)' = {}
         /\ \A t \in Sessions \ {s} :
              /\ pc'[t] = pc[t] /\ cmd'[t] = cmd[t] /\ rows'[t] = rows[t]
              /\ work'[t] = work[t] /\ Written(t)' = Written(t)
<1>1. /\ pc'[s] = "idle" /\ rows'[s] = {} /\ out'[s] = <<>>
      /\ \A t \in Sessions \ {s} :
           /\ pc'[t] = pc[t] /\ cmd'[t] = cmd[t] /\ rows'[t] = rows[t]
           /\ work'[t] = work[t] /\ out'[t] = out[t]
  BY DEF SessionsOK, Release
<1>2. Written(s)' = {}
  BY <1>1 DEF Written
<1>3. \A t \in Sessions \ {s} : Written(t)' = Written(t)
  BY <1>1 DEF Written
<1> QED
  BY <1>1, <1>2, <1>3

LEMMA ReleaseSerialised ==
  ASSUME LawfulState, Serialised, NEW s \in Sessions, Release(s),
         UNCHANGED <<level, ledger>>
  PROVE  Serialised'
<1>1. /\ pc'[s] = "idle" /\ rows'[s] = {} /\ Written(s)' = {}
      /\ \A t \in Sessions \ {s} :
           /\ pc'[t] = pc[t] /\ cmd'[t] = cmd[t] /\ rows'[t] = rows[t]
           /\ work'[t] = work[t] /\ Written(t)' = Written(t)
  BY Released DEF LawfulState
<1>2. RowsExclusive'
  BY <1>1 DEF Serialised, RowsExclusive
<1>3. ViewsCurrent'
  BY <1>1 DEF Serialised, ViewsCurrent
<1>4. LedgerNumbered'
  BY DEF Serialised, LedgerNumbered
<1>5. ASSUME NEW t \in Sessions PROVE WriterOf(t)'
  <2>1. CASE t = s
    BY <1>1, <2>1 DEF WriterOf
  <2>2. CASE t # s
    BY <1>1, <2>2 DEF WriterOf, Serialised
  <2> QED
    BY <2>1, <2>2
<1> QED
  BY <1>2, <1>3, <1>4, <1>5 DEF Serialised

\* Steps that leave rows, private views and committed state alone.
LEMMA QuietSerialised ==
  ASSUME LawfulState, Serialised, NEW s \in Sessions,
         \/ \E c \in Commands : Submit(s, c)
         \/ Begin(s) \/ LockTargets(s) \/ InsertHeader(s) \/ RowsLocked(s)
  PROVE  Serialised'
<1>1. UNCHANGED <<level, ledger, rows, work, out>>
  BY DEF Submit, Begin, LockTargets, InsertHeader, RowsLocked, committed
<1>2. \A t \in Sessions : Written(t)' = Written(t)
  BY <1>1 DEF Written
<1>3. RowsExclusive' /\ ViewsCurrent' /\ LedgerNumbered'
  BY <1>1, <1>2 DEF Serialised, RowsExclusive, ViewsCurrent, LedgerNumbered
<1>4. \A t \in Sessions : pc'[t] = "apply" => KeysOf(cmd'[t]) \subseteq rows'[t]
  <2>1. CASE \E c \in Commands : Submit(s, c)
    BY <1>1, <2>1 DEF Submit, LawfulState, SessionsOK, Serialised, WriterOf
  <2>2. CASE Begin(s) \/ LockTargets(s) \/ InsertHeader(s)
    BY <1>1, <2>2 DEF Begin, LockTargets, InsertHeader, LawfulState, SessionsOK, Serialised, WriterOf
  <2>3. CASE RowsLocked(s)
    BY <1>1, <2>3 DEF RowsLocked, AllRowsHeld, LawfulState, SessionsOK, Serialised, WriterOf
  <2> QED
    BY <2>1, <2>2, <2>3
<1>5. \A t \in Sessions : WriterOf(t)'
  BY <1>1, <1>2, <1>4 DEF Serialised, WriterOf
<1> QED
  BY <1>3, <1>5 DEF Serialised

LEMMA LockRowSerialised ==
  ASSUME LawfulState, Serialised, NEW s \in Sessions, LockRow(s)
  PROVE  Serialised'
<1>1. PICK k \in Keys : /\ k \notin rows[s] /\ RowFree(s, k)
                       /\ rows' = [rows EXCEPT ![s] = @ \cup {k}]
                       /\ work' = [work EXCEPT ![s][k] = level[k]]
  BY DEF LockRow, NextRow, MissingRows
<1>2. UNCHANGED <<level, ledger, pc, cmd, out>> /\ pc[s] = "rows"
  BY DEF LockRow, committed
<1>3. \A t \in Sessions : Written(t)' = Written(t)
  BY <1>2 DEF Written
<1>4. /\ rows'[s] = rows[s] \cup {k}
      /\ \A t \in Sessions \ {s} : rows'[t] = rows[t] /\ work'[t] = work[t]
      /\ work'[s][k] = level[k]
      /\ \A j \in Keys \ {k} : work'[s][j] = work[s][j]
  BY <1>1 DEF LawfulState, SessionsOK
<1>5. \A t \in Sessions : rows[t] \subseteq Keys
  BY DEF LawfulState, SessionsOK
<1>6. RowsExclusive'
  BY <1>1, <1>4 DEF Serialised, RowsExclusive, RowFree
<1>7. ViewsCurrent'
  <2> SUFFICES ASSUME NEW t \in Sessions, NEW j \in rows'[t], \A m \in Written(t)' : m.key # j
               PROVE  work'[t][j] = level'[j]
    BY DEF ViewsCurrent
  <2>1. CASE t = s /\ j = k
    BY <1>2, <1>4, <2>1
  <2>2. CASE ~(t = s /\ j = k)
    <3>1. j \in rows[t] /\ work'[t][j] = work[t][j]
      BY <1>4, <1>5, <2>2
    <3> QED
      BY <1>2, <1>3, <3>1 DEF Serialised, ViewsCurrent
  <2> QED
    BY <2>1, <2>2
<1>8. LedgerNumbered'
  BY <1>2 DEF Serialised, LedgerNumbered
<1>9. ASSUME NEW t \in Sessions PROVE WriterOf(t)'
  <2>1. CASE t # s
    BY <1>2, <1>3, <1>4, <2>1 DEF Serialised, WriterOf
  <2>2. CASE t = s
    <3>1. WriterOf(s)
      BY DEF Serialised
    <3>2. {m \in Written(s) : m.key = k} = {}
      BY <1>1, <3>1 DEF WriterOf
    <3>3. level[k].seq \in Nat
      BY DEF LawfulState, CommittedOK, LawfulLevels, Levels
    <3>4. Numbered(Written(s), k, level[k].seq + 1, level[k].seq)
      BY <3>2, <3>3 DEF Numbered
    <3>5. \A j \in rows'[s] : /\ level[j].seq <= work'[s][j].seq
                             /\ Numbered(Written(s), j, level[j].seq + 1, work'[s][j].seq)
      BY <1>4, <1>5, <3>1, <3>3, <3>4 DEF WriterOf
    <3> QED
      BY <1>2, <1>3, <1>4, <2>2, <3>1, <3>5 DEF WriterOf
  <2> QED
    BY <2>1, <2>2
<1> QED
  BY <1>6, <1>7, <1>8, <1>9 DEF Serialised

\* One more movement numbered next.
LEMMA NumberedNext ==
  ASSUME NEW ms, NEW k, NEW first \in Int, NEW last \in Int, first <= last + 1,
         Numbered(ms, k, first, last), NEW m, m.key = k, m.seq = last + 1
  PROVE  Numbered(ms \cup {m}, k, first, last + 1)
<1> DEFINE on == {n \in ms : n.key = k}
           on2 == {n \in ms \cup {m} : n.key = k}
<1>1. on2 = on \cup {m}
  OBVIOUS
<1>2. {n.seq : n \in on} = first..last
  BY DEF Numbered
<1>3. {n.seq : n \in on2} = {n.seq : n \in on} \cup {last + 1}
  BY <1>1
<1>4. (first..last) \cup {last + 1} = first..(last + 1)
  OBVIOUS
<1>5. ASSUME NEW x \in on2, NEW y \in on2, x.seq = y.seq PROVE x = y
  <2>1. \A n \in on : n.seq \in first..last
    BY <1>2
  <2>2. \A n \in on : n.seq # last + 1
    BY <2>1
  <2> QED
    BY <1>1, <1>5, <2>2 DEF Numbered
<1> QED
  BY <1>2, <1>3, <1>4, <1>5 DEF Numbered

\* A movement on another key does not matter.
LEMMA NumberedElsewhere ==
  ASSUME NEW ms, NEW k, NEW first, NEW last, Numbered(ms, k, first, last), NEW m, m.key # k
  PROVE  Numbered(ms \cup {m}, k, first, last)
<1>1. {n \in ms \cup {m} : n.key = k} = {n \in ms : n.key = k}
  OBVIOUS
<1> QED
  BY <1>1 DEF Numbered

LEMMA ApplyRequestSerialised ==
  ASSUME LawfulState, Serialised, NEW s \in Sessions, ApplyRequest(s)
  PROVE  Serialised'
<1> DEFINE req == NextRequest(s)
           lvl == work[s][req.key]
           v == Valued(lvl, req, PairOf(s))
           lvl2 == ApplyMovement(lvl, req.qty, v.value)
           m == [doc |-> req.doc, line |-> req.line, kind |-> req.kind, key |-> req.key,
                 qty |-> req.qty, value |-> v.value, snap |-> v.snap, seq |-> lvl.seq + 1]
<1>1. /\ work' = [work EXCEPT ![s][req.key] = lvl2]
      /\ out' = [out EXCEPT ![s] = Append(@, m)]
      /\ UNCHANGED <<level, ledger, pc, cmd, rows>>
  BY DEF ApplyRequest, committed
<1>2. req.key \in Keys /\ lvl.seq \in Nat /\ pc[s] = "apply"
  BY ApplyingTyped DEF ApplyRequest, Applying, LawfulLevels, Levels
<1>3. req.key \in rows[s]
  <2>1. cmd[s] \in Commands /\ WellFormed(cmd[s])
    BY <1>2, LedgerAssumption DEF LawfulState, SessionsOK
  <2>2. out[s] \in Seq(LawfulMovements) /\ Len(out[s]) \in Nat
    BY DEF LawfulState, SessionsOK
  <2>3. Len(out[s]) + 1 \in DOMAIN Requests(cmd[s])
    BY <2>1, <2>2, RequestsTyped DEF ApplyRequest, Applying
  <2>4. req.key \in KeysOf(cmd[s])
    BY <2>3 DEF KeysOf, NextRequest
  <2> QED
    BY <1>2, <2>4 DEF Serialised, WriterOf
<1>4. lvl2.seq = lvl.seq + 1
  BY DEF ApplyMovement
<1>5. m.key = req.key /\ m.seq = lvl.seq + 1
  OBVIOUS
<1>6. Written(s)' = Written(s) \cup {m}
  <2>1. out[s] \in Seq(LawfulMovements) /\ out'[s] = Append(out[s], m)
    BY <1>1 DEF LawfulState, SessionsOK
  <2> HIDE DEF m
  <2>2. /\ DOMAIN out'[s] = DOMAIN out[s] \cup {Len(out[s]) + 1}
        /\ \A i \in DOMAIN out[s] : out'[s][i] = out[s][i]
        /\ out'[s][Len(out[s]) + 1] = m
    BY <2>1
  <2> QED
    BY <2>2 DEF Written
<1> HIDE DEF req, lvl, v, lvl2, m
<1>7. /\ \A t \in Sessions \ {s} : work'[t] = work[t] /\ Written(t)' = Written(t)
      /\ work'[s][req.key] = lvl2
      /\ \A j \in Keys \ {req.key} : work'[s][j] = work[s][j]
  BY <1>1, <1>2 DEF LawfulState, SessionsOK, Written
<1>8. \A t \in Sessions : rows[t] \subseteq Keys
  BY DEF LawfulState, SessionsOK
<1>9. RowsExclusive' /\ LedgerNumbered'
  BY <1>1 DEF Serialised, RowsExclusive, LedgerNumbered
<1>10. ViewsCurrent'
  <2> SUFFICES ASSUME NEW t \in Sessions, NEW j \in rows[t], \A n \in Written(t)' : n.key # j
               PROVE  work'[t][j] = level[j]
    BY <1>1 DEF ViewsCurrent
  <2>1. work'[t][j] = work[t][j]
    BY <1>5, <1>6, <1>7, <1>8
  <2>2. \A n \in Written(t) : n.key # j
    BY <1>6, <1>7
  <2> QED
    BY <2>1, <2>2 DEF Serialised, ViewsCurrent
<1>11. ASSUME NEW t \in Sessions PROVE WriterOf(t)'
  <2>1. CASE t # s
    BY <1>1, <1>7, <2>1 DEF Serialised, WriterOf
  <2>2. CASE t = s
    <3>1. WriterOf(s)
      BY DEF Serialised
    <3>2. ASSUME NEW j \in rows[s]
          PROVE  /\ level[j].seq <= work'[s][j].seq
                 /\ Numbered(Written(s)', j, level[j].seq + 1, work'[s][j].seq)
      <4>1. level[j].seq \in Nat /\ level[j].seq <= work[s][j].seq
        BY <1>8, <3>1 DEF WriterOf, LawfulState, CommittedOK, LawfulLevels, Levels
      <4>2. CASE j = req.key
        <5>1. work[s][j] = lvl /\ work'[s][j].seq = lvl.seq + 1
          BY <1>4, <1>7, <4>2 DEF lvl
        <5>2. Numbered(Written(s), j, level[j].seq + 1, lvl.seq)
          BY <3>1, <5>1 DEF WriterOf
        <5>3. Numbered(Written(s) \cup {m}, j, level[j].seq + 1, lvl.seq + 1)
          BY <1>2, <1>5, <4>1, <4>2, <5>1, <5>2, NumberedNext
        <5> QED
          BY <1>2, <1>6, <4>1, <5>1, <5>3
      <4>3. CASE j # req.key
        <5>1. work'[s][j] = work[s][j]
          BY <1>7, <1>8, <4>3
        <5>2. Numbered(Written(s) \cup {m}, j, level[j].seq + 1, work[s][j].seq)
          BY <1>5, <3>1, <4>3, NumberedElsewhere DEF WriterOf
        <5> QED
          BY <1>6, <4>1, <5>1, <5>2
      <4> QED
        BY <4>2, <4>3
    <3>3. \A n \in Written(s)' : n.key \in rows[s]
      BY <1>3, <1>5, <1>6, <3>1 DEF WriterOf
    <3>4. WriterOf(s)'
      BY <1>1, <3>1, <3>2, <3>3 DEF WriterOf
    <3> QED
      BY <2>2, <3>4
  <2> QED
    BY <2>1, <2>2
<1> QED
  BY <1>9, <1>10, <1>11 DEF Serialised

\* Two consecutive numberings join.
LEMMA NumberedJoin ==
  ASSUME NEW ms, NEW ns, NEW k, NEW mid \in Nat, NEW last \in Nat, mid <= last,
         Numbered(ms, k, 1, mid), Numbered(ns, k, mid + 1, last)
  PROVE  Numbered(ms \cup ns, k, 1, last)
<1> DEFINE onM == {n \in ms : n.key = k}
           onN == {n \in ns : n.key = k}
           both == {n \in ms \cup ns : n.key = k}
<1>1. both = onM \cup onN
  OBVIOUS
<1>2. {n.seq : n \in onM} = 1..mid /\ {n.seq : n \in onN} = (mid + 1)..last
  BY DEF Numbered
<1>3. {n.seq : n \in both} = {n.seq : n \in onM} \cup {n.seq : n \in onN}
  BY <1>1
<1>4. (1..mid) \cup ((mid + 1)..last) = 1..last
  OBVIOUS
<1>5. ASSUME NEW x \in both, NEW y \in both, x.seq = y.seq PROVE x = y
  <2>1. (\A n \in onM : n.seq \in 1..mid) /\ (\A n \in onN : n.seq \in (mid + 1)..last)
    BY <1>2
  <2>2. \A a \in onM, b \in onN : a.seq # b.seq
    BY <2>1
  <2> QED
    BY <1>1, <1>5, <2>2 DEF Numbered
<1> QED
  BY <1>2, <1>3, <1>4, <1>5 DEF Numbered

LEMMA CommitSerialised ==
  ASSUME LawfulState, Serialised, NEW s \in Sessions, Commit(s)
  PROVE  Serialised'
<1>1. /\ pc'[s] = "idle" /\ rows'[s] = {} /\ Written(s)' = {}
      /\ \A t \in Sessions \ {s} :
           /\ pc'[t] = pc[t] /\ cmd'[t] = cmd[t] /\ rows'[t] = rows[t]
           /\ work'[t] = work[t] /\ Written(t)' = Written(t)
  BY Released DEF LawfulState, Commit
<1>2. /\ ledger' = ledger \cup Written(s)
      /\ \A k \in rows[s] : level'[k] = work[s][k]
      /\ \A k \in Keys \ rows[s] : level'[k] = level[k]
  BY DEF Commit, Published, LawfulState, SessionsOK
<1>3. \A t \in Sessions : rows[t] \subseteq Keys
  BY DEF LawfulState, SessionsOK
<1>4. \A t \in Sessions \ {s} : \A k \in rows[t] : level'[k] = level[k]
  BY <1>2, <1>3 DEF Serialised, RowsExclusive
<1>5. RowsExclusive'
  BY <1>1 DEF Serialised, RowsExclusive
<1>6. ViewsCurrent'
  <2> SUFFICES ASSUME NEW t \in Sessions, NEW k \in rows'[t], \A m \in Written(t)' : m.key # k
               PROVE  work'[t][k] = level'[k]
    BY DEF ViewsCurrent
  <2>1. t # s
    BY <1>1
  <2> QED
    BY <1>1, <1>4, <2>1 DEF Serialised, ViewsCurrent
<1>7. LedgerNumbered'
  <2> SUFFICES ASSUME NEW k \in Keys PROVE Numbered(ledger', k, 1, level'[k].seq)
    BY DEF LedgerNumbered
  <2>1. Numbered(ledger, k, 1, level[k].seq) /\ WriterOf(s)
    BY DEF Serialised, LedgerNumbered
  <2>2. level[k].seq \in Nat /\ work[s][k].seq \in Nat
    BY DEF LawfulState, CommittedOK, SessionsOK, LawfulLevels, Levels
  <2>3. CASE k \in rows[s]
    BY <1>2, <2>1, <2>2, <2>3, NumberedJoin DEF WriterOf
  <2>4. CASE k \notin rows[s]
    <3>1. {m \in ledger \cup Written(s) : m.key = k} = {m \in ledger : m.key = k}
      BY <2>1, <2>4 DEF WriterOf
    <3> QED
      BY <1>2, <2>1, <2>4, <3>1 DEF Numbered
  <2> QED
    BY <2>3, <2>4
<1>8. ASSUME NEW t \in Sessions PROVE WriterOf(t)'
  <2>1. CASE t = s
    BY <1>1, <2>1 DEF WriterOf
  <2>2. CASE t # s
    BY <1>1, <1>4, <2>2 DEF WriterOf, Serialised
  <2> QED
    BY <2>1, <2>2
<1> QED
  BY <1>5, <1>6, <1>7, <1>8 DEF Serialised

LEMMA ArchiveSerialised ==
  ASSUME Serialised, UNCHANGED <<level, ledger, pc, cmd, rows, work, out>>
  PROVE  Serialised'
<1>1. \A t \in Sessions : Written(t)' = Written(t)
  BY DEF Written
<1>2. RowsExclusive' /\ ViewsCurrent' /\ LedgerNumbered'
  BY <1>1 DEF Serialised, RowsExclusive, ViewsCurrent, LedgerNumbered
<1>3. \A t \in Sessions : WriterOf(t)'
  BY <1>1 DEF Serialised, WriterOf
<1> QED
  BY <1>2, <1>3 DEF Serialised

LEMMA StepSerialised == LawfulState /\ Serialised /\ [Next]_vars => Serialised'
<1> SUFFICES ASSUME LawfulState, Serialised, [Next]_vars PROVE Serialised'
  OBVIOUS
<1>1. ASSUME NEW s \in Sessions, AnswerFromStore(s) \/ Refuse(s) \/ Crash(s) PROVE Serialised'
  <2>1. Release(s) /\ UNCHANGED <<level, ledger>>
    BY <1>1 DEF AnswerFromStore, Refuse, Crash, committed
  <2> QED
    BY <2>1, ReleaseSerialised
<1>2. ASSUME NEW s \in Sessions, SessionStep(s) PROVE Serialised'
  BY <1>1, <1>2, QuietSerialised, LockRowSerialised, ApplyRequestSerialised, CommitSerialised
     DEF SessionStep
<1>3. ASSUME NEW s \in Sessions, NEW c \in Commands, Submit(s, c) PROVE Serialised'
  BY <1>3, QuietSerialised
<1>4. ASSUME NEW t, ArchiveTarget(t) \/ ArchiveProduct(t) PROVE Serialised'
  BY <1>4, ArchiveSerialised DEF ArchiveTarget, ArchiveProduct, committed
<1>5. CASE UNCHANGED vars
  BY <1>5, ArchiveSerialised DEF vars, committed
<1> QED
  BY <1>1, <1>2, <1>3, <1>4, <1>5 DEF Next

LEMMA SerialisedInvariant == Spec => [](LawfulState /\ Serialised)
<1>1. Init => LawfulState /\ Serialised
  BY InitLawful, InitSerialised
<1>2. LawfulState /\ Serialised /\ [Next]_vars => (LawfulState /\ Serialised)'
  BY StepLawful, StepSerialised
<1> QED
  BY <1>1, <1>2, PTL DEF Spec

\* A stock row has one writer at a time, which computes on the committed row:
\* SELECT ... FOR UPDATE held to the commit excludes the lost update.
THEOREM NoUpdateIsLost == Spec => []NoLostUpdate
<1>1. Serialised => NoLostUpdate
  BY DEF Serialised, NoLostUpdate
<1> QED
  BY <1>1, SerialisedInvariant, PTL

\* The movements of every key are numbered without gap or repetition up to the
\* cached last_stock_seq, over crashes, refusals and races.
THEOREM SequenceGapless == Spec => []StockSeqGapless
<1>1. Serialised => StockSeqGapless
  <2> SUFFICES ASSUME Serialised, NEW k \in Keys
               PROVE  LET ms == {m \in ledger : m.key = k}
                      IN /\ {m.seq : m \in ms} = 1..level[k].seq
                         /\ \A m, n \in ms : m.seq = n.seq => m = n
    BY DEF StockSeqGapless
  <2> QED
    BY DEF Serialised, LedgerNumbered, Numbered
<1> QED
  BY <1>1, SerialisedInvariant, PTL

-----------------------------------------------------------------------------
(* Refinement.  A session that applies its requests is always at some      *)
(* point of the run that its command would make alone on the committed     *)
(* levels, whatever else commits meanwhile; when it commits, that run is   *)
(* complete.                                                               *)

\* AtomicStock is instantiated without substitution: its operators are those of
\* StockCommands and StockValuation under another name.
LEMMA SameRounding ==
  \A n, d : Atomic!RoundHalfEven(n, d) = RoundHalfEven(n, d)
BY DEF Atomic!RoundHalfEven, RoundHalfEven, Atomic!HalfEvenNat, HalfEvenNat

LEMMA SameValuation ==
  ASSUME NEW lvl, NEW req, NEW pair
  PROVE  Atomic!Valued(lvl, req, pair) = Valued(lvl, req, pair)
BY SameRounding
   DEF Atomic!Valued, Valued, Atomic!Outbound, Outbound, Atomic!Inbound, Inbound, Atomic!Paired, Paired

LEMMA SameMovement ==
  ASSUME NEW lvl, NEW qty, NEW value
  PROVE  Atomic!ApplyMovement(lvl, qty, value) = ApplyMovement(lvl, qty, value)
BY SameRounding DEF Atomic!ApplyMovement, ApplyMovement, Atomic!AverageUnitCost, AverageUnitCost

LEMMA SameRequests ==
  ASSUME NEW c
  PROVE  Atomic!Requests(c) = Requests(c)
<1>1. \A j : Atomic!RequestAt(c, j) = RequestAt(c, j)
  BY Zenon DEF Atomic!RequestAt, RequestAt, Atomic!LineOf, LineOf, Atomic!Request, Request
<1> QED  BY <1>1 DEF Atomic!Requests, Requests

LEMMA SamePair ==
  ASSUME NEW c, NEW req, NEW moves
  PROVE  Atomic!Pair(c, req, moves) = Pair(c, req, moves)
BY Zenon DEF Atomic!Pair, Pair

LEMMA SameSum == \A q : Atomic!SumOf(q) = SumOf(q)
BY Zenon DEF Atomic!SumOf, SumOf

LEMMA SameAdmission ==
  ASSUME NEW lvl, NEW req, NEW pair
  PROVE  Atomic!Admissible(lvl, req, pair) = Admissible(lvl, req, pair)
<1>1. Atomic!ValuationAccepted(lvl, req, pair) = ValuationAccepted(lvl, req, pair)
  BY Zenon
     DEF Atomic!ValuationAccepted, ValuationAccepted, Atomic!TransferInAccepted, TransferInAccepted,
         Atomic!ReversalAccepted, ReversalAccepted, Atomic!OutboundAccepted, OutboundAccepted,
         Atomic!InboundAccepted, InboundAccepted
<1>2. Atomic!SignAllowed(req.kind, req.qty) = SignAllowed(req.kind, req.qty)
  BY Zenon DEF Atomic!SignAllowed, SignAllowed
<1>3. \A l, v : Atomic!InRange(l, v) = InRange(l, v)
  BY Zenon DEF Atomic!InRange, InRange, Atomic!Magnitude, Magnitude
<1>4. Atomic!Magnitude(req.qty) = Magnitude(req.qty)
  BY Zenon DEF Atomic!Magnitude, Magnitude
<1>5. Atomic!Valued(lvl, req, pair) = Valued(lvl, req, pair)
  BY SameValuation
<1>6. \A q, v : Atomic!ApplyMovement(lvl, q, v) = ApplyMovement(lvl, q, v)
  BY SameMovement
<1> QED  BY <1>1, <1>2, <1>3, <1>4, <1>5, <1>6, Zenon DEF Atomic!Admissible, Admissible

LEMMA SameTargets ==
  ASSUME NEW c
  PROVE  Atomic!TargetsOf(c) = TargetsOf(c) /\ Atomic!ProductsOf(c) = ProductsOf(c)
<1>1. Atomic!KeysOf(c) = KeysOf(c)
  BY SameRequests, Zenon DEF Atomic!KeysOf, KeysOf
<1> QED  BY <1>1, Zenon DEF Atomic!TargetsOf, TargetsOf, Atomic!ProductsOf, ProductsOf

-----------------------------------------------------------------------------
(* Functions defined by recursion over 0..n.  A function that satisfies the  *)
(* equation is the one defined: the definition chooses a function that       *)
(* satisfies it, and two that do agree at 0 and from i to i + 1.             *)

\* Induction, on the set of the indices for which something holds.
LEMMA UpTo ==
  ASSUME NEW n \in Nat, NEW T, 0 \in T,
         \A i \in 1..n : i - 1 \in T => i \in T
  PROVE  0..n \subseteq T
<1> SUFFICES ASSUME NEW j \in 0..n, j \notin T PROVE FALSE
  OBVIOUS
<1> DEFINE U == {i \in 0..n : i \notin T}
<1>1. U \subseteq Nat /\ U # {}
  OBVIOUS
<1>2. PICK x \in U : \A y \in U : ~(<<y, x>> \in OpToRel(<, Nat))
  BY <1>1, WFMin, NatLessThanWellFounded
<1>3. \A y \in U : ~(y < x)
  BY <1>1, <1>2 DEF OpToRel
<1>4. x # 0 /\ x - 1 \in 0..n /\ x \in 1..n
  OBVIOUS
<1>5. x - 1 \in T
  BY <1>3, <1>4
<1> QED  BY <1>4, <1>5

\* p are the partial sums of the first n elements of q.
PartialSums(p, q, n) ==
  /\ p \in [0..n -> Int]
  /\ p[0] = 0
  /\ \A i \in 1..n : p[i] = p[i - 1] + q[i]

\* The sum of a sequence is the last of its partial sums.
LEMMA SumIs ==
  ASSUME NEW q, NEW n \in Nat, Len(q) = n, NEW p, PartialSums(p, q, n)
  PROVE  SumOf(q) = p[n]
<1> USE DEF PartialSums
<1> DEFINE Partials(f) == f = [i \in 0..n |-> IF i = 0 THEN 0 ELSE f[i - 1] + q[i]]
           sum == CHOOSE f : Partials(f)
<1>1. Partials(p)
  <2>1. p = [i \in 0..n |-> p[i]]
    OBVIOUS
  <2>2. \A i \in 0..n : p[i] = IF i = 0 THEN 0 ELSE p[i - 1] + q[i]
    OBVIOUS
  <2> QED  BY <2>1, <2>2
<1>2. sum = [i \in 0..n |-> IF i = 0 THEN 0 ELSE sum[i - 1] + q[i]]
  BY <1>1
<1>3. SumOf(q) = sum[n]
  BY Zenon DEF SumOf
<1> HIDE DEF sum, Partials
<1>4. sum[0] = 0 /\ \A i \in 1..n : sum[i] = sum[i - 1] + q[i]
  <2>1. \A i \in 0..n : sum[i] = IF i = 0 THEN 0 ELSE sum[i - 1] + q[i]
    BY <1>2
  <2> QED  BY <2>1
<1> DEFINE T == {i \in 0..n : sum[i] = p[i]}
<1>5. 0..n \subseteq T
  <2>1. 0 \in T
    BY <1>4
  <2>2. ASSUME NEW i \in 1..n, i - 1 \in T PROVE i \in T
    <3>1. sum[i - 1] = p[i - 1] /\ i \in 0..n
      BY <2>2
    <3>2. sum[i] = sum[i - 1] + q[i] /\ p[i] = p[i - 1] + q[i]
      BY <1>4
    <3> QED  BY <3>1, <3>2
  <2> HIDE DEF T
  <2> QED  BY <2>1, <2>2, UpTo
<1> QED  BY <1>3, <1>5

\* The first i elements of a sequence.
Prefix(ms, i) == [j \in 1..i |-> ms[j]]

LEMMA PrefixGrows ==
  ASSUME NEW S, NEW ms \in Seq(S), NEW i \in 1..Len(ms)
  PROVE  Append(Prefix(ms, i - 1), ms[i]) = Prefix(ms, i)
<1>1. Prefix(ms, i - 1) \in Seq(S) /\ Len(Prefix(ms, i - 1)) = i - 1
  BY DEF Prefix
<1>2. /\ DOMAIN Append(Prefix(ms, i - 1), ms[i]) = 1..i
      /\ \A j \in 1..i : Append(Prefix(ms, i - 1), ms[i])[j] = ms[j]
  BY <1>1 DEF Prefix
<1>3. ms[i] \in S
  OBVIOUS
<1>4. Append(Prefix(ms, i - 1), ms[i]) \in Seq(S) /\ Prefix(ms, i) \in Seq(S)
  BY <1>1, <1>3 DEF Prefix
<1> QED  BY <1>2, <1>4 DEF Prefix

\* ms are the movements of the first requests of c, each admissible and valued on
\* the levels its predecessors leave: lv[0], lv[1], ...; base are the movements
\* stored before.
Trace(c, base, lv, ms) ==
  \A i \in 1..Len(ms) :
    LET req  == Requests(c)[i]
        lvl  == lv[i - 1][req.key]
        pair == Pair(c, req, base \cup {ms[j] : j \in 1..(i - 1)})
    IN /\ Admissible(lvl, req, pair)
       /\ ms[i] = Atomic!MovementOf(req, lvl, pair)
       /\ lv[i] = [lv[i - 1] EXCEPT ![req.key] = ApplyMovement(lvl, req.qty, ms[i].value)]

\* A complete trace on the committed levels is the run of AtomicStock.
LEMMA TraceIsRun ==
  ASSUME NEW c, NEW S, NEW ms \in Seq(S), NEW lv,
         Trace(c, ledger, lv, ms), lv[0] = level, Len(ms) = Len(Requests(c))
  PROVE  Atomic!Run(c) = [ok |-> TRUE, level |-> lv[Len(ms)], moves |-> ms]
<1> DEFINE n == Len(ms)
           After(i) == [ok |-> TRUE, level |-> lv[i], moves |-> Prefix(ms, i)]
           Runs(f) == f = [i \in 0..n |-> IF i = 0 THEN [ok |-> TRUE, level |-> level, moves |-> <<>>]
                                                  ELSE Atomic!Apply(c, i, f[i - 1])]
           w == [i \in 0..n |-> After(i)]
           run == CHOOSE f : Runs(f)
<1>1. n \in Nat
  OBVIOUS
<1>2. ASSUME NEW i \in 1..n PROVE Atomic!Apply(c, i, After(i - 1)) = After(i)
  <2> DEFINE r    == After(i - 1)
             req  == Requests(c)[i]
             lvl  == lv[i - 1][req.key]
             pair == Pair(c, req, ledger \cup {ms[j] : j \in 1..(i - 1)})
  <2>1. /\ Admissible(lvl, req, pair)
        /\ ms[i] = Atomic!MovementOf(req, lvl, pair)
        /\ lv[i] = [lv[i - 1] EXCEPT ![req.key] = ApplyMovement(lvl, req.qty, ms[i].value)]
    BY DEF Trace
  <2>2. {r.moves[j] : j \in DOMAIN r.moves} = {ms[j] : j \in 1..(i - 1)}
    BY DEF Prefix
  <2>3. Append(r.moves, ms[i]) = Prefix(ms, i)
    BY PrefixGrows
  <2>4. r.ok = TRUE /\ r.level = lv[i - 1]
    OBVIOUS
  <2> HIDE DEF r, After
  <2>5. Atomic!Requests(c)[i] = req /\ r.level[req.key] = lvl
    BY <2>4, SameRequests
  <2>6. Atomic!Pair(c, req, ledger \cup {r.moves[j] : j \in DOMAIN r.moves}) = pair
    BY <2>2, SamePair
  <2> HIDE DEF req, lvl, pair
  <2>7. Atomic!Admissible(lvl, req, pair)
    BY <2>1, SameAdmission
  <2>8. Atomic!ApplyMovement(lvl, req.qty, ms[i].value) = ApplyMovement(lvl, req.qty, ms[i].value)
    BY SameMovement
  <2>9. Atomic!Apply(c, i, r) = [ok |-> TRUE, level |-> lv[i], moves |-> Prefix(ms, i)]
    <3>1. Atomic!Apply(c, i, r) =
            [ok |-> TRUE,
             level |-> [r.level EXCEPT ![req.key] = Atomic!ApplyMovement(lvl, req.qty, ms[i].value)],
             moves |-> Append(r.moves, ms[i])]
      BY ONLY <2>1, <2>4, <2>5, <2>6, <2>7, Zenon DEF Atomic!Apply
    <3>2. [r.level EXCEPT ![req.key] = Atomic!ApplyMovement(lvl, req.qty, ms[i].value)] = lv[i]
      BY ONLY <2>1, <2>4, <2>8, Zenon
    <3> QED  BY ONLY <2>3, <3>1, <3>2, Zenon
  <2> QED  BY <2>9 DEF r, After
<1>3. w[0] = [ok |-> TRUE, level |-> level, moves |-> <<>>] /\ w = [i \in 0..n |-> w[i]]
  <2>1. Prefix(ms, 0) = <<>>
    BY DEF Prefix
  <2>2. 0 \in 0..n
    BY <1>1
  <2>3. w[0] = After(0)
    BY <2>2
  <2> QED  BY <2>1, <2>3
<1>4. \A i \in 1..n : w[i] = Atomic!Apply(c, i, w[i - 1])
  <2> SUFFICES ASSUME NEW i \in 1..n PROVE w[i] = Atomic!Apply(c, i, w[i - 1])
    OBVIOUS
  <2>1. w[i] = After(i) /\ w[i - 1] = After(i - 1)
    OBVIOUS
  <2> QED  BY <1>2, <2>1
<1>5. Runs(w)
  <2> HIDE DEF w, After
  <2>1. \A i \in 0..n : w[i] = IF i = 0 THEN [ok |-> TRUE, level |-> level, moves |-> <<>>]
                                       ELSE Atomic!Apply(c, i, w[i - 1])
    <3> SUFFICES ASSUME NEW i \in 0..n, i # 0 PROVE w[i] = Atomic!Apply(c, i, w[i - 1])
      BY <1>3
    <3>1. i \in 1..n
      BY <1>1
    <3> QED  BY <1>4, <3>1
  <2>2. [i \in 0..n |-> w[i]] = [i \in 0..n |-> IF i = 0 THEN [ok |-> TRUE, level |-> level, moves |-> <<>>]
                                                  ELSE Atomic!Apply(c, i, w[i - 1])]
    BY <2>1, Zenon
  <2>3. w = [i \in 0..n |-> IF i = 0 THEN [ok |-> TRUE, level |-> level, moves |-> <<>>]
                                   ELSE Atomic!Apply(c, i, w[i - 1])]
    BY <1>3, <2>2, Zenon
  <2> QED  BY <2>3
<1>6. run = [i \in 0..n |-> IF i = 0 THEN [ok |-> TRUE, level |-> level, moves |-> <<>>]
                                     ELSE Atomic!Apply(c, i, run[i - 1])]
  <2> HIDE DEF w
  <2> QED  BY <1>5
<1>7. Atomic!Run(c) = run[n]
  <2>1. Len(Atomic!Requests(c)) = n
    BY SameRequests
  <2>2. Atomic!RunOf(c) = run
    BY <2>1, Zenon DEF Atomic!RunOf
  <2> QED  BY <2>1, <2>2 DEF Atomic!Run
<1>8. w[n] = [ok |-> TRUE, level |-> lv[n], moves |-> ms]
  <2>1. Prefix(ms, n) = ms
    BY DEF Prefix
  <2> QED  BY <2>1
<1> HIDE DEF run, w, Runs, After
<1>9. \A i \in 0..n : run[i] = IF i = 0 THEN [ok |-> TRUE, level |-> level, moves |-> <<>>]
                                        ELSE Atomic!Apply(c, i, run[i - 1])
  BY <1>6
<1> DEFINE T == {i \in 0..n : run[i] = w[i]}
<1>10. 0..n \subseteq T
  <2>1. 0 \in T
    <3>1. 0 \in 0..n
      BY <1>1
    <3>2. run[0] = [ok |-> TRUE, level |-> level, moves |-> <<>>]
      BY <1>9, <3>1
    <3> QED  BY <1>3, <3>1, <3>2
  <2>2. ASSUME NEW i \in 1..n, i - 1 \in T PROVE i \in T
    <3>1. run[i - 1] = w[i - 1] /\ i \in 0..n /\ i # 0
      BY <2>2
    <3>2. run[i] = Atomic!Apply(c, i, run[i - 1])
      BY <1>9, <3>1
    <3> QED  BY <1>4, <3>1, <3>2
  <2> HIDE DEF T, n
  <2> QED  BY <1>1, <2>1, <2>2, UpTo
<1> QED  BY <1>7, <1>8, <1>10

-----------------------------------------------------------------------------
(* Traces: other keys and other documents do not matter, and a trace grows   *)
(* by the next request.                                                      *)

\* The levels lv on the keys held, those of around on the others.
Over(lv, n, held, around) ==
  [i \in 0..n |-> [k \in Keys |-> IF k \in held THEN lv[i][k] ELSE around[k]]]

LEMMA TraceOverHeldKeys ==
  ASSUME NEW c, NEW base, NEW S, NEW ms \in Seq(S), NEW held \in SUBSET Keys,
         NEW lv \in [0..Len(ms) -> [Keys -> Levels]], NEW around \in [Keys -> Levels],
         Trace(c, base, lv, ms), \A i \in 1..Len(ms) : Requests(c)[i].key \in held
  PROVE  Trace(c, base, Over(lv, Len(ms), held, around), ms)
<1> DEFINE over == [i \in 0..Len(ms) |-> [k \in Keys |-> IF k \in held THEN lv[i][k] ELSE around[k]]]
<1> SUFFICES ASSUME NEW i \in 1..Len(ms)
             PROVE  LET req  == Requests(c)[i]
                        lvl  == over[i - 1][req.key]
                        pair == Pair(c, req, base \cup {ms[j] : j \in 1..(i - 1)})
                    IN /\ Admissible(lvl, req, pair)
                       /\ ms[i] = Atomic!MovementOf(req, lvl, pair)
                       /\ over[i] = [over[i - 1] EXCEPT ![req.key] = ApplyMovement(lvl, req.qty, ms[i].value)]
  BY DEF Trace, Over
<1> DEFINE req  == Requests(c)[i]
           lvl  == lv[i - 1][req.key]
           pair == Pair(c, req, base \cup {ms[j] : j \in 1..(i - 1)})
           next == ApplyMovement(lvl, req.qty, ms[i].value)
<1>1. /\ Admissible(lvl, req, pair)
      /\ ms[i] = Atomic!MovementOf(req, lvl, pair)
      /\ lv[i] = [lv[i - 1] EXCEPT ![req.key] = next]
  BY DEF Trace
<1>2. i \in 0..Len(ms) /\ i - 1 \in 0..Len(ms) /\ req.key \in held /\ req.key \in Keys
  OBVIOUS
<1>3. over[i - 1][req.key] = lvl
  BY <1>2
<1>4. over[i] = [over[i - 1] EXCEPT ![req.key] = next]
  <2> HIDE DEF req, lvl, next
  <2>1. over[i] = [k \in Keys |-> IF k \in held THEN lv[i][k] ELSE around[k]]
    BY <1>2
  <2>2. over[i - 1] = [k \in Keys |-> IF k \in held THEN lv[i - 1][k] ELSE around[k]]
    BY <1>2
  <2>3. lv[i - 1] \in [Keys -> Levels]
    BY <1>2
  <2>4. \A k \in Keys : lv[i][k] = IF k = req.key THEN next ELSE lv[i - 1][k]
    BY <1>1, <2>3
  <2> HIDE DEF over
  <2> QED  BY <1>2, <2>1, <2>2, <2>4
<1> HIDE DEF over, req, lvl, pair, next
<1>5. QED
  BY <1>1, <1>3, <1>4 DEF req, lvl, pair, next

\* What a request says of its command: the paired kinds come from one operation.
LEMMA PairedKinds ==
  ASSUME NEW c \in Commands, NEW j \in DOMAIN Requests(c)
  PROVE  /\ Requests(c)[j].doc = c.doc
         /\ Requests(c)[j].kind = "transfer_in" => c.op = "transfer"
         /\ Requests(c)[j].kind = "purchase_reversal" => c.op = "reverse"
<1>1. WellFormed(c)
  BY LedgerAssumption
<1>2. Requests(c)[j].doc = c.doc /\ Requests(c)[j] = RequestAt(c, j)
  BY <1>1, RequestsTyped DEF RequestShape
<1> QED  BY <1>1, <1>2 DEF WellFormed, Operations, RequestAt, Request

\* Movements of other documents, none of them the purchase that is reversed.
Foreign(c, more) == \A m \in more : m.doc # c.doc /\ (c.op = "reverse" => m.doc # c.of)

LEMMA ForeignMovements ==
  ASSUME NEW c \in Commands, NEW j \in DOMAIN Requests(c), NEW moves, NEW more, Foreign(c, more)
  PROVE  Pair(c, Requests(c)[j], moves \cup more) = Pair(c, Requests(c)[j], moves)
<1> DEFINE req == Requests(c)[j]
           Sources(ms) == {m \in ms :
                    /\ m.line = req.line
                    /\ \/ req.kind = "transfer_in" /\ m.kind = "transfer_out" /\ m.doc = req.doc
                       \/ req.kind = "purchase_reversal" /\ m.kind = "purchase" /\ m.doc = c.of}
<1>1. req.doc = c.doc /\ (req.kind = "purchase_reversal" => c.op = "reverse")
  BY PairedKinds
<1>2. Sources(moves \cup more) = Sources(moves)
  BY <1>1 DEF Foreign
<1>3. \A ms : Pair(c, req, ms) = IF Sources(ms) = {} THEN None ELSE CHOOSE m \in Sources(ms) : TRUE
  BY Zenon DEF Pair
<1> HIDE DEF Sources, req
<1>4. Pair(c, req, moves \cup more) = Pair(c, req, moves)
  BY <1>2, <1>3
<1> QED  BY <1>4 DEF req

LEMMA TraceAmongOthers ==
  ASSUME NEW c \in Commands, NEW base, NEW more, NEW lv, NEW S, NEW ms \in Seq(S),
         Len(ms) <= Len(Requests(c)), Trace(c, base, lv, ms),
         \A m \in more : m.doc # c.doc /\ (c.op = "reverse" => m.doc # c.of)
  PROVE  Trace(c, base \cup more, lv, ms)
<1>1. ASSUME NEW i \in 1..Len(ms)
      PROVE  Pair(c, Requests(c)[i], (base \cup more) \cup {ms[j] : j \in 1..(i - 1)})
               = Pair(c, Requests(c)[i], base \cup {ms[j] : j \in 1..(i - 1)})
  <2>1. i \in DOMAIN Requests(c)
    BY LedgerAssumption, RequestsTyped
  <2>2. (base \cup more) \cup {ms[j] : j \in 1..(i - 1)} = (base \cup {ms[j] : j \in 1..(i - 1)}) \cup more
    OBVIOUS
  <2> DEFINE moves == base \cup {ms[j] : j \in 1..(i - 1)}
             rest == (base \cup more) \cup {ms[j] : j \in 1..(i - 1)}
  <2>3. rest = moves \cup more
    BY ONLY <2>2
  <2> HIDE DEF moves, rest
  <2>4. Pair(c, Requests(c)[i], moves \cup more) = Pair(c, Requests(c)[i], moves)
    <3>1. Foreign(c, more)
      BY Zenon DEF Foreign
    <3> QED  BY ONLY c \in Commands, <2>1, <3>1, ForeignMovements
  <2>5. Pair(c, Requests(c)[i], rest) = Pair(c, Requests(c)[i], moves)
    BY ONLY <2>3, <2>4, Zenon
  <2> QED  BY ONLY <2>5, Zenon DEF moves, rest
<1> QED  BY <1>1 DEF Trace

\* A trace of one movement more, which leaves next at key.
Extends(c, base, lv, ms, m, key, next) ==
  \E longer \in [0..Len(Append(ms, m)) -> [Keys -> Levels]] :
     /\ Trace(c, base, longer, Append(ms, m))
     /\ longer[0] = lv[0]
     /\ longer[Len(ms) + 1] = [lv[Len(ms)] EXCEPT ![key] = next]

\* The i-th movement of a run: m answers request i, on the levels lv and the
\* movements written so far, and leaves the levels after.
Writes(c, i, written, lv, after, m) ==
  LET req  == Requests(c)[i]
      pair == Pair(c, req, written)
  IN /\ Admissible(lv[req.key], req, pair)
     /\ m = Atomic!MovementOf(req, lv[req.key], pair)
     /\ after = [lv EXCEPT ![req.key] = ApplyMovement(lv[req.key], req.qty, m.value)]

Earlier(ms, i) == {ms[j] : j \in 1..(i - 1)}

LEMMA TraceByWrites ==
  ASSUME NEW c, NEW base, NEW lv, NEW ms
  PROVE  Trace(c, base, lv, ms)
           <=> \A i \in 1..Len(ms) : Writes(c, i, base \cup Earlier(ms, i), lv[i - 1], lv[i], ms[i])
BY Zenon DEF Trace, Writes, Earlier

\* A sequence and a sequence of levels, one longer.
LEMMA GrownSequence ==
  ASSUME NEW S, NEW ms \in Seq(S), NEW m \in S, NEW big, big = Append(ms, m)
  PROVE  /\ Len(ms) \in Nat /\ Len(big) = Len(ms) + 1 /\ DOMAIN ms = 1..Len(ms)
         /\ big[Len(ms) + 1] = m /\ \A j \in 1..Len(ms) : big[j] = ms[j]
OBVIOUS

Longer(n, W, lv, w) ==
  \E longer \in [0..(n + 1) -> W] :
    longer[n + 1] = w /\ \A i \in 0..n : longer[i] = lv[i]

LEMMA GrownLevels ==
  ASSUME NEW n \in Nat, NEW W, NEW lv \in [0..n -> W], NEW w \in W
  PROVE  Longer(n, W, lv, w)
<1> DEFINE I == 0..(n + 1)
           longer == [i \in I |-> IF i = n + 1 THEN w ELSE lv[i]]
<1>1. \A i \in I : i # n + 1 => i \in 0..n
  OBVIOUS
<1>2. n + 1 \in I /\ \A i \in 0..n : i \in I /\ i # n + 1
  OBVIOUS
<1> HIDE DEF I
<1>3. \A i \in I : (IF i = n + 1 THEN w ELSE lv[i]) \in W
  BY <1>1
<1>4. longer \in [I -> W]
  BY ONLY <1>3, Zenon
<1>5. longer[n + 1] = w /\ \A i \in 0..n : longer[i] = lv[i]
  BY ONLY <1>2, Zenon
<1> HIDE DEF longer
<1> QED
  BY ONLY <1>4, <1>5, Zenon DEF I, Longer

LEMMA BeforeIs ==
  ASSUME NEW ms, NEW i, NEW D, D = 1..(i - 1)
  PROVE  Earlier(ms, i) = {ms[j] : j \in D}
BY Zenon DEF Earlier

LEMMA GrownBefore ==
  ASSUME NEW S, NEW ms \in Seq(S), NEW m \in S, NEW big, big = Append(ms, m),
         NEW i \in 1..(Len(ms) + 1)
  PROVE  Earlier(big, i) = Earlier(ms, i)
<1>1. \A j \in 1..(i - 1) : big[j] = ms[j]
  BY GrownSequence
<1> QED
  BY ONLY <1>1, Zenon DEF Earlier

LEMMA TraceGrows ==
  ASSUME NEW c, NEW base, NEW S, NEW ms \in Seq(S), NEW m \in S,
         NEW lv \in [0..Len(ms) -> [Keys -> Levels]], Trace(c, base, lv, ms),
         NEW req, req = Requests(c)[Len(ms) + 1], req.key \in Keys,
         NEW pair, pair = Pair(c, req, base \cup {ms[j] : j \in DOMAIN ms}),
         Admissible(lv[Len(ms)][req.key], req, pair),
         m = Atomic!MovementOf(req, lv[Len(ms)][req.key], pair),
         NEW next \in Levels, next = ApplyMovement(lv[Len(ms)][req.key], req.qty, m.value)
  PROVE  Extends(c, base, lv, ms, m, req.key, next)
<1> DEFINE n == Len(ms)
           big == Append(ms, m)
           w == [lv[n] EXCEPT ![req.key] = next]
<1>1. /\ n \in Nat /\ Len(big) = n + 1 /\ DOMAIN ms = 1..n
      /\ big[n + 1] = m /\ \A j \in 1..n : big[j] = ms[j]
  BY ONLY ms \in Seq(S), m \in S, GrownSequence
<1>2. /\ Earlier(ms, n + 1) = {ms[j] : j \in DOMAIN ms}
      /\ \A i \in 1..(n + 1) : Earlier(big, i) = Earlier(ms, i)
  <2>1. \A i \in 1..(n + 1) : Earlier(big, i) = Earlier(ms, i)
    BY ONLY ms \in Seq(S), m \in S, GrownBefore
  <2>2. DOMAIN ms = 1..(n + 1 - 1)
    BY ONLY <1>1
  <2>3. Earlier(ms, n + 1) = {ms[j] : j \in DOMAIN ms}
    BY ONLY <2>2, BeforeIs
  <2> QED
    BY ONLY <2>1, <2>3
<1>3. /\ Writes(c, n + 1, base \cup Earlier(ms, n + 1), lv[n], w, m)
      /\ \A i \in 1..n : Writes(c, i, base \cup Earlier(ms, i), lv[i - 1], lv[i], ms[i])
  <2>1. Writes(c, n + 1, base \cup Earlier(ms, n + 1), lv[n], w, m)
    BY <1>2, Zenon DEF Writes
  <2>2. \A i \in 1..n : Writes(c, i, base \cup Earlier(ms, i), lv[i - 1], lv[i], ms[i])
    BY ONLY Trace(c, base, lv, ms), TraceByWrites, Zenon
  <2> QED
    BY ONLY <2>1, <2>2
<1>4. w \in [Keys -> Levels]
  <2>1. n \in 0..Len(ms)
    BY ONLY <1>1
  <2>2. lv[n] \in [Keys -> Levels]
    BY ONLY <2>1, lv \in [0..Len(ms) -> [Keys -> Levels]], Zenon
  <2> QED
    BY ONLY <2>2, next \in Levels, req.key \in Keys
<1>5. lv \in [0..n -> [Keys -> Levels]]
  OBVIOUS
<1> HIDE DEF n, big, w
<1>6. PICK longer \in [0..(n + 1) -> [Keys -> Levels]] :
        longer[n + 1] = w /\ \A i \in 0..n : longer[i] = lv[i]
  <2> DEFINE W == [Keys -> Levels]
  <2>1. n \in Nat /\ lv \in [0..n -> W] /\ w \in W
    BY ONLY <1>1, <1>4, <1>5
  <2> HIDE DEF W
  <2>2. Longer(n, W, lv, w)
    BY ONLY <2>1, GrownLevels
  <2> QED
    BY ONLY <2>2, Zenon DEF W, Longer
<1>7. \A i \in 1..(n + 1) : Writes(c, i, base \cup Earlier(big, i), longer[i - 1], longer[i], big[i])
  <2> SUFFICES ASSUME NEW i \in 1..(n + 1)
               PROVE  Writes(c, i, base \cup Earlier(big, i), longer[i - 1], longer[i], big[i])
    OBVIOUS
  <2>1. longer[i - 1] = lv[i - 1] /\ Earlier(big, i) = Earlier(ms, i)
    BY ONLY <1>1, <1>2, <1>6, i \in 1..(n + 1)
  <2>2. CASE i = n + 1
    <3>1. i - 1 = n /\ longer[i] = w /\ big[i] = m
      BY ONLY <1>1, <1>6, <2>2
    <3> QED
      BY ONLY <1>3, <2>1, <2>2, <3>1, Zenon
  <2>3. CASE i # n + 1
    <3>1. i \in 1..n /\ longer[i] = lv[i] /\ big[i] = ms[i]
      BY ONLY <1>1, <1>6, <2>3, i \in 1..(n + 1)
    <3> QED
      BY ONLY <1>3, <2>1, <3>1, Zenon
  <2> QED
    BY ONLY <2>2, <2>3
<1>8. Trace(c, base, longer, big)
  BY ONLY <1>1, <1>7, TraceByWrites, Zenon
<1>9. longer[0] = lv[0] /\ longer \in [0..Len(big) -> [Keys -> Levels]]
  BY ONLY <1>1, <1>6
<1>10. longer[Len(ms) + 1] = [lv[Len(ms)] EXCEPT ![req.key] = next]
  BY ONLY <1>6, Zenon DEF n, w
<1> QED
  BY ONLY <1>8, <1>9, <1>10, Zenon DEF Extends, big

-----------------------------------------------------------------------------
(* The invariant of the refinement.                                          *)

InHeader(s) == pc[s] \in {"rows", "apply"}

\* What a session found still stands: its targets are active and the purchase it
\* reverses is stored, for the locks exclude their change; its document is
\* nobody else's.
Standing(s) ==
  /\ pc[s] # "apply" => out[s] = <<>>
  /\ pc[s] \in {"header", "rows", "apply"} =>
       /\ TargetsOf(cmd[s]) \cap archived = {}
       /\ cmd[s].op = "reverse" => cmd[s].of \in DOMAIN docs
  /\ InHeader(s) =>
       /\ cmd[s].doc \notin DOMAIN docs
       /\ \A t \in Sessions \ {s} : InHeader(t) => cmd[t].doc # cmd[s].doc
  /\ pc[s] # "idle" =>
       quote[s] = IF cmd[s].op = "transfer" THEN <<>>
                  ELSE [i \in DOMAIN Requests(cmd[s]) |-> quote[s][i]]

\* It still stands when only what is written under way grows.
LEMMA StandingKept ==
  ASSUME docs' = docs, archived' = archived, pc' = pc, cmd' = cmd, quote' = quote,
         NEW s \in Sessions, Standing(s), pc[s] # "apply" => out'[s] = out[s]
  PROVE  Standing(s)'
BY DEF Standing, InHeader

\* What it has written is the beginning of a run of its command on the committed
\* levels of the rows it holds, and its view of them is where that run stands.
Replayed(s) ==
  /\ Len(out[s]) <= Len(Requests(cmd[s]))
  /\ \E lv \in [0..Len(out[s]) -> [Keys -> Levels]] :
       /\ Trace(cmd[s], ledger, lv, out[s])
       /\ \A k \in rows[s] : lv[0][k] = level[k] /\ lv[Len(out[s])][k] = work[s][k]

Replays ==
  /\ DOMAIN quote = Sessions
  /\ \A m \in ledger : m.doc \in DOMAIN docs
  /\ \A s \in Sessions : Standing(s)
  /\ \A s \in Sessions : pc[s] = "apply" => Replayed(s)

RInv == LawfulState /\ Serialised /\ Replays

LEMMA InitReplays == Init => Replays
BY DEF Init, Replays, Standing, InHeader

\* What a step leaves alone of a session's own state and of the committed one.
LEMMA BystanderReplays ==
  ASSUME NEW t \in Sessions, Replayed(t), UNCHANGED <<level, ledger>>,
         cmd'[t] = cmd[t], rows'[t] = rows[t], work'[t] = work[t], out'[t] = out[t]
  PROVE  Replayed(t)'
BY DEF Replayed

LEMMA ReleaseReplays ==
  ASSUME RInv, NEW s \in Sessions, Release(s), UNCHANGED <<committed, archived>>
  PROVE  Replays'
<1>1. /\ pc'[s] = "idle" /\ out'[s] = <<>>
      /\ \A t \in Sessions \ {s} :
           /\ pc'[t] = pc[t] /\ cmd'[t] = cmd[t] /\ rows'[t] = rows[t] /\ quote'[t] = quote[t]
           /\ work'[t] = work[t] /\ out'[t] = out[t]
  BY DEF Release, RInv, LawfulState, SessionsOK, Replays
<1>2. UNCHANGED <<level, ledger, docs, archived>>
  BY DEF committed
<1>3. ASSUME NEW t \in Sessions PROVE Standing(t)'
  BY <1>1, <1>2 DEF RInv, Replays, Standing, InHeader
<1>4. ASSUME NEW t \in Sessions, pc'[t] = "apply" PROVE Replayed(t)'
  BY <1>1, <1>2, <1>4, BystanderReplays DEF RInv, Replays
<1>5. DOMAIN quote' = Sessions
  BY DEF Release, RInv, Replays
<1> QED  BY <1>2, <1>3, <1>4, <1>5 DEF RInv, Replays

LEMMA SubmitReplays ==
  ASSUME RInv, NEW s \in Sessions, NEW c \in Commands, Submit(s, c)
  PROVE  Replays'
<1>1. /\ pc'[s] = "quoted" /\ cmd'[s] = c /\ out'[s] = out[s]
      /\ quote'[s] = IF c.op = "transfer" THEN <<>> ELSE QuoteOf(c)
      /\ \A t \in Sessions \ {s} : pc'[t] = pc[t] /\ cmd'[t] = cmd[t] /\ quote'[t] = quote[t]
      /\ UNCHANGED <<level, ledger, docs, archived, rows, work, out>>
  BY DEF Submit, RInv, LawfulState, SessionsOK, Replays, committed
<1>2. pc[s] # "apply"
  BY DEF Submit
<1>3. QuoteOf(c) = [i \in DOMAIN Requests(c) |-> QuoteOf(c)[i]]
  BY DEF QuoteOf
<1>4. ASSUME NEW t \in Sessions PROVE Standing(t)'
  BY <1>1, <1>2, <1>3 DEF RInv, Replays, Standing, InHeader
<1>5. ASSUME NEW t \in Sessions, pc'[t] = "apply" PROVE Replayed(t)'
  BY <1>1, <1>5, BystanderReplays DEF RInv, Replays
<1>6. DOMAIN quote' = Sessions
  BY DEF Submit, RInv, Replays
<1> QED  BY <1>1, <1>4, <1>5, <1>6 DEF RInv, Replays

\* Steps before the loop that take locks: a target found active under its lock, a
\* document nobody else is inserting.
LEMMA LockingReplays ==
  ASSUME RInv, NEW s \in Sessions,
         Begin(s) \/ LockTargets(s) \/ InsertHeader(s) \/ LockRow(s)
  PROVE  Replays'
<1>1. /\ pc[s] # "apply" /\ pc'[s] # "apply"
      /\ \A t \in Sessions \ {s} : pc'[t] = pc[t] /\ rows'[t] = rows[t] /\ work'[t] = work[t]
      /\ UNCHANGED <<level, ledger, docs, archived, cmd, quote, out>>
  <2>1. CASE Begin(s)
    BY <2>1 DEF Begin, RInv, LawfulState, SessionsOK, committed
  <2>2. CASE LockTargets(s)
    BY <2>2 DEF LockTargets, RInv, LawfulState, SessionsOK, committed
  <2>3. CASE InsertHeader(s)
    BY <2>3 DEF InsertHeader, RInv, LawfulState, SessionsOK, committed
  <2>4. CASE LockRow(s)
    BY <2>4 DEF LockRow, RInv, LawfulState, SessionsOK, committed
  <2> QED  BY <2>1, <2>2, <2>3, <2>4
<1>2. ASSUME NEW t \in Sessions PROVE Standing(t)'
  <2>1. CASE Begin(s)
    BY <1>1, <2>1 DEF Begin, RInv, LawfulState, SessionsOK, Replays, Standing, InHeader
  <2>2. CASE LockTargets(s)
    BY <1>1, <2>2 DEF LockTargets, RInv, LawfulState, SessionsOK, Replays, Standing, InHeader
  <2>3. CASE InsertHeader(s)
    BY <1>1, <2>3 DEF InsertHeader, Inserting, RInv, LawfulState, SessionsOK, Replays, Standing, InHeader
  <2>4. CASE LockRow(s)
    BY <1>1, <2>4 DEF LockRow, RInv, LawfulState, SessionsOK, Replays, Standing, InHeader
  <2> QED  BY <2>1, <2>2, <2>3, <2>4
<1>3. ASSUME NEW t \in Sessions, pc'[t] = "apply" PROVE Replayed(t)'
  BY <1>1, <1>3, BystanderReplays DEF RInv, Replays
<1> QED  BY <1>1, <1>2, <1>3 DEF RInv, Replays

\* The empty run: nothing is written, and the rows are seen as committed.
LEMMA RowsLockedReplays ==
  ASSUME RInv, NEW s \in Sessions, RowsLocked(s)
  PROVE  Replays'
<1>1. /\ pc[s] = "rows" /\ pc' = [pc EXCEPT ![s] = "apply"]
      /\ UNCHANGED <<level, ledger, docs, archived, cmd, quote, rows, work, out>>
  BY DEF RowsLocked, committed
<1>2. ASSUME NEW t \in Sessions PROVE Standing(t)'
  BY <1>1 DEF RInv, LawfulState, SessionsOK, Replays, Standing, InHeader
<1>3. out[s] = <<>> /\ cmd[s] \in Commands /\ rows[s] \subseteq Keys
  BY <1>1 DEF RInv, Replays, Standing, LawfulState, SessionsOK
<1>4. Replayed(s)'
  <2> DEFINE lv == [i \in 0..0 |-> work[s]]
  <2>1. work[s] \in [Keys -> Levels]
    BY DEF RInv, LawfulState, SessionsOK, LawfulLevels
  <2>2. \A k \in rows[s] : work[s][k] = level[k]
    BY <1>3 DEF RInv, Serialised, ViewsCurrent, Written
  <2>3. lv \in [0..Len(out[s]) -> [Keys -> Levels]] /\ lv[0] = work[s]
    BY <1>3, <2>1
  <2>4. Len(out[s]) = 0 /\ Len(out[s]) <= Len(Requests(cmd[s]))
    BY <1>3, LedgerAssumption, RequestsTyped
  <2>5. Trace(cmd[s], ledger, lv, out[s])
    BY <2>4 DEF Trace
  <2> HIDE DEF lv
  <2> QED  BY <1>1, <2>2, <2>3, <2>4, <2>5 DEF Replayed
<1>5. ASSUME NEW t \in Sessions, pc'[t] = "apply" PROVE Replayed(t)'
  <2>1. CASE t = s
    BY <1>4, <2>1
  <2>2. CASE t # s
    BY <1>1, <1>5, <2>2, BystanderReplays DEF RInv, Replays, LawfulState, SessionsOK
  <2> QED  BY <2>1, <2>2
<1> QED  BY <1>1, <1>2, <1>5 DEF RInv, Replays

\* The loop's next turn is the run's next request: the session's view of the key
\* is where the run stands.
LEMMA ApplyRequestReplays ==
  ASSUME RInv, NEW s \in Sessions, ApplyRequest(s)
  PROVE  Replays'
<1> DEFINE req == NextRequest(s)
           lvl == work[s][req.key]
           pair == PairOf(s)
           m == Atomic!MovementOf(req, lvl, pair)
           next == ApplyMovement(lvl, req.qty, m.value)
           n == Len(out[s])
<1>1. /\ cmd[s] \in Commands /\ req.key \in Keys /\ TypedRequest(req) /\ req.doc = cmd[s].doc /\ req.line \in Nat
      /\ lvl \in LawfulLevels /\ TypedPair(req, pair)
  BY ApplyingTyped DEF ApplyRequest, RInv
<1>2. Admissible(lvl, req, pair) /\ pc[s] = "apply" /\ n < Len(Requests(cmd[s]))
  BY DEF ApplyRequest, Accepted, Applying
<1>3. m = [doc |-> req.doc, line |-> req.line, kind |-> req.kind, key |-> req.key, qty |-> req.qty,
           value |-> Valued(lvl, req, pair).value, snap |-> Valued(lvl, req, pair).snap, seq |-> lvl.seq + 1]
  BY SameValuation DEF Atomic!MovementOf
<1>4. m.value = Valued(lvl, req, pair).value
  BY <1>3
<1>5. /\ work' = [work EXCEPT ![s][req.key] = next]
      /\ out' = [out EXCEPT ![s] = Append(@, m)]
      /\ UNCHANGED <<level, ledger, docs, archived, pc, cmd, quote, rows>>
  BY <1>3, <1>4 DEF ApplyRequest, committed
<1>6. next \in LawfulLevels /\ next \in Levels
  <2>1. lvl \in Levels /\ LawfulLevel(lvl)
    BY <1>1 DEF LawfulLevels
  <2>2. ApplyMovement(lvl, req.qty, Valued(lvl, req, pair).value) \in LawfulLevels
    <3> HIDE DEF req, lvl, pair
    <3> QED  BY <1>1, <1>2, <2>1, AdmissibleLawful DEF LawfulLevels
  <2> QED  BY <1>4, <2>2 DEF LawfulLevels
<1>7. /\ out[s] \in Seq(LawfulMovements) /\ out'[s] = Append(out[s], m)
      /\ work'[s] = [work[s] EXCEPT ![req.key] = next] /\ work[s] \in [Keys -> LawfulLevels]
      /\ \A t \in Sessions \ {s} : work'[t] = work[t] /\ out'[t] = out[t]
  BY <1>5 DEF RInv, LawfulState, SessionsOK
<1>8. Len(Requests(cmd[s])) \in Nat /\ n \in Nat /\ n + 1 \in DOMAIN Requests(cmd[s])
  BY <1>1, <1>2, <1>7, LedgerAssumption, RequestsTyped
<1>9. req.key \in rows[s]
  <2>1. req.key \in KeysOf(cmd[s])
    BY <1>8 DEF NextRequest, KeysOf
  <2> QED  BY <1>2, <2>1 DEF RInv, Serialised, WriterOf
<1>10. PICK lv \in [0..n -> [Keys -> Levels]] :
         /\ Trace(cmd[s], ledger, lv, out[s])
         /\ \A k \in rows[s] : lv[0][k] = level[k] /\ lv[n][k] = work[s][k]
  BY <1>2 DEF RInv, Replays, Replayed
<1>11. Standing(s)' /\ \A t \in Sessions : Standing(t)'
  <2>1. \A t \in Sessions : pc[t] # "apply" => out'[t] = out[t]
    BY <1>2, <1>7
  <2>2. docs' = docs /\ archived' = archived /\ pc' = pc /\ cmd' = cmd /\ quote' = quote
    BY <1>5
  <2>3. \A t \in Sessions : Standing(t)
    BY DEF RInv, Replays
  <2>4. \A t \in Sessions : Standing(t)'
    BY ONLY <2>1, <2>2, <2>3, StandingKept
  <2> QED  BY ONLY <2>4, s \in Sessions
<1>12. rows[s] \subseteq Keys /\ lv[n][req.key] = lvl /\ lv[n] \in [Keys -> Levels]
  <2>1. rows[s] \subseteq Keys
    BY DEF RInv, LawfulState, SessionsOK
  <2>2. lv[n][req.key] = lvl
    BY ONLY <1>9, <1>10, Zenon DEF lvl
  <2>3. n \in 0..n
    <3> HIDE DEF n
    <3> QED  BY ONLY <1>8
  <2>4. lv[n] \in [Keys -> Levels]
    BY ONLY <1>10, <2>3, Zenon
  <2> QED  BY ONLY <2>1, <2>2, <2>4
<1>13. pair = Pair(cmd[s], req, ledger \cup {out[s][j] : j \in DOMAIN out[s]})
  BY DEF PairOf, Written
<1> DEFINE S == LawfulMovements \cup {m}
<1>14. m \in S /\ out[s] \in Seq(S)
  <2> HIDE DEF m
  <2> QED  BY <1>7
<1>15. req = Requests(cmd[s])[n + 1]
  BY DEF NextRequest
<1> HIDE DEF req, lvl, pair, m, next, S
<1>16. PICK longer \in [0..Len(Append(out[s], m)) -> [Keys -> Levels]] :
           /\ Trace(cmd[s], ledger, longer, Append(out[s], m))
           /\ longer[0] = lv[0]
           /\ longer[n + 1] = [lv[n] EXCEPT ![req.key] = next]
  <2>1. Admissible(lv[n][req.key], req, pair) /\ m = Atomic!MovementOf(req, lv[n][req.key], pair)
    BY <1>2, <1>12 DEF m
  <2>2. next = ApplyMovement(lv[n][req.key], req.qty, m.value)
    BY <1>12 DEF next
  <2>3. Extends(cmd[s], ledger, lv, out[s], m, req.key, next)
    BY <1>1, <1>6, <1>10, <1>13, <1>14, <1>15, <2>1, <2>2, TraceGrows
  <2> QED  BY <2>3 DEF Extends
<1>17. Len(Append(out[s], m)) = n + 1
  BY <1>14
<1>18. Replayed(s)'
  <2>1. \A k \in rows[s] : longer[0][k] = level[k] /\ longer[n + 1][k] = work'[s][k]
    <3> SUFFICES ASSUME NEW k \in rows[s]
                 PROVE  longer[0][k] = level[k] /\ longer[n + 1][k] = work'[s][k]
      OBVIOUS
    <3>1. CASE k = req.key
      BY <1>1, <1>7, <1>10, <1>12, <1>16, <3>1
    <3>2. CASE k # req.key
      BY <1>1, <1>7, <1>10, <1>12, <1>16, <3>2
    <3> QED  BY <3>1, <3>2
  <2>2. Len(out'[s]) = n + 1 /\ Len(out'[s]) <= Len(Requests(cmd'[s]))
    BY <1>2, <1>5, <1>7, <1>8, <1>17
  <2>3. longer \in [0..Len(out'[s]) -> [Keys -> Levels]] /\ Trace(cmd'[s], ledger', longer, out'[s])
    BY <1>5, <1>7, <1>16
  <2>4. \A k \in rows'[s] : longer[0][k] = level'[k] /\ longer[Len(out'[s])][k] = work'[s][k]
    BY <1>5, <2>1, <2>2
  <2> HIDE DEF n
  <2> QED  BY <2>2, <2>3, <2>4 DEF Replayed
<1>19. ASSUME NEW t \in Sessions, pc'[t] = "apply" PROVE Replayed(t)'
  <2>1. CASE t = s
    BY <1>18, <2>1
  <2>2. CASE t # s
    BY <1>5, <1>7, <1>19, <2>2, BystanderReplays DEF RInv, Replays
  <2> QED  BY <2>1, <2>2
<1> QED  BY <1>5, <1>11, <1>19 DEF RInv, Replays

\* A session's movements are its requests', in order, under its own document.
LEMMA WrittenAsRequested ==
  ASSUME RInv, NEW s \in Sessions, pc[s] = "apply"
  PROVE  /\ cmd[s] \in Commands /\ out[s] \in Seq(LawfulMovements)
         /\ \A i \in 1..Len(out[s]) :
              LET req == Requests(cmd[s])[i]
              IN /\ i \in DOMAIN Requests(cmd[s]) /\ req.key \in rows[s]
                 /\ out[s][i].doc = cmd[s].doc /\ out[s][i].line = req.line
                 /\ out[s][i].kind = req.kind /\ out[s][i].qty = req.qty
         /\ \A m \in Written(s) : m.doc = cmd[s].doc
<1>1. cmd[s] \in Commands /\ out[s] \in Seq(LawfulMovements)
  BY DEF RInv, LawfulState, SessionsOK
<1>2. Len(out[s]) \in Nat /\ Len(out[s]) <= Len(Requests(cmd[s])) /\ KeysOf(cmd[s]) \subseteq rows[s]
  BY <1>1 DEF RInv, Serialised, WriterOf, Replays, Replayed
<1>3. PICK lv : Trace(cmd[s], ledger, lv, out[s])
  BY DEF RInv, Replays, Replayed
<1>4. ASSUME NEW i \in 1..Len(out[s])
      PROVE  LET req == Requests(cmd[s])[i]
             IN /\ i \in DOMAIN Requests(cmd[s]) /\ req.key \in rows[s]
                /\ out[s][i].doc = cmd[s].doc /\ out[s][i].line = req.line
                /\ out[s][i].kind = req.kind /\ out[s][i].qty = req.qty
  <2> DEFINE req == Requests(cmd[s])[i]
  <2>1. i \in DOMAIN Requests(cmd[s])
    BY <1>1, <1>2, LedgerAssumption, RequestsTyped
  <2>2. req.key \in rows[s]
    BY <1>2, <2>1 DEF KeysOf
  <2>3. \E lvl, pair : out[s][i] = Atomic!MovementOf(req, lvl, pair)
    BY <1>3 DEF Trace
  <2>4. req.doc = cmd[s].doc
    BY <1>1, <2>1, PairedKinds
  <2> QED  BY <2>1, <2>2, <2>3, <2>4 DEF Atomic!MovementOf
<1>5. \A m \in Written(s) : m.doc = cmd[s].doc
  BY <1>1, <1>4 DEF Written
<1> QED  BY <1>1, <1>4, <1>5

\* A commit leaves every other session's run as it was: other rows, another
\* document, and not the purchase it reverses.
LEMMA CommitReplays ==
  ASSUME RInv, NEW s \in Sessions, Commit(s)
  PROVE  Replays'
<1>1. /\ pc'[s] = "idle" /\ out'[s] = <<>> /\ pc[s] = "apply"
      /\ \A t \in Sessions \ {s} :
           /\ pc'[t] = pc[t] /\ cmd'[t] = cmd[t] /\ rows'[t] = rows[t] /\ quote'[t] = quote[t]
           /\ work'[t] = work[t] /\ out'[t] = out[t]
  BY DEF Commit, Applied, Release, RInv, LawfulState, SessionsOK, Replays
<1>2. /\ level' = [k \in Keys |-> Published(s, k)] /\ ledger' = ledger \cup Written(s)
      /\ docs' = With(docs, cmd[s].doc, cmd[s]) /\ archived' = archived
  BY DEF Commit
<1>3. DOMAIN docs' = DOMAIN docs \cup {cmd[s].doc}
  BY <1>2 DEF With
<1>4. \A m \in Written(s) : m.doc = cmd[s].doc
  BY <1>1, WrittenAsRequested
<1>5. \A m \in ledger' : m.doc \in DOMAIN docs'
  BY <1>2, <1>3, <1>4 DEF RInv, Replays
<1>6. ASSUME NEW t \in Sessions PROVE Standing(t)'
  BY <1>1, <1>2, <1>3 DEF RInv, Replays, Standing, InHeader
<1>7. ASSUME NEW t \in Sessions, pc'[t] = "apply" PROVE Replayed(t)'
  <2>1. t # s /\ pc[t] = "apply" /\ Replayed(t) /\ Standing(t) /\ Standing(s)
    BY <1>1, <1>7 DEF RInv, Replays
  <2>2. cmd[t].doc # cmd[s].doc /\ cmd[s].doc \notin DOMAIN docs
        /\ (cmd[t].op = "reverse" => cmd[t].of \in DOMAIN docs)
    BY <1>1, <2>1 DEF Standing, InHeader
  <2>3. \A m \in Written(s) : m.doc # cmd[t].doc /\ (cmd[t].op = "reverse" => m.doc # cmd[t].of)
    BY <1>4, <2>2
  <2>4. cmd[t] \in Commands /\ out[t] \in Seq(LawfulMovements) /\ Len(out[t]) <= Len(Requests(cmd[t]))
    BY <2>1 DEF RInv, LawfulState, SessionsOK, Replayed
  <2>5. PICK lv \in [0..Len(out[t]) -> [Keys -> Levels]] :
          /\ Trace(cmd[t], ledger, lv, out[t])
          /\ \A k \in rows[t] : lv[0][k] = level[k] /\ lv[Len(out[t])][k] = work[t][k]
    BY <2>1 DEF Replayed
  <2>6. Trace(cmd[t], ledger', lv, out[t])
    BY <1>2, <2>3, <2>4, <2>5, TraceAmongOthers
  <2>7. \A k \in rows[t] : level'[k] = level[k]
    BY <1>2, <2>1 DEF Published, RInv, LawfulState, SessionsOK, Serialised, RowsExclusive
  <2>8. \A k \in rows[t] : lv[0][k] = level'[k] /\ lv[Len(out[t])][k] = work[t][k]
    BY ONLY <2>5, <2>7
  <2>9. cmd'[t] = cmd[t] /\ out'[t] = out[t] /\ rows'[t] = rows[t] /\ work'[t] = work[t]
    BY <1>1, <2>1
  <2>10. lv \in [0..Len(out[t]) -> [Keys -> Levels]] /\ Len(out[t]) <= Len(Requests(cmd[t]))
    BY ONLY <2>4, <2>5
  <2>11. /\ lv \in [0..Len(out'[t]) -> [Keys -> Levels]] /\ Len(out'[t]) <= Len(Requests(cmd'[t]))
         /\ Trace(cmd'[t], ledger', lv, out'[t])
         /\ \A k \in rows'[t] : lv[0][k] = level'[k] /\ lv[Len(out'[t])][k] = work'[t][k]
    BY ONLY <2>6, <2>8, <2>9, <2>10, Zenon
  <2> QED  BY ONLY <2>11, Zenon DEF Replayed
<1>8. DOMAIN quote' = Sessions
  BY DEF Commit, Release, RInv, Replays
<1> QED  BY <1>5, <1>6, <1>7, <1>8 DEF Replays

\* Archiving a warehouse or a variant waits for the shared locks, and a product
\* is no target.
LEMMA ArchiveReplays ==
  ASSUME RInv, NEW t,
         ArchiveTarget(t) \/ (ArchiveProduct(t) /\ \E v : t = <<"product", v>>)
  PROVE  Replays'
<1>1. UNCHANGED <<level, ledger, docs, pc, cmd, quote, rows, work, out>> /\ archived' = archived \cup {t}
  BY DEF ArchiveTarget, ArchiveProduct, committed
<1>2. ASSUME NEW s \in Sessions, pc[s] \in {"header", "rows", "apply"} PROVE t \notin TargetsOf(cmd[s])
  <2>1. CASE ArchiveTarget(t)
    BY <1>2, <2>1 DEF ArchiveTarget, HoldsTarget
  <2>2. CASE \E v : t = <<"product", v>>
    <3>1. \A x \in TargetsOf(cmd[s]) : \E y : x = <<"warehouse", y>> \/ x = <<"variant", y>>
      BY DEF TargetsOf
    <3> QED  BY <2>2, <3>1
  <2> QED  BY <2>1, <2>2
<1>3. ASSUME NEW s \in Sessions PROVE Standing(s)'
  BY <1>1, <1>2 DEF RInv, Replays, Standing, InHeader
<1>4. ASSUME NEW s \in Sessions, pc'[s] = "apply" PROVE Replayed(s)'
  BY <1>1, <1>4, BystanderReplays DEF RInv, Replays
<1> QED  BY <1>1, <1>3, <1>4 DEF RInv, Replays

LEMMA StutterReplays == RInv /\ UNCHANGED vars => Replays'
<1> SUFFICES ASSUME RInv, UNCHANGED vars PROVE Replays'
  OBVIOUS
<1>1. UNCHANGED <<level, ledger, docs, archived, pc, cmd, quote, rows, work, out>>
  BY DEF vars
<1>2. ASSUME NEW s \in Sessions PROVE Standing(s)'
  BY <1>1 DEF RInv, Replays, Standing, InHeader
<1>3. ASSUME NEW s \in Sessions, pc'[s] = "apply" PROVE Replayed(s)'
  BY <1>1, <1>3, BystanderReplays DEF RInv, Replays
<1> QED  BY <1>1, <1>2, <1>3 DEF RInv, Replays

LEMMA StepReplays == RInv /\ [Next]_vars => Replays'
<1> SUFFICES ASSUME RInv, [Next]_vars PROVE Replays'
  OBVIOUS
<1>1. ASSUME NEW s \in Sessions, AnswerFromStore(s) \/ Refuse(s) \/ Crash(s) PROVE Replays'
  <2>1. Release(s) /\ UNCHANGED <<committed, archived>>
    BY <1>1 DEF AnswerFromStore, Refuse, Crash
  <2> QED  BY <2>1, ReleaseReplays
<1>2. ASSUME NEW s \in Sessions, SessionStep(s) PROVE Replays'
  BY <1>1, <1>2, LockingReplays, RowsLockedReplays, ApplyRequestReplays, CommitReplays DEF SessionStep
<1>3. ASSUME NEW s \in Sessions, NEW c \in Commands, Submit(s, c) PROVE Replays'
  BY <1>3, SubmitReplays
<1>4. ASSUME NEW t, ArchiveTarget(t) PROVE Replays'
  BY <1>4, ArchiveReplays
<1>5. ASSUME NEW v, ArchiveProduct(<<"product", v>>) PROVE Replays'
  BY <1>5, ArchiveReplays
<1>6. CASE UNCHANGED vars
  BY <1>6, StutterReplays
<1> QED  BY <1>1, <1>2, <1>3, <1>4, <1>5, <1>6 DEF Next

LEMMA ReplaysInvariant == Spec => []RInv
<1>1. Init => RInv
  BY InitLawful, InitSerialised, InitReplays DEF RInv
<1>2. RInv /\ [Next]_vars => RInv'
  BY StepLawful, StepSerialised, StepReplays DEF RInv
<1> QED  BY <1>1, <1>2, PTL DEF Spec

-----------------------------------------------------------------------------
(* The entry: what is posted is the value that moved.                        *)

LEMMA TransferRequests ==
  ASSUME NEW c \in Commands, c.op = "transfer"
  PROVE  /\ \E n \in Nat : Len(Requests(c)) = 2 * n
         /\ \A j \in DOMAIN Requests(c) :
              /\ Requests(c)[j].line = (j + 1) \div 2
              /\ Requests(c)[j].kind = IF j % 2 = 1 THEN "transfer_out" ELSE "transfer_in"
<1>1. WellFormed(c) /\ Len(c.lines) \in Nat
  BY LedgerAssumption DEF WellFormed
<1>2. Requests(c) = [j \in 1..(2 * Len(c.lines)) |-> RequestAt(c, j)]
  BY DEF Requests
<1>3. Len(Requests(c)) = 2 * Len(c.lines)
  BY <1>1, <1>2, RequestsTyped
<1>4. ASSUME NEW j \in DOMAIN Requests(c)
      PROVE  /\ Requests(c)[j].line = (j + 1) \div 2
             /\ Requests(c)[j].kind = IF j % 2 = 1 THEN "transfer_out" ELSE "transfer_in"
  <2>1. Requests(c)[j] = RequestAt(c, j)
    BY <1>1, RequestsTyped
  <2> QED  BY <2>1 DEF RequestAt, Request, LineOf
<1> QED  BY <1>1, <1>3, <1>4

\* Every transfer_in undoes the value of the movement before it.
LEMMA TransferPairs ==
  ASSUME RInv, NEW s \in Sessions, pc[s] = "apply", cmd[s].op = "transfer",
         NEW i \in 1..Len(out[s]), i % 2 = 0
  PROVE  i - 1 \in 1..Len(out[s]) /\ out[s][i].value = -out[s][i - 1].value
<1> DEFINE c == cmd[s]
           req == Requests(c)[i]
           pair == Pair(c, req, ledger \cup {out[s][j] : j \in 1..(i - 1)})
           sources == {m \in ledger \cup {out[s][j] : j \in 1..(i - 1)} :
                    /\ m.line = req.line
                    /\ \/ req.kind = "transfer_in" /\ m.kind = "transfer_out" /\ m.doc = req.doc
                       \/ req.kind = "purchase_reversal" /\ m.kind = "purchase" /\ m.doc = c.of}
<1>1. /\ c \in Commands /\ out[s] \in Seq(LawfulMovements) /\ Len(out[s]) \in Nat
      /\ \A j \in 1..Len(out[s]) :
           /\ j \in DOMAIN Requests(c)
           /\ out[s][j].doc = c.doc /\ out[s][j].line = Requests(c)[j].line
           /\ out[s][j].kind = Requests(c)[j].kind
  BY WrittenAsRequested
<1>2. i \in Nat /\ i - 1 \in 1..Len(out[s])
  BY <1>1
<1>3. req.kind = "transfer_in" /\ req.line = (i + 1) \div 2 /\ req.doc = c.doc
  BY <1>1, TransferRequests, PairedKinds
<1>4. PICK lvl : Admissible(lvl, req, pair) /\ out[s][i] = Atomic!MovementOf(req, lvl, pair)
  <2>1. PICK lv : Trace(c, ledger, lv, out[s])
    BY DEF RInv, Replays, Replayed
  <2>2. Admissible(lv[i - 1][req.key], req, pair) /\ out[s][i] = Atomic!MovementOf(req, lv[i - 1][req.key], pair)
    BY <2>1 DEF Trace
  <2> QED  BY <2>2
<1>5. out[s][i].value = -pair.value /\ pair # None
  <2>1. pair # None
    BY <1>3, <1>4 DEF Admissible, ValuationAccepted, TransferInAccepted
  <2>2. out[s][i].value = Valued(lvl, req, pair).value
    BY <1>4, SameValuation DEF Atomic!MovementOf
  <2> QED  BY <1>3, <2>1, <2>2 DEF Valued, Paired
<1>6. pair \in sources
  <2>1. pair = IF sources = {} THEN None ELSE CHOOSE m \in sources : TRUE
    BY Zenon DEF Pair
  <2> HIDE DEF pair, sources
  <2> QED  BY <1>5, <2>1
<1>7. c.doc \notin DOMAIN docs /\ \A m \in ledger : m.doc # c.doc
  BY DEF RInv, Replays, Standing, InHeader
<1>8. PICK j \in 1..(i - 1) : pair = out[s][j]
  BY <1>3, <1>6, <1>7
<1>9. out[s][j].kind = "transfer_out" /\ out[s][j].line = (i + 1) \div 2
  BY <1>3, <1>6, <1>8
<1>10. j \in 1..Len(out[s])
  BY <1>1, <1>8
<1>11. j % 2 = 1 /\ (j + 1) \div 2 = (i + 1) \div 2
  BY <1>1, <1>9, <1>10, TransferRequests
<1>12. j = i - 1
  <2>1. i \in Nat /\ j \in Nat /\ i % 2 = 0
    BY ONLY <1>1, <1>8, i \in 1..Len(out[s]), i % 2 = 0
  <2> HIDE DEF c, req, pair, sources
  <2> QED
    BY ONLY <1>11, <2>1
<1> QED  BY <1>2, <1>5, <1>8, <1>12

LEMMA TransferPostsNothing ==
  ASSUME RInv, NEW s \in Sessions, Applied(s), cmd[s].op = "transfer"
  PROVE  SumOf([j \in DOMAIN out[s] |-> out[s][j].value]) = 0
<1> DEFINE n == Len(out[s])
           q == [j \in DOMAIN out[s] |-> out[s][j].value]
           p == [i \in 0..n |-> IF i % 2 = 0 THEN 0 ELSE q[i]]
<1>1. cmd[s] \in Commands /\ out[s] \in Seq(LawfulMovements) /\ n \in Nat
  BY WrittenAsRequested DEF Applied
<1>2. \A i \in 1..n : q[i] = out[s][i].value /\ q[i] \in Int
  <2>1. \A m \in LawfulMovements : m.value \in Int
    BY DEF LawfulMovements, Movements
  <2>2. DOMAIN out[s] = 1..n /\ \A i \in 1..n : out[s][i] \in LawfulMovements
    BY ONLY <1>1
  <2>3. \A i \in 1..n : q[i] = out[s][i].value
    BY ONLY <2>2, Zenon
  <2> QED
    BY ONLY <2>1, <2>2, <2>3, Zenon
<1>3. DOMAIN out[s] = 1..n /\ q \in Seq(Int) /\ Len(q) = n
  <2>1. DOMAIN out[s] = 1..n
    BY <1>1
  <2>2. q = [j \in 1..n |-> q[j]]
    BY <2>1
  <2> HIDE DEF q
  <2>3. n \in Nat /\ \A i \in 1..n : q[i] \in Int
    BY <1>1, <1>2
  <2> HIDE DEF n
  <2>4. q \in [1..n -> Int]
    BY ONLY <2>2, <2>3, Zenon
  <2>5. q \in Seq(Int) /\ Len(q) = n
    BY ONLY <2>3, <2>4
  <2> QED  BY <2>1, <2>5
<1>4. PICK h \in Nat : n = 2 * h
  BY <1>1, TransferRequests DEF Applied
<1>5. \A i \in 1..n : i % 2 = 0 => i - 1 \in 1..n /\ q[i] = -q[i - 1]
  BY <1>2, TransferPairs DEF Applied
<1> HIDE DEF q
<1>6. \A i \in 1..n : p[i] = p[i - 1] + q[i]
  <2> SUFFICES ASSUME NEW i \in 1..n PROVE p[i] = p[i - 1] + q[i]
    OBVIOUS
  <2>1. i \in 0..n /\ i - 1 \in 0..n /\ i \in Nat
    BY <1>1
  <2>2. CASE i % 2 = 0
    <3>1. (i - 1) % 2 # 0
      BY <2>1, <2>2
    <3> QED  BY <1>2, <1>5, <2>1, <2>2, <3>1
  <2>3. CASE i % 2 # 0
    <3>1. (i - 1) % 2 = 0
      BY <2>1, <2>3
    <3> QED  BY <1>2, <2>1, <2>3, <3>1
  <2> QED  BY <2>2, <2>3
<1>7. p[0] = 0 /\ p[n] = 0 /\ p \in [0..n -> Int]
  <2>1. 0 \in 0..n /\ n \in 0..n /\ n % 2 = 0
    BY <1>1, <1>4
  <2>2. \A i \in 0..n : (IF i % 2 = 0 THEN 0 ELSE q[i]) \in Int
    <3>1. \A i \in 0..n : i % 2 # 0 => i \in 1..n
      <4> HIDE DEF n
      <4> QED  BY ONLY <1>1
    <3> QED  BY ONLY <1>2, <3>1
  <2>3. p \in [0..n -> Int]
    BY ONLY <2>2, Zenon
  <2>4. p[0] = 0 /\ p[n] = 0
    <3>1. 0 % 2 = 0
      OBVIOUS
    <3> QED  BY ONLY <2>1, <3>1, Zenon
  <2> QED  BY ONLY <2>3, <2>4
<1> HIDE DEF p
<1>8. PartialSums(p, q, n)
  BY <1>6, <1>7 DEF PartialSums
<1> HIDE DEF n
<1>9. SumOf(q) = p[n]
  BY <1>1, <1>3, <1>8, SumIs
<1> QED  BY <1>7, <1>9 DEF q

LEMMA PostedIsMoved ==
  ASSUME RInv, NEW s \in Sessions, Applied(s), ValuesAsQuoted(s)
  PROVE  SumOf(quote[s]) = SumOf([j \in DOMAIN out[s] |-> out[s][j].value])
<1>1. cmd[s] \in Commands /\ out[s] \in Seq(LawfulMovements)
  BY WrittenAsRequested DEF Applied
<1>2. CASE cmd[s].op = "transfer"
  <2>1. quote[s] = <<>>
    BY <1>2 DEF Applied, RInv, Replays, Standing
  <2>2. SumOf(<<>>) = 0
    <3> DEFINE p == [i \in 0..0 |-> 0]
    <3>1. Len(<<>>) = 0 /\ PartialSums(p, <<>>, 0) /\ p[0] = 0
      BY DEF PartialSums
    <3> HIDE DEF p
    <3> QED  BY <3>1, SumIs
  <2> QED  BY <1>2, <2>1, <2>2, TransferPostsNothing
<1>3. CASE cmd[s].op # "transfer"
  <2>1. DOMAIN Requests(cmd[s]) = DOMAIN out[s]
    BY <1>1, LedgerAssumption, RequestsTyped DEF Applied
  <2>2. quote[s] = [i \in DOMAIN out[s] |-> quote[s][i]]
    BY <1>3, <2>1 DEF Applied, RInv, Replays, Standing
  <2>3. \A i \in DOMAIN out[s] : out[s][i].value = quote[s][i]
    BY <1>3 DEF ValuesAsQuoted
  <2> DEFINE q == quote[s]
  <2>4. [i \in DOMAIN out[s] |-> q[i]] = [i \in DOMAIN out[s] |-> out[s][i].value]
    BY <2>3
  <2> QED  BY <2>2, <2>4
<1> QED  BY <1>2, <1>3

-----------------------------------------------------------------------------
(* The refinement.                                                           *)

\* The whole command is a run on the committed levels at its commit.
LEMMA CommitRuns ==
  ASSUME RInv, NEW s \in Sessions, Commit(s)
  PROVE  Atomic!Run(cmd[s]) = [ok |-> TRUE, level |-> [k \in Keys |-> Published(s, k)], moves |-> out[s]]
<1> DEFINE c == cmd[s]
           n == Len(out[s])
<1>1. pc[s] = "apply" /\ n = Len(Requests(c))
  BY DEF Commit, Applied
<1>2. /\ c \in Commands /\ out[s] \in Seq(LawfulMovements) /\ n \in Nat
      /\ \A i \in 1..n : Requests(c)[i].key \in rows[s]
  BY <1>1, WrittenAsRequested
<1>3. rows[s] \in SUBSET Keys /\ level \in [Keys -> Levels]
  BY DEF RInv, LawfulState, SessionsOK, CommittedOK, LawfulLevels
<1>4. PICK lv \in [0..n -> [Keys -> Levels]] :
        /\ Trace(c, ledger, lv, out[s])
        /\ \A k \in rows[s] : lv[0][k] = level[k] /\ lv[n][k] = work[s][k]
  BY <1>1 DEF RInv, Replays, Replayed
<1> DEFINE over == Over(lv, n, rows[s], level)
<1>5. Trace(c, ledger, over, out[s])
  BY <1>2, <1>3, <1>4, TraceOverHeldKeys
<1>6. over[0] = level
  <2>1. over[0] = [k \in Keys |-> IF k \in rows[s] THEN lv[0][k] ELSE level[k]]
    BY <1>2 DEF Over
  <2>2. \A k \in Keys : (IF k \in rows[s] THEN lv[0][k] ELSE level[k]) = level[k]
    BY <1>4
  <2> HIDE DEF over
  <2> QED  BY <1>3, <2>1, <2>2
<1>7. over[n] = [k \in Keys |-> Published(s, k)]
  <2>1. over[n] = [k \in Keys |-> IF k \in rows[s] THEN lv[n][k] ELSE level[k]]
    BY <1>2 DEF Over
  <2>2. \A k \in Keys : (IF k \in rows[s] THEN lv[n][k] ELSE level[k]) = Published(s, k)
    BY <1>4 DEF Published
  <2> HIDE DEF over
  <2> QED  BY <2>1, <2>2
<1> HIDE DEF over
<1>8. Atomic!Run(c) = [ok |-> TRUE, level |-> over[n], moves |-> out[s]]
  BY <1>1, <1>2, <1>5, <1>6, TraceIsRun
<1> QED  BY <1>7, <1>8

LEMMA CommitIsPost ==
  ASSUME RInv, NEW s \in Sessions, Commit(s)
  PROVE  cmd[s] \in Commands /\ Atomic!Post(cmd[s])
<1> DEFINE c == cmd[s]
           run == Atomic!Run(c)
<1>1. pc[s] = "apply" /\ Applied(s) /\ c \in Commands
  BY WrittenAsRequested DEF Commit, Applied
<1>2. run.ok /\ run.level = [k \in Keys |-> Published(s, k)] /\ run.moves = out[s]
  <2>1. run = [ok |-> TRUE, level |-> [k \in Keys |-> Published(s, k)], moves |-> out[s]]
    BY CommitRuns
  <2> HIDE DEF run
  <2> QED  BY <2>1
<1>3. /\ c.doc \notin DOMAIN docs
      /\ c.op = "reverse" => c.of \in DOMAIN docs
      /\ TargetsOf(c) \cap archived = {}
  BY <1>1 DEF RInv, Replays, Standing, InHeader
<1>4. c.op # "reverse" => ProductsOf(c) \cap archived = {}
  BY DEF Commit, ProductsActive
<1>5. /\ level' = run.level
      /\ ledger' = ledger \cup {run.moves[j] : j \in DOMAIN run.moves}
      /\ docs' = With(docs, c.doc, c) /\ archived' = archived
  <2> HIDE DEF run
  <2> QED  BY <1>2 DEF Commit, Written
<1>6. gl' = With(gl, c.doc, SumOf([j \in DOMAIN run.moves |-> run.moves[j].value]))
  <2>1. SumOf(quote[s]) = SumOf([j \in DOMAIN out[s] |-> out[s][j].value])
    BY <1>1, PostedIsMoved DEF Commit
  <2> HIDE DEF run
  <2>2. gl' = With(gl, c.doc, SumOf(quote[s]))
    BY DEF Commit, PostEntry
  <2> QED  BY <1>2, <2>1, <2>2
<1>7. \A f, d, v : Atomic!With(f, d, v) = With(f, d, v)
  BY Zenon DEF Atomic!With, With
<1> HIDE DEF run
<1>8. Atomic!With(gl, c.doc, Atomic!SumOf([j \in DOMAIN run.moves |-> run.moves[j].value])) = gl'
  BY <1>6, <1>7, SameSum
<1> QED  BY <1>1, <1>2, <1>3, <1>4, <1>5, <1>7, <1>8, SameTargets DEF Atomic!Post, run

LEMMA ArchiveIsArchive ==
  /\ \A w \in Warehouses : ArchiveTarget(<<"warehouse", w>>) => Atomic!Next
  /\ \A v \in Variants : ArchiveTarget(<<"variant", v>>) => Atomic!Next
  /\ \A v \in Variants : ArchiveProduct(<<"product", v>>) => Atomic!Next
<1>1. Atomic!Keys = Keys
  BY DEF Atomic!Keys, Keys
<1>2. ASSUME NEW w \in Warehouses, ArchiveTarget(<<"warehouse", w>>) PROVE Atomic!Next
  <2>1. Atomic!Archive(<<"warehouse", w>>)
    BY <1>1, <1>2 DEF ArchiveTarget, Atomic!Archive, committed
  <2> QED  BY <2>1 DEF Atomic!Next
<1>3. ASSUME NEW v \in Variants, ArchiveTarget(<<"variant", v>>) PROVE Atomic!Next
  <2>1. Atomic!Archive(<<"variant", v>>)
    BY <1>1, <1>3 DEF ArchiveTarget, Atomic!Archive, committed
  <2> QED  BY <2>1 DEF Atomic!Next
<1>4. ASSUME NEW v \in Variants, ArchiveProduct(<<"product", v>>) PROVE Atomic!Next
  <2>1. Atomic!Archive(<<"product", v>>)
    BY <1>1, <1>4 DEF ArchiveProduct, Atomic!Archive, committed
  <2> QED  BY <2>1 DEF Atomic!Next
<1> QED  BY <1>2, <1>3, <1>4

LEMMA StepSimulates == RInv /\ [Next]_vars => [Atomic!Next]_(Atomic!stockVars)
<1> SUFFICES ASSUME RInv, [Next]_vars PROVE [Atomic!Next]_(Atomic!stockVars)
  OBVIOUS
<1>1. ASSUME NEW s \in Sessions, Commit(s) PROVE Atomic!Next
  BY <1>1, CommitIsPost DEF Atomic!Next
<1>2. ASSUME NEW s \in Sessions, SessionStep(s), ~Commit(s) PROVE UNCHANGED Atomic!stockVars
  BY <1>2 DEF SessionStep, Begin, AnswerFromStore, LockTargets, InsertHeader, LockRow, RowsLocked,
              ApplyRequest, Refuse, committed, Atomic!stockVars
<1>3. ASSUME NEW s \in Sessions, NEW c \in Commands, Submit(s, c) PROVE UNCHANGED Atomic!stockVars
  BY <1>3 DEF Submit, committed, Atomic!stockVars
<1>4. ASSUME NEW s \in Sessions, Crash(s) PROVE UNCHANGED Atomic!stockVars
  BY <1>4 DEF Crash, committed, Atomic!stockVars
<1>5. ASSUME UNCHANGED vars PROVE UNCHANGED Atomic!stockVars
  BY <1>5 DEF vars, Atomic!stockVars
<1> QED  BY <1>1, <1>2, <1>3, <1>4, <1>5, ArchiveIsArchive DEF Next

\* Every behaviour of the concurrent ledger is one of the atomic one, for any
\* number of sessions, commands and keys: a document that commits is one that could
\* have run alone, at its commit, on the levels as they then were, although its
\* values were quoted from an unlocked read and its levels were read before; and
\* the entry posted for it is the value that moved.
THEOREM ConcurrentIsAtomic == Spec => ImplementsAtomicStock
<1>1. Init => Atomic!Init
  <2>1. Atomic!Keys = Keys /\ Atomic!EmptyLevel = EmptyLevel
    BY DEF Atomic!Keys, Keys, Atomic!EmptyLevel, EmptyLevel
  <2> QED  BY <2>1 DEF Init, Atomic!Init
<1>2. RInv /\ [Next]_vars => [Atomic!Next]_(Atomic!stockVars)
  BY StepSimulates
<1> QED  BY <1>1, <1>2, ReplaysInvariant, PTL DEF Spec, Atomic!Spec, ImplementsAtomicStock

-----------------------------------------------------------------------------
(* Transfers.                                                                *)

\* m's transfer_out is among ms.
Matched(m, ms) ==
  \E n \in ms : /\ n.kind = "transfer_out" /\ n.doc = m.doc /\ n.line = m.line
                /\ n.qty = -m.qty /\ n.value = -m.value /\ n.snap = m.snap

LEMMA TransferInMatched ==
  ASSUME RInv, NEW s \in Sessions, pc[s] = "apply", NEW m \in Written(s), m.kind = "transfer_in"
  PROVE  Matched(m, ledger \cup Written(s))
<1> DEFINE c == cmd[s]
<1>1. c \in Commands /\ out[s] \in Seq(LawfulMovements)
  BY WrittenAsRequested
<1>2. PICK i \in 1..Len(out[s]) : m = out[s][i]
  BY <1>1 DEF Written
<1> DEFINE req == Requests(c)[i]
           pair == Pair(c, req, ledger \cup {out[s][j] : j \in 1..(i - 1)})
           sources == {n \in ledger \cup {out[s][j] : j \in 1..(i - 1)} :
                    /\ n.line = req.line
                    /\ \/ req.kind = "transfer_in" /\ n.kind = "transfer_out" /\ n.doc = req.doc
                       \/ req.kind = "purchase_reversal" /\ n.kind = "purchase" /\ n.doc = c.of}
<1>3. PICK lvl : Admissible(lvl, req, pair) /\ m = Atomic!MovementOf(req, lvl, pair)
  <2>1. PICK lv : Trace(c, ledger, lv, out[s])
    BY DEF RInv, Replays, Replayed
  <2>2. Admissible(lv[i - 1][req.key], req, pair) /\ out[s][i] = Atomic!MovementOf(req, lv[i - 1][req.key], pair)
    BY <2>1 DEF Trace
  <2> QED  BY <1>2, <2>2
<1>4. m = [doc |-> req.doc, line |-> req.line, kind |-> req.kind, key |-> req.key, qty |-> req.qty,
           value |-> Valued(lvl, req, pair).value, snap |-> Valued(lvl, req, pair).snap, seq |-> lvl.seq + 1]
  BY <1>3, SameValuation DEF Atomic!MovementOf
<1>5. req.kind = "transfer_in" /\ m.doc = req.doc /\ m.line = req.line /\ m.qty = req.qty
  BY <1>4
<1>6. pair # None /\ pair.qty = -req.qty
  BY <1>3, <1>5 DEF Admissible, ValuationAccepted, TransferInAccepted
<1>7. m.value = -pair.value /\ m.snap = pair.snap
  BY <1>4, <1>5 DEF Valued, Paired
<1>8. pair \in sources
  <2>1. pair = IF sources = {} THEN None ELSE CHOOSE n \in sources : TRUE
    BY Zenon DEF Pair
  <2> HIDE DEF pair, sources
  <2> QED  BY <1>6, <2>1
<1>9. pair.kind = "transfer_out" /\ pair.doc = m.doc /\ pair.line = m.line
      /\ pair \in ledger \cup Written(s)
  <2>1. {out[s][j] : j \in 1..(i - 1)} \subseteq Written(s)
    BY <1>1 DEF Written
  <2> HIDE DEF req, pair
  <2> QED  BY <1>5, <1>8, <2>1
<1>10. req.qty \in Int /\ m.value \in Int /\ pair.value \in Int
  <2>1. pair \in LawfulMovements /\ m \in LawfulMovements
    BY <1>9, WrittenLawful DEF RInv, LawfulState, CommittedOK
  <2> QED  BY <1>5, <2>1 DEF LawfulMovements, Movements
<1> HIDE DEF req, pair, sources
<1>11. pair.qty = -m.qty /\ pair.value = -m.value
  BY <1>5, <1>6, <1>7, <1>10
<1> QED  BY <1>7, <1>9, <1>11 DEF Matched

LEMMA StepConserves == RInv /\ TransfersConserve /\ [Next]_vars => TransfersConserve'
<1> SUFFICES ASSUME RInv, TransfersConserve, [Next]_vars PROVE TransfersConserve'
  OBVIOUS
<1>1. ASSUME NEW s \in Sessions, Commit(s) PROVE TransfersConserve'
  <2>1. ledger' = ledger \cup Written(s) /\ pc[s] = "apply"
    BY <1>1 DEF Commit, Applied
  <2>2. ASSUME NEW m \in ledger', m.kind = "transfer_in" PROVE Matched(m, ledger')
    <3>1. CASE m \in ledger
      BY <2>1, <2>2, <3>1 DEF TransfersConserve, Matched
    <3>2. CASE m \in Written(s)
      BY <2>1, <2>2, <3>2, TransferInMatched
    <3> QED  BY <2>1, <3>1, <3>2
  <2> QED  BY <2>2 DEF TransfersConserve, Matched
<1>2. ASSUME UNCHANGED ledger PROVE TransfersConserve'
  BY <1>2 DEF TransfersConserve
<1>3. ASSUME NEW s \in Sessions, SessionStep(s), ~Commit(s) PROVE UNCHANGED ledger
  BY <1>3 DEF SessionStep, Begin, AnswerFromStore, LockTargets, InsertHeader, LockRow, RowsLocked,
              ApplyRequest, Refuse, committed
<1>4. CASE \E s \in Sessions : (\E c \in Commands : Submit(s, c)) \/ Crash(s)
  BY <1>2, <1>4 DEF Submit, Crash, committed
<1>5. CASE \E t : ArchiveTarget(t) \/ ArchiveProduct(t)
  BY <1>2, <1>5 DEF ArchiveTarget, ArchiveProduct, committed
<1>6. CASE UNCHANGED vars
  BY <1>2, <1>6 DEF vars
<1> QED  BY <1>1, <1>2, <1>3, <1>4, <1>5, <1>6 DEF Next

\* A transfer moves value, it never makes or loses any: what arrives is exactly
\* what left, in quantity, value and cost, for any documents that run between.
THEOREM TransfersLoseNothing == Spec => []TransfersConserve
<1>1. Init => TransfersConserve
  BY DEF Init, TransfersConserve
<1> QED  BY <1>1, StepConserves, ReplaysInvariant, PTL DEF Spec

-----------------------------------------------------------------------------
(* The books.  What a command adds to the valuation of the stock is the sum *)
(* of what its movements are worth, and that is what it posts.              *)

\* The valuation of a whole stock.
Worth(levels) == Total([k \in Keys |-> levels[k].valuation])

KeptBooks ==
  /\ IsFiniteSet(DOMAIN gl) /\ gl \in [DOMAIN gl -> Int]
  /\ BooksMatchStock

LEMMA KeysFinite == IsFiniteSet(Keys)
BY IdAssumption, FS_Product DEF Keys

LEMMA WorthTyped ==
  ASSUME NEW levels \in [Keys -> Levels]
  PROVE  Worth(levels) \in Int
<1> DEFINE f == [k \in Keys |-> levels[k].valuation]
<1>1. f \in [Keys -> Int]
  BY DEF Levels
<1> HIDE DEF f
<1>2. Total(f) \in Int
  BY <1>1, KeysFinite, TotalSplits
<1> QED  BY <1>2 DEF Worth, f

\* One key at another valuation.
LEMMA WorthChanges ==
  ASSUME NEW levels \in [Keys -> Levels], NEW after \in [Keys -> Levels], NEW k \in Keys,
         \A j \in Keys \ {k} : after[j] = levels[j]
  PROVE  Worth(after) = Worth(levels) + after[k].valuation - levels[k].valuation
<1> DEFINE f == [j \in Keys |-> levels[j].valuation]
           h == [j \in Keys |-> after[j].valuation]
<1>1. f \in [Keys -> Int] /\ h \in [Keys -> Int] /\ f[k] = levels[k].valuation /\ h[k] = after[k].valuation
  BY DEF Levels
<1>2. \A j \in Keys \ {k} : h[j] = f[j]
  OBVIOUS
<1> HIDE DEF f, h
<1>3. Total(h) = Total(f) + h[k] - f[k]
  BY <1>1, <1>2, KeysFinite, TotalChanges
<1> QED  BY <1>1, <1>3 DEF Worth, f, h

\* Along a trace the valuation moves by the values of the movements.
LEMMA TraceMovesWorth ==
  ASSUME NEW c, NEW base, NEW S, S \subseteq Movements, NEW ms \in Seq(S),
         NEW lv \in [0..Len(ms) -> [Keys -> Levels]], Trace(c, base, lv, ms),
         \A i \in 1..Len(ms) : Requests(c)[i].key \in Keys
  PROVE  /\ Worth(lv[Len(ms)]) = Worth(lv[0]) + SumOf([j \in DOMAIN ms |-> ms[j].value])
         /\ SumOf([j \in DOMAIN ms |-> ms[j].value]) \in Int
<1> DEFINE n == Len(ms)
           q == [j \in DOMAIN ms |-> ms[j].value]
           p == [i \in 0..n |-> Worth(lv[i]) - Worth(lv[0])]
<1>1. n \in Nat /\ DOMAIN ms = 1..n /\ Len(q) = n
  OBVIOUS
<1>2. \A i \in 0..n : lv[i] \in [Keys -> Levels] /\ Worth(lv[i]) \in Int
  BY WorthTyped
<1>3. ASSUME NEW i \in 1..n PROVE Worth(lv[i]) = Worth(lv[i - 1]) + ms[i].value
  <2> DEFINE key == Requests(c)[i].key
             lvl == lv[i - 1][key]
  <2>1. key \in Keys /\ i - 1 \in 0..n /\ i \in 0..n
    BY <1>1
  <2>2. lv[i] = [lv[i - 1] EXCEPT ![key] = ApplyMovement(lvl, Requests(c)[i].qty, ms[i].value)]
    BY <1>1 DEF Trace
  <2>3. lv[i - 1] \in [Keys -> Levels] /\ lv[i] \in [Keys -> Levels]
    BY <1>2, <2>1
  <2>4. /\ lv[i][key] = ApplyMovement(lvl, Requests(c)[i].qty, ms[i].value)
        /\ \A j \in Keys \ {key} : lv[i][j] = lv[i - 1][j]
    BY <2>1, <2>2, <2>3
  <2>5. ApplyMovement(lvl, Requests(c)[i].qty, ms[i].value).valuation = lvl.valuation + ms[i].value
    BY DEF ApplyMovement
  <2>6. ms[i].value \in Int /\ lvl.valuation \in Int /\ Worth(lv[i - 1]) \in Int
    <3>1. ms[i] \in Movements
      BY <1>1
    <3> QED  BY <1>2, <2>1, <2>3, <3>1 DEF Movements, Levels
  <2> HIDE DEF key
  <2>7. Worth(lv[i]) = Worth(lv[i - 1]) + lv[i][key].valuation - lv[i - 1][key].valuation
    BY <2>1, <2>3, <2>4, WorthChanges
  <2> QED  BY <2>4, <2>5, <2>6, <2>7
<1>4. PartialSums(p, q, n)
  <2>1. p \in [0..n -> Int] /\ p[0] = 0
    BY <1>1, <1>2
  <2>2. ASSUME NEW i \in 1..n PROVE p[i] = p[i - 1] + q[i]
    <3>1. i \in 0..n /\ i - 1 \in 0..n /\ 0 \in 0..n /\ i \in DOMAIN ms
      BY <1>1
    <3>2. ms[i].value \in Int
      <4>1. ms[i] \in Movements
        BY <3>1
      <4> QED  BY <4>1 DEF Movements
    <3>3. p[i] = Worth(lv[i]) - Worth(lv[0]) /\ p[i - 1] = Worth(lv[i - 1]) - Worth(lv[0]) /\ q[i] = ms[i].value
      BY <3>1
    <3>4. Worth(lv[0]) \in Int /\ Worth(lv[i]) \in Int /\ Worth(lv[i - 1]) \in Int
      BY <1>2, <3>1
    <3> HIDE DEF p, q
    <3> QED  BY <1>3, <3>2, <3>3, <3>4
  <2> HIDE DEF p, q
  <2> QED  BY <2>1, <2>2 DEF PartialSums
<1>5. p[n] = Worth(lv[n]) - Worth(lv[0])
  BY <1>1
<1>6. SumOf(q) = p[n]
  <2> HIDE DEF p, q
  <2> QED  BY <1>1, <1>4, SumIs
<1>7. Worth(lv[n]) \in Int /\ Worth(lv[0]) \in Int
  BY <1>1, <1>2
<1> QED  BY <1>5, <1>6, <1>7

\* A committed command is worth what it posts.
LEMMA CommitMovesWorth ==
  ASSUME RInv, NEW s \in Sessions, Commit(s)
  PROVE  /\ Worth(level') = Worth(level) + SumOf(quote[s])
         /\ Worth(level) \in Int /\ SumOf(quote[s]) \in Int
<1> DEFINE c == cmd[s]
           n == Len(out[s])
<1>1. pc[s] = "apply" /\ n = Len(Requests(c)) /\ Applied(s) /\ ValuesAsQuoted(s)
  BY DEF Commit, Applied
<1>2. /\ c \in Commands /\ out[s] \in Seq(LawfulMovements) /\ n \in Nat
      /\ \A i \in 1..n : Requests(c)[i].key \in rows[s]
  BY <1>1, WrittenAsRequested
<1>3. rows[s] \in SUBSET Keys /\ level \in [Keys -> Levels]
  BY DEF RInv, LawfulState, SessionsOK, CommittedOK, LawfulLevels
<1>4. PICK lv \in [0..n -> [Keys -> Levels]] :
        /\ Trace(c, ledger, lv, out[s])
        /\ \A k \in rows[s] : lv[0][k] = level[k] /\ lv[n][k] = work[s][k]
  BY <1>1 DEF RInv, Replays, Replayed
<1> DEFINE over == Over(lv, n, rows[s], level)
<1>5. Trace(c, ledger, over, out[s])
  BY <1>2, <1>3, <1>4, TraceOverHeldKeys
<1>6. over \in [0..n -> [Keys -> Levels]]
  BY <1>3, <1>4 DEF Over
<1>7. over[0] = level
  <2>1. over[0] = [k \in Keys |-> IF k \in rows[s] THEN lv[0][k] ELSE level[k]]
    BY <1>2 DEF Over
  <2>2. \A k \in Keys : (IF k \in rows[s] THEN lv[0][k] ELSE level[k]) = level[k]
    BY <1>4
  <2> HIDE DEF over
  <2> QED  BY <1>3, <2>1, <2>2
<1>8. over[n] = level'
  <2>1. over[n] = [k \in Keys |-> IF k \in rows[s] THEN lv[n][k] ELSE level[k]]
    BY <1>2 DEF Over
  <2>2. \A k \in Keys : (IF k \in rows[s] THEN lv[n][k] ELSE level[k]) = Published(s, k)
    BY <1>4 DEF Published
  <2>3. level' = [k \in Keys |-> Published(s, k)]
    BY DEF Commit
  <2> HIDE DEF over
  <2> QED  BY <2>1, <2>2, <2>3
<1> HIDE DEF over
<1>9. \A i \in 1..n : Requests(c)[i].key \in Keys
  BY <1>2, <1>3
<1>10. LawfulMovements \subseteq Movements
  BY DEF LawfulMovements
<1>11. /\ Worth(over[n]) = Worth(over[0]) + SumOf([j \in DOMAIN out[s] |-> out[s][j].value])
       /\ SumOf([j \in DOMAIN out[s] |-> out[s][j].value]) \in Int
  BY <1>2, <1>5, <1>6, <1>9, <1>10, TraceMovesWorth
<1>12. Worth(over[n]) \in Int /\ Worth(over[0]) \in Int
  <2>1. over[n] \in [Keys -> Levels] /\ over[0] \in [Keys -> Levels]
    <3>1. n \in 0..n /\ 0 \in 0..n
      <4>1. n \in Nat
        BY <1>2
      <4> HIDE DEF n
      <4> QED  BY ONLY <4>1
    <3> QED  BY ONLY <1>6, <3>1, Zenon
  <2> QED  BY ONLY <2>1, WorthTyped, Zenon
<1> QED  BY <1>1, <1>7, <1>8, <1>11, <1>12, PostedIsMoved

LEMMA CommitKeepsBooks ==
  ASSUME RInv, KeptBooks, NEW s \in Sessions, Commit(s)
  PROVE  KeptBooks'
<1> DEFINE D == DOMAIN gl
<1> PICK d \in {cmd[s].doc} : TRUE
  OBVIOUS
<1>1. Worth(level') = Worth(level) + SumOf(quote[s]) /\ Worth(level) \in Int /\ SumOf(quote[s]) \in Int
  BY CommitMovesWorth
<1>2. d \notin D
  BY DEF Commit, Applied, RInv, Replays, Standing, InHeader, LawfulState, CommittedOK
<1>3. gl' = With(gl, d, SumOf(quote[s]))
  BY DEF Commit, PostEntry
<1>4. IsFiniteSet(D) /\ gl \in [D -> Int] /\ Worth(level) = Total(gl)
  BY DEF KeptBooks, BooksMatchStock, Worth
<1>5. DOMAIN gl' = D \cup {d} /\ gl' \in [D \cup {d} -> Int] /\ gl'[d] = SumOf(quote[s])
  BY <1>1, <1>3, <1>4 DEF With
<1>6. On(gl', D) = gl
  BY <1>2, <1>3, <1>4 DEF On, With
<1>7. IsFiniteSet(D \cup {d})
  BY <1>4, FS_AddElement
<1> HIDE DEF D
<1>8. Total(gl') = gl'[d] + Total(On(gl', D))
  BY <1>2, <1>4, <1>5, TotalAdds
<1>9. Worth(level') = Total(gl')
  BY <1>1, <1>4, <1>5, <1>6, <1>8
<1> QED  BY <1>5, <1>7, <1>9 DEF KeptBooks, BooksMatchStock, Worth

LEMMA StepKeepsBooks == RInv /\ KeptBooks /\ [Next]_vars => KeptBooks'
<1> SUFFICES ASSUME RInv, KeptBooks, [Next]_vars PROVE KeptBooks'
  OBVIOUS
<1>1. ASSUME UNCHANGED <<level, gl>> PROVE KeptBooks'
  BY <1>1 DEF KeptBooks, BooksMatchStock
<1>2. ASSUME NEW s \in Sessions, SessionStep(s), ~Commit(s) PROVE UNCHANGED <<level, gl>>
  BY <1>2 DEF SessionStep, Begin, AnswerFromStore, LockTargets, InsertHeader, LockRow, RowsLocked,
              ApplyRequest, Refuse, committed
<1>3. CASE \E s \in Sessions : (\E c \in Commands : Submit(s, c)) \/ Crash(s)
  BY <1>1, <1>3 DEF Submit, Crash, committed
<1>4. CASE \E t : ArchiveTarget(t) \/ ArchiveProduct(t)
  BY <1>1, <1>4 DEF ArchiveTarget, ArchiveProduct, committed
<1>5. CASE UNCHANGED vars
  BY <1>1, <1>5 DEF vars
<1> QED  BY <1>1, <1>2, <1>3, <1>4, <1>5, CommitKeepsBooks DEF Next

LEMMA InitKeepsBooks == Init => KeptBooks
<1> SUFFICES ASSUME Init PROVE KeptBooks
  OBVIOUS
<1>1. level = [k \in Keys |-> EmptyLevel] /\ DOMAIN gl = {} /\ gl \in [{} -> Int]
  BY DEF Init
<1>2. Total(gl) = 0
  BY <1>1, TotalOfNone
<1>3. Worth(level) = 0
  <2> DEFINE f == [k \in Keys |-> level[k].valuation]
             T == {S \in SUBSET Keys : Total(On(f, S)) = 0}
  <2>1. f \in [Keys -> Int] /\ \A k \in Keys : f[k] = 0
    BY <1>1 DEF EmptyLevel
  <2>2. On(f, Keys) = f
    BY DEF On
  <2>3. {} \in T
    BY TotalOfNone DEF On
  <2> HIDE DEF f
  <2>4. ASSUME NEW S \in SUBSET Keys, NEW k \in S, S \ {k} \in T PROVE S \in T
    <3>1. Total(On(f, S)) = f[k] + Total(On(f, S \ {k}))
      BY <2>1, KeysFinite, TotalTakes
    <3> QED  BY <2>1, <2>4, <3>1
  <2>5. Keys \in T
    <3> HIDE DEF T
    <3> QED  BY <2>3, <2>4, KeysFinite, Building
  <2>6. Total(f) = 0
    BY <2>2, <2>5
  <2> QED  BY <2>6 DEF Worth, f
<1> QED  BY <1>1, <1>2, <1>3, FS_EmptySet DEF KeptBooks, BooksMatchStock, Worth

\* The books agree with the stock, whatever is quoted, refused, lost or run
\* between a quote and its posting (the back office's reconciliation).
THEOREM BooksFollowStock == Spec => []BooksMatchStock
<1>1. KeptBooks => BooksMatchStock
  BY DEF KeptBooks
<1> QED  BY <1>1, InitKeepsBooks, StepKeepsBooks, ReplaysInvariant, PTL DEF Spec
=============================================================================
