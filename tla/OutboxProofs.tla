---------------------------- MODULE OutboxProofs ----------------------------
(***************************************************************************)
(* What holds of the two outboxes for every number of rows, overlapping    *)
(* calls, attempts and crashes.                                            *)
(*                                                                         *)
(* The relay (OutboxPublisher): a call works on its own view of the rows   *)
(* it has locked, and a view may be rolled back or committed at any time;  *)
(* so every claim about a stored row is made of the views as well, and     *)
(* what the sink has seen only grows.                                      *)
(*                                                                         *)
(* Credential delivery (CredentialDelivery, instantiated as Delivery): a   *)
(* drain finalises by id what it claimed, so the claims are made of the    *)
(* outcomes the drains carry, and of the last delivery of a parent that    *)
(* was finalised.  MaxAttempts, MaxCrashes and crashes are names of both   *)
(* modules; each theorem is about one module alone.                        *)
(***************************************************************************)
EXTENDS OutboxPublisher, TLAPS

CONSTANTS Deliveries, Parents, ParentOf, Drains, Limit, None

VARIABLES row, parent, job, result, arrived

Delivery == INSTANCE CredentialDelivery

EventRows == [status : {"absent", "pending", "published", "dead"}, attempts : Nat, due : BOOLEAN]

Shapes ==
  /\ event \in [Events -> EventRows]
  /\ locked \in [Calls -> SUBSET Events]
  /\ todo \in [Calls -> SUBSET Events]
  /\ mine \in [Calls -> [Events -> EventRows]]
  /\ refused \in [Events -> 0..MaxAttempts]
  /\ delivered \subseteq Events

\* What a row says of event e is no more than what the sink has seen, which has
\* accepted the events of D and refused e n times.
Backed(r, e, D, n) ==
  /\ r.attempts <= n
  /\ r.status = "published" => e \in D
  /\ r.status = "dead" => n = MaxAttempts
  /\ r.status \in {"absent", "pending"} => r.attempts < MaxAttempts

StoredBacked == \A e \in Events : Backed(event[e], e, delivered, refused[e])
ViewsBacked  == \A c \in Calls : \A e \in locked[c] : Backed(mine[c][e], e, delivered, refused[e])
TodoPending  == \A c \in Calls : todo[c] \subseteq locked[c] /\ \A e \in todo[c] : mine[c][e].status = "pending"

IInv == Shapes /\ StoredBacked /\ ViewsBacked /\ TodoPending

\* The sink's memory only grows: what was backed stays backed.
LEMMA BackedGrows ==
  ASSUME NEW r \in EventRows, NEW e, NEW D, NEW n \in 0..MaxAttempts,
         NEW G, NEW m \in 0..MaxAttempts,
         Backed(r, e, D, n), D \subseteq G, n <= m
  PROVE  Backed(r, e, G, m)
BY OutboxAssumption DEF Backed, EventRows

\* The row after a refusal is backed by one refusal more, and is not pending
\* at the last attempt.
LEMMA FailureBacked ==
  ASSUME NEW r \in EventRows, NEW e, NEW D, NEW n \in 0..MaxAttempts,
         Backed(r, e, D, n), r.status = "pending"
  PROVE  /\ AfterFailure(r) \in EventRows
         /\ Backed(AfterFailure(r), e, D, IF n < MaxAttempts THEN n + 1 ELSE n)
<1>1. r = [status |-> "pending", attempts |-> r.attempts, due |-> r.due] /\ r.attempts \in Nat /\ r.due \in BOOLEAN
  BY DEF EventRows
<1>2. CASE r.attempts + 1 >= MaxAttempts
  <2>1. AfterFailure(r) = [status |-> "dead", attempts |-> r.attempts + 1, due |-> r.due]
    BY <1>1, <1>2 DEF AfterFailure
  <2> QED  BY <1>1, <1>2, <2>1, OutboxAssumption DEF Backed, EventRows
<1>3. CASE ~(r.attempts + 1 >= MaxAttempts)
  <2>1. AfterFailure(r) = [status |-> "pending", attempts |-> r.attempts + 1, due |-> FALSE]
    BY <1>1, <1>3 DEF AfterFailure
  <2> QED  BY <1>1, <1>3, <2>1, OutboxAssumption DEF Backed, EventRows
<1> QED  BY <1>2, <1>3

LEMMA Started == Init => IInv
BY OutboxAssumption DEF Init, IInv, Shapes, StoredBacked, ViewsBacked, TodoPending, Backed, EventRows

-----------------------------------------------------------------------------
(* The steps *)

LEMMA EmitStep ==
  ASSUME IInv, NEW e \in Events, EmitTx(e)
  PROVE  IInv'
<1> DEFINE s == [event[e] EXCEPT !.status = "pending"]
<1>1. event[e] \in EventRows /\ Backed(event[e], e, delivered, refused[e])
  BY DEF IInv, Shapes, StoredBacked
<1>2. s \in EventRows /\ Backed(s, e, delivered, refused[e])
  BY <1>1 DEF EmitTx, Backed, EventRows
<1>3. event' = [event EXCEPT ![e] = s]
  BY DEF EmitTx
<1> HIDE DEF s
<1>4. Shapes'
  BY <1>2, <1>3 DEF EmitTx, IInv, Shapes
<1>5. StoredBacked'
  BY <1>2, <1>3 DEF EmitTx, IInv, Shapes, StoredBacked
<1>6. ViewsBacked' /\ TodoPending'
  BY DEF EmitTx, IInv, ViewsBacked, TodoPending
<1> QED  BY <1>4, <1>5, <1>6 DEF IInv

LEMMA BackoffStep ==
  ASSUME IInv, NEW e \in Events, BackoffEnds(e)
  PROVE  IInv'
<1> DEFINE s == [event[e] EXCEPT !.due = TRUE]
<1>1. event[e] \in EventRows /\ Backed(event[e], e, delivered, refused[e])
  BY DEF IInv, Shapes, StoredBacked
<1>2. s \in EventRows /\ Backed(s, e, delivered, refused[e])
  BY <1>1 DEF BackoffEnds, Backed, EventRows
<1>3. event' = [event EXCEPT ![e] = s]
  BY DEF BackoffEnds
<1> HIDE DEF s
<1>4. Shapes'
  BY <1>2, <1>3 DEF BackoffEnds, IInv, Shapes
<1>5. StoredBacked'
  BY <1>2, <1>3 DEF BackoffEnds, IInv, Shapes, StoredBacked
<1>6. ViewsBacked' /\ TodoPending'
  BY DEF BackoffEnds, IInv, ViewsBacked, TodoPending
<1> QED  BY <1>4, <1>5, <1>6 DEF IInv

LEMMA ClaimStep ==
  ASSUME IInv, NEW c \in Calls, NEW batch \in SUBSET Events, ClaimBatch(c, batch)
  PROVE  IInv'
<1>1. Shapes' /\ StoredBacked'
  BY DEF ClaimBatch, IInv, Shapes, StoredBacked
<1>2. ViewsBacked'
  BY DEF ClaimBatch, IInv, Shapes, StoredBacked, ViewsBacked
<1>3. TodoPending'
  BY DEF ClaimBatch, IInv, Shapes, TodoPending
<1> QED  BY <1>1, <1>2, <1>3 DEF IInv

LEMMA DeliverStep ==
  ASSUME IInv, NEW c \in Calls, NEW e \in Events, Deliver(c, e)
  PROVE  IInv'
<1> DEFINE r == mine[c][e]
           s == [r EXCEPT !.status = "published"]
<1>1. r \in EventRows /\ e \in locked[c] /\ Backed(r, e, delivered, refused[e])
  BY DEF IInv, Shapes, Deliver, TodoPending, ViewsBacked
<1>2. mine' = [mine EXCEPT ![c] = [mine[c] EXCEPT ![e] = s]]
  BY DEF Deliver
<1>3. s \in EventRows /\ Backed(s, e, delivered \cup {e}, refused[e])
  BY <1>1 DEF Backed, EventRows
<1> HIDE DEF s, r
<1>4. Shapes'
  <2>1. mine' \in [Calls -> [Events -> EventRows]]
    BY <1>2, <1>3 DEF IInv, Shapes
  <2>2. todo' \in [Calls -> SUBSET Events] /\ delivered' \subseteq Events
    BY DEF Deliver, IInv, Shapes
  <2> QED  BY <2>1, <2>2 DEF Deliver, IInv, Shapes
<1>5. StoredBacked'
  BY DEF Deliver, IInv, Shapes, StoredBacked, Backed
<1>6. ViewsBacked'
  <2>1. SUFFICES ASSUME NEW d \in Calls, NEW x \in locked[d]
                 PROVE  Backed(mine'[d][x], x, delivered', refused'[x])
    BY DEF ViewsBacked, Deliver
  <2>2. x \in Events /\ refused' = refused /\ delivered' = delivered \cup {e}
    BY DEF IInv, Shapes, Deliver
  <2>3. CASE d = c /\ x = e
    BY <1>2, <1>3, <2>2, <2>3 DEF IInv, Shapes
  <2>4. CASE ~(d = c /\ x = e)
    <3>1. mine'[d][x] = mine[d][x]
      BY <1>2, <2>2, <2>4 DEF IInv, Shapes
    <3> QED  BY <2>2, <3>1 DEF IInv, ViewsBacked, Backed
  <2> QED  BY <2>3, <2>4
<1>7. TodoPending'
  BY <1>2 DEF Deliver, IInv, Shapes, TodoPending
<1> QED  BY <1>4, <1>5, <1>6, <1>7 DEF IInv

LEMMA RefusedStep ==
  ASSUME IInv, NEW c \in Calls, NEW e \in Events, SinkFails(c, e)
  PROVE  IInv'
<1> DEFINE r == mine[c][e]
           s == AfterFailure(r)
           n == IF refused[e] < MaxAttempts THEN refused[e] + 1 ELSE refused[e]
<1>1. r \in EventRows /\ e \in locked[c] /\ r.status = "pending" /\ Backed(r, e, delivered, refused[e])
  BY DEF IInv, Shapes, SinkFails, TodoPending, ViewsBacked
<1>2. mine' = [mine EXCEPT ![c] = [mine[c] EXCEPT ![e] = s]] /\ refused' = [refused EXCEPT ![e] = n]
  BY DEF SinkFails
<1>3. refused[e] \in 0..MaxAttempts
  BY DEF IInv, Shapes
<1>4. n \in 0..MaxAttempts /\ refused[e] <= n
  BY <1>3, OutboxAssumption
<1>5. s \in EventRows /\ Backed(s, e, delivered, n)
  BY <1>1, <1>3, FailureBacked
<1> HIDE DEF s, r, n
<1>6. Shapes'
  BY <1>2, <1>4, <1>5 DEF SinkFails, IInv, Shapes
<1>7. \A x \in Events : refused'[x] \in 0..MaxAttempts /\ refused[x] \in 0..MaxAttempts /\ refused[x] <= refused'[x]
  BY <1>2, <1>4, OutboxAssumption DEF IInv, Shapes
<1>8. StoredBacked'
  <2>1. SUFFICES ASSUME NEW x \in Events PROVE Backed(event[x], x, delivered, refused'[x])
    BY DEF StoredBacked, SinkFails
  <2> QED  BY <1>7, BackedGrows DEF IInv, Shapes, StoredBacked
<1>9. ViewsBacked'
  <2>1. SUFFICES ASSUME NEW d \in Calls, NEW x \in locked[d]
                 PROVE  Backed(mine'[d][x], x, delivered, refused'[x])
    BY DEF ViewsBacked, SinkFails
  <2>2. x \in Events
    BY DEF IInv, Shapes
  <2>3. CASE d = c /\ x = e
    BY <1>2, <1>5, <2>2, <2>3 DEF IInv, Shapes
  <2>4. CASE ~(d = c /\ x = e)
    <3>1. mine'[d][x] = mine[d][x] /\ mine[d][x] \in EventRows
      BY <1>2, <2>2, <2>4 DEF IInv, Shapes
    <3> QED  BY <1>7, <2>2, <3>1, BackedGrows DEF IInv, ViewsBacked
  <2> QED  BY <2>3, <2>4
<1>10. TodoPending'
  BY <1>2 DEF SinkFails, IInv, Shapes, TodoPending
<1> QED  BY <1>6, <1>8, <1>9, <1>10 DEF IInv

LEMMA CommitStep ==
  ASSUME IInv, NEW c \in Calls, CommitBatch(c)
  PROVE  IInv'
<1>1. \A e \in Events : Stored(c, e) \in EventRows /\ Backed(Stored(c, e), e, delivered, refused[e])
  BY DEF Stored, IInv, Shapes, StoredBacked, ViewsBacked
<1> QED  BY <1>1 DEF CommitBatch, IInv, Shapes, StoredBacked, ViewsBacked, TodoPending

LEMMA RollBackStep ==
  ASSUME IInv, NEW c \in Calls, RollBack(c)
  PROVE  IInv'
BY DEF RollBack, IInv, Shapes, StoredBacked, ViewsBacked, TodoPending

\* The inductive invariant of the relay: what a row says of an event, committed
\* or in a call's view, is backed by what the sink has seen.
THEOREM RowsAreBacked == Spec => []IInv
<1>1. IInv /\ UNCHANGED vars => IInv'
  BY DEF vars, IInv, Shapes, StoredBacked, ViewsBacked, TodoPending
<1>2. IInv /\ [Next]_vars => IInv'
  BY <1>1, EmitStep, BackoffStep, ClaimStep, DeliverStep, RefusedStep, CommitStep, RollBackStep DEF Next, Handle
<1> QED  BY <1>2, Started, PTL DEF Spec

\* At-least-once: an event is published only if the sink accepted it, whatever
\* calls overlap and whatever is rolled back after a delivery.
THEOREM AtLeastOnce == Spec => []PublishedWasDelivered
<1>1. IInv => PublishedWasDelivered
  BY DEF IInv, StoredBacked, Backed, PublishedWasDelivered
<1> QED  BY <1>1, RowsAreBacked, PTL

\* An event is dead-lettered only after the sink refused it MaxAttempts times:
\* rollbacks forget refusals, they never invent one.
THEOREM NotGivenUpEarly == Spec => []DeadWasRefused
<1>1. IInv => DeadWasRefused
  BY DEF IInv, StoredBacked, Backed, DeadWasRefused
<1> QED  BY <1>1, RowsAreBacked, PTL

-----------------------------------------------------------------------------
(* Credential delivery *)

DeliveryRows ==
  [status : {"absent", "pending", "processing", "failed", "sent", "dead"}, attempts : Nat,
   due : BOOLEAN, lease : {"none", "live", "past"}, payload : BOOLEAN]

ParentStates == [status : {"pending", "failed", "sent", "dead"}, attempts : Nat]

Jobs     == [attempts : Nat, payload : BOOLEAN]
Outcomes == [d : Deliveries, ok : BOOLEAN]

DeliveryShapes ==
  /\ row \in [Deliveries -> DeliveryRows]
  /\ parent \in [Parents -> ParentStates]
  /\ job \in [Drains -> [Deliveries -> Jobs \cup {None}]]
  /\ result \in [Drains -> Outcomes \cup {None}]

\* A success that a drain is still to write has arrived, and a drain writes what it claimed.
CarriedArrived ==
  \A w \in Drains : result[w] # None =>
    /\ job[w][result[w].d] # None
    /\ result[w].ok => result[w].d \in arrived

\* The state of a delivery that a parent shows.
Shown(p, d) == parent[p] = [status |-> row[d].status, attempts |-> row[d].attempts]

\* A parent shows one of its deliveries, but while one is processed.
MirrorsOne ==
  \A p \in Parents :
    \/ /\ parent[p] = [status |-> "pending", attempts |-> 0]
       /\ \A d \in Deliveries : ParentOf[d] = p => row[d].status = "absent"
    \/ \E d \in Deliveries :
         ParentOf[d] = p /\ row[d].status # "absent" /\ (row[d].status = "processing" \/ Shown(p, d))

DeliveryInv ==
  /\ DeliveryShapes
  /\ \A d \in Deliveries : row[d].status = "absent" => row[d].attempts = 0
  /\ Delivery!SentHasArrived
  /\ CarriedArrived
  /\ MirrorsOne

LEMMA DeliveryStarts ==
  Delivery!Init => DeliveryInv
BY DEF Delivery!Init, Delivery!Idle, DeliveryInv, DeliveryShapes, DeliveryRows, ParentStates, CarriedArrived, MirrorsOne,
   Delivery!SentHasArrived

\* A step that changes one row, and no parent.
LEMMA RowStep ==
  ASSUME DeliveryInv, NEW d \in Deliveries, NEW r \in DeliveryRows, row' = [row EXCEPT ![d] = r],
         UNCHANGED <<parent, job, result, arrived>>,
         \/ r.status = row[d].status /\ r.attempts = row[d].attempts
         \/ row[d].status = "absent" /\ r.status = "pending" /\ r.attempts = 0
  PROVE  DeliveryInv'
<1>1. row' \in [Deliveries -> DeliveryRows] /\ row'[d] = r /\ \A x \in Deliveries \ {d} : row'[x] = row[x]
  BY DEF DeliveryInv, DeliveryShapes
<1>2. DeliveryShapes' /\ CarriedArrived'
  BY <1>1 DEF DeliveryInv, DeliveryShapes, CarriedArrived
<1>3. \A x \in Deliveries : row'[x].status = "absent" => row'[x].attempts = 0
  BY <1>1 DEF DeliveryInv
<1>4. Delivery!SentHasArrived'
  BY <1>1 DEF DeliveryInv, Delivery!SentHasArrived
<1>5. MirrorsOne'
  <2> DEFINE Blank(p) == /\ parent[p] = [status |-> "pending", attempts |-> 0]
                         /\ \A x \in Deliveries : ParentOf[x] = p => row'[x].status = "absent"
             Shows(p) == \E x \in Deliveries :
                           /\ ParentOf[x] = p /\ row'[x].status # "absent"
                           /\ \/ row'[x].status = "processing"
                              \/ parent[p] = [status |-> row'[x].status, attempts |-> row'[x].attempts]
  <2> SUFFICES ASSUME NEW p \in Parents PROVE Blank(p) \/ Shows(p)
    BY DEF MirrorsOne, Shown
  <2>1. CASE \E x \in Deliveries :
               ParentOf[x] = p /\ row[x].status # "absent" /\ (row[x].status = "processing" \/ Shown(p, x))
    <3>1. PICK x \in Deliveries :
            ParentOf[x] = p /\ row[x].status # "absent" /\ (row[x].status = "processing" \/ Shown(p, x))
      BY <2>1
    <3>2. row'[x].status = row[x].status /\ row'[x].attempts = row[x].attempts
      BY <1>1, <3>1
    <3> QED  BY <3>1, <3>2 DEF Shown
  <2>2. CASE /\ parent[p] = [status |-> "pending", attempts |-> 0]
             /\ \A x \in Deliveries : ParentOf[x] = p => row[x].status = "absent"
    <3>1. CASE ParentOf[d] = p /\ r.status = "pending"
      BY <1>1, <2>2, <3>1
    <3>2. CASE ~(ParentOf[d] = p /\ r.status = "pending")
      BY <1>1, <2>2, <3>2
    <3> QED  BY <3>1, <3>2
  <2> QED  BY <2>1, <2>2 DEF DeliveryInv, MirrorsOne
<1> QED  BY <1>2, <1>3, <1>4, <1>5 DEF DeliveryInv

LEMMA EnqueueAndTimeSteps ==
  ASSUME DeliveryInv, NEW d \in Deliveries, Delivery!EnqueueTx(d) \/ Delivery!LeaseEnds(d) \/ Delivery!BackoffEnds(d)
  PROVE  DeliveryInv'
<1>1. row[d] \in DeliveryRows /\ (row[d].status = "absent" => row[d].attempts = 0)
  BY DEF DeliveryInv, DeliveryShapes
<1>2. CASE Delivery!EnqueueTx(d)
  <2> DEFINE r1 == [row[d] EXCEPT !.status = "pending"]
             r  == [r1 EXCEPT !.payload = TRUE]
  <2>1. row' = [row EXCEPT ![d] = r] /\ row[d].status = "absent" /\ UNCHANGED <<parent, job, result, arrived>>
    BY <1>2 DEF Delivery!EnqueueTx
  <2>2. r1 \in DeliveryRows /\ r1.status = "pending" /\ r1.attempts = 0
    BY <1>1, <2>1 DEF DeliveryRows
  <2> HIDE DEF r1
  <2>3. r \in DeliveryRows /\ r.status = "pending" /\ r.attempts = 0
    BY <2>2 DEF DeliveryRows
  <2> HIDE DEF r
  <2> QED  BY <2>1, <2>3, RowStep
<1>3. CASE Delivery!LeaseEnds(d)
  <2> DEFINE r == [row[d] EXCEPT !.lease = "past"]
  <2>1. row' = [row EXCEPT ![d] = r] /\ UNCHANGED <<parent, job, result, arrived>>
    BY <1>3 DEF Delivery!LeaseEnds
  <2>2. r \in DeliveryRows /\ r.status = row[d].status /\ r.attempts = row[d].attempts
    BY <1>1 DEF DeliveryRows
  <2> HIDE DEF r
  <2> QED  BY <2>1, <2>2, RowStep
<1>4. CASE Delivery!BackoffEnds(d)
  <2> DEFINE r == [row[d] EXCEPT !.due = TRUE]
  <2>1. row' = [row EXCEPT ![d] = r] /\ UNCHANGED <<parent, job, result, arrived>>
    BY <1>4 DEF Delivery!BackoffEnds
  <2>2. r \in DeliveryRows /\ r.status = row[d].status /\ r.attempts = row[d].attempts
    BY <1>1 DEF DeliveryRows
  <2> HIDE DEF r
  <2> QED  BY <2>1, <2>2, RowStep
<1> QED  BY <1>2, <1>3, <1>4

LEMMA ClaimRowsStep ==
  ASSUME DeliveryInv, NEW w \in Drains, NEW batch \in SUBSET Deliveries, Delivery!Claim(w, batch)
  PROVE  DeliveryInv'
<1>1. /\ result[w] = None /\ UNCHANGED <<parent, result, arrived>>
      /\ job' = [job EXCEPT ![w] = [d \in Deliveries |->
                   IF d \in batch THEN [attempts |-> row[d].attempts, payload |-> row[d].payload] ELSE None]]
      /\ \A d \in batch : row[d].status # "absent"
  BY DEF Delivery!Claim, Delivery!Claimable
<1>2. ASSUME NEW d \in Deliveries
      PROVE  /\ d \notin batch => row'[d] = row[d]
             /\ d \in batch => row'[d].status = "processing"
             /\ row'[d] \in DeliveryRows
             /\ row[d].status # "absent" => row'[d].status # "absent"
  <2> DEFINE r1 == [row[d] EXCEPT !.status = "processing"]
             r  == [r1 EXCEPT !.lease = "live"]
  <2>1. row'[d] = IF d \in batch THEN r ELSE row[d]
    BY DEF Delivery!Claim
  <2>2. row[d] \in DeliveryRows
    BY DEF DeliveryInv, DeliveryShapes
  <2>3. r1 \in DeliveryRows /\ r1.status = "processing"
    BY <2>2 DEF DeliveryRows
  <2> HIDE DEF r1
  <2>4. r \in DeliveryRows /\ r.status = "processing"
    BY <2>3 DEF DeliveryRows
  <2> HIDE DEF r
  <2> QED  BY <2>1, <2>2, <2>4
<1>3. row' \in [Deliveries -> DeliveryRows]
  <2>1. row' = [d \in Deliveries |-> row'[d]]
    BY DEF Delivery!Claim
  <2> QED  BY <1>2, <2>1
<1>4. job' \in [Drains -> [Deliveries -> Jobs \cup {None}]]
  BY <1>1 DEF DeliveryInv, DeliveryShapes, DeliveryRows, Jobs
<1>5. DeliveryShapes'
  BY <1>1, <1>3, <1>4 DEF DeliveryInv, DeliveryShapes
<1>6. \A d \in Deliveries : row'[d].status = "absent" => row'[d].attempts = 0
  BY <1>2 DEF DeliveryInv
<1>7. Delivery!SentHasArrived'
  BY <1>1, <1>2 DEF DeliveryInv, Delivery!SentHasArrived
<1>8. CarriedArrived'
  BY <1>1 DEF DeliveryInv, DeliveryShapes, CarriedArrived
<1>9. MirrorsOne'
  <2> SUFFICES ASSUME NEW p \in Parents
               PROVE  \/ /\ parent[p] = [status |-> "pending", attempts |-> 0]
                         /\ \A x \in Deliveries : ParentOf[x] = p => row'[x].status = "absent"
                      \/ \E x \in Deliveries :
                           /\ ParentOf[x] = p /\ row'[x].status # "absent"
                           /\ \/ row'[x].status = "processing"
                              \/ parent[p] = [status |-> row'[x].status, attempts |-> row'[x].attempts]
    BY <1>1 DEF MirrorsOne, Shown
  <2>1. CASE /\ parent[p] = [status |-> "pending", attempts |-> 0]
             /\ \A x \in Deliveries : ParentOf[x] = p => row[x].status = "absent"
    BY <1>1, <1>2, <2>1
  <2>2. ASSUME NEW x \in Deliveries, ParentOf[x] = p, row[x].status # "absent",
               row[x].status = "processing" \/ Shown(p, x)
        PROVE  /\ row'[x].status # "absent"
               /\ \/ row'[x].status = "processing"
                  \/ parent[p] = [status |-> row'[x].status, attempts |-> row'[x].attempts]
    <3>1. CASE x \in batch
      BY <1>2, <3>1
    <3>2. CASE x \notin batch
      BY <1>2, <2>2, <3>2 DEF Shown
    <3> QED  BY <3>1, <3>2
  <2> QED  BY <2>1, <2>2 DEF DeliveryInv, MirrorsOne
<1> QED  BY <1>5, <1>6, <1>7, <1>8, <1>9 DEF DeliveryInv

LEMMA SendMessageStep ==
  ASSUME DeliveryInv, NEW w \in Drains, NEW d \in Deliveries, Delivery!Send(w, d)
  PROVE  DeliveryInv'
<1>1. PICK ok \in BOOLEAN : /\ result' = [result EXCEPT ![w] = [d |-> d, ok |-> ok]]
                            /\ ok => d \in arrived'
  BY DEF Delivery!Send
<1>2. job[w][d] # None /\ arrived \subseteq arrived' /\ UNCHANGED <<row, parent, job>>
  BY DEF Delivery!Send, Delivery!Claimed
<1>3. DeliveryShapes'
  BY <1>1, <1>2 DEF DeliveryInv, DeliveryShapes, Outcomes
<1>4. CarriedArrived'
  BY <1>1, <1>2 DEF DeliveryInv, DeliveryShapes, CarriedArrived
<1>5. MirrorsOne' /\ Delivery!SentHasArrived'
  BY <1>2 DEF DeliveryInv, MirrorsOne, Shown, Delivery!SentHasArrived
<1> QED  BY <1>2, <1>3, <1>4, <1>5 DEF DeliveryInv

\* The row is written as its parent is: whatever has happened to it since the claim.
LEMMA FinalizeStep ==
  ASSUME ParentOf \in [Deliveries -> Parents], DeliveryInv, NEW w \in Drains, Delivery!Finalize(w)
  PROVE  DeliveryInv'
<1> DEFINE d  == result[w].d
           n  == job[w][d].attempts + 1
           st == Delivery!Outcome(result[w].ok, n)
           r  == [status |-> st, attempts |-> n, lease |-> "none",
                  due |-> IF st = "failed" THEN FALSE ELSE row[d].due, payload |-> Delivery!PayloadAfter(d, st)]
           s  == [status |-> st, attempts |-> n]
<1>1. /\ row' = [row EXCEPT ![d] = r] /\ parent' = [parent EXCEPT ![ParentOf[d]] = s]
      /\ job' = [job EXCEPT ![w][d] = None] /\ result' = [result EXCEPT ![w] = None]
      /\ arrived' = arrived /\ result[w] # None
  BY DEF Delivery!Finalize, Delivery!Mirrored
<1>2. d \in Deliveries /\ job[w][d] # None /\ (result[w].ok => d \in arrived) /\ result[w].ok \in BOOLEAN
  BY <1>1 DEF DeliveryInv, DeliveryShapes, Outcomes, CarriedArrived
<1>3. n \in Nat /\ ParentOf[d] \in Parents
  BY <1>2 DEF DeliveryInv, DeliveryShapes, Jobs
<1>4. st \in {"sent", "dead", "failed"} /\ (st = "sent" => d \in arrived)
  BY <1>2 DEF Delivery!Outcome
<1>5. r \in DeliveryRows /\ s \in ParentStates
  <2>1. row[d].due \in BOOLEAN /\ Delivery!PayloadAfter(d, st) \in BOOLEAN
    BY <1>2 DEF DeliveryInv, DeliveryShapes, DeliveryRows, Delivery!PayloadAfter
  <2> HIDE DEF st, n
  <2> QED  BY <1>3, <1>4, <2>1 DEF DeliveryRows, ParentStates
<1>6. r.status = st /\ r.attempts = n
  OBVIOUS
<1> HIDE DEF r, st, n
<1>7. /\ row' \in [Deliveries -> DeliveryRows] /\ row'[d] = r
      /\ \A x \in Deliveries \ {d} : row'[x] = row[x]
      /\ parent' \in [Parents -> ParentStates] /\ parent'[ParentOf[d]] = s
      /\ \A p \in Parents \ {ParentOf[d]} : parent'[p] = parent[p]
  <2> HIDE DEF s
  <2> QED  BY <1>1, <1>2, <1>3, <1>5 DEF DeliveryInv, DeliveryShapes
<1>8. DeliveryShapes'
  BY <1>1, <1>2, <1>7 DEF DeliveryInv, DeliveryShapes
<1>9. Delivery!SentHasArrived' /\ \A x \in Deliveries : row'[x].status = "absent" => row'[x].attempts = 0
  BY <1>1, <1>2, <1>4, <1>6, <1>7 DEF DeliveryInv, Delivery!SentHasArrived
<1>10. CarriedArrived'
  BY <1>1 DEF DeliveryInv, DeliveryShapes, CarriedArrived
<1>11. MirrorsOne'
  <2> SUFFICES ASSUME NEW p \in Parents
               PROVE  \/ /\ parent'[p] = [status |-> "pending", attempts |-> 0]
                         /\ \A x \in Deliveries : ParentOf[x] = p => row'[x].status = "absent"
                      \/ \E x \in Deliveries :
                           /\ ParentOf[x] = p /\ row'[x].status # "absent"
                           /\ \/ row'[x].status = "processing"
                              \/ parent'[p] = [status |-> row'[x].status, attempts |-> row'[x].attempts]
    BY DEF MirrorsOne, Shown
  <2>1. CASE p = ParentOf[d]
    BY <1>2, <1>4, <1>6, <1>7, <2>1
  <2>2. CASE p # ParentOf[d]
    <3>1. parent'[p] = parent[p] /\ \A x \in Deliveries : ParentOf[x] = p => row'[x] = row[x]
      BY <1>7, <2>2
    <3>2. \/ /\ parent[p] = [status |-> "pending", attempts |-> 0]
             /\ \A x \in Deliveries : ParentOf[x] = p => row[x].status = "absent"
          \/ \E x \in Deliveries :
               /\ ParentOf[x] = p /\ row[x].status # "absent"
               /\ \/ row[x].status = "processing"
                  \/ parent[p] = [status |-> row[x].status, attempts |-> row[x].attempts]
      BY DEF DeliveryInv, MirrorsOne, Shown
    <3> HIDE DEF d, s
    <3>3. CASE /\ parent[p] = [status |-> "pending", attempts |-> 0]
               /\ \A x \in Deliveries : ParentOf[x] = p => row[x].status = "absent"
      BY <3>1, <3>3
    <3>4. ASSUME NEW x \in Deliveries, ParentOf[x] = p, row[x].status # "absent",
                 \/ row[x].status = "processing"
                 \/ parent[p] = [status |-> row[x].status, attempts |-> row[x].attempts]
          PROVE  /\ row'[x].status # "absent"
                 /\ \/ row'[x].status = "processing"
                    \/ parent'[p] = [status |-> row'[x].status, attempts |-> row'[x].attempts]
      BY <3>1, <3>4
    <3> QED  BY <3>2, <3>3, <3>4
  <2> QED  BY <2>1, <2>2
<1> QED  BY <1>8, <1>9, <1>10, <1>11 DEF DeliveryInv

LEMMA CrashStep ==
  ASSUME DeliveryInv, NEW w \in Drains, Delivery!Crash(w)
  PROVE  DeliveryInv'
<1>1. DeliveryShapes'
  BY DEF Delivery!Crash, Delivery!Idle, DeliveryInv, DeliveryShapes
<1>2. CarriedArrived'
  BY DEF Delivery!Crash, DeliveryInv, DeliveryShapes, CarriedArrived
<1> QED  BY <1>1, <1>2 DEF Delivery!Crash, DeliveryInv, MirrorsOne, Shown, Delivery!SentHasArrived

\* The inductive invariant of credential delivery: a success a drain carries has
\* arrived, and a parent shows the last delivery finalised or has one in flight.
THEOREM DeliveriesAreBacked ==
  ASSUME ParentOf \in [Deliveries -> Parents]
  PROVE  Delivery!Spec => []DeliveryInv
<1>1. DeliveryInv /\ UNCHANGED Delivery!vars => DeliveryInv'
  BY DEF Delivery!vars, DeliveryInv, DeliveryShapes, CarriedArrived, MirrorsOne, Shown, Delivery!SentHasArrived
<1>2. DeliveryInv /\ [Delivery!Next]_(Delivery!vars) => DeliveryInv'
  BY <1>1, EnqueueAndTimeSteps, ClaimRowsStep, SendMessageStep, FinalizeStep, CrashStep
     DEF Delivery!Next, Delivery!ClaimSome, Delivery!Work
<1> QED  BY <1>2, DeliveryStarts, PTL DEF Delivery!Spec

\* A row says sent only when its message has left at least once, however drains
\* overlap, leases end under them and processes die between send and finalise
\* (SentHasArrived).
THEOREM SentOnlyWhatArrived ==
  ASSUME ParentOf \in [Deliveries -> Parents]
  PROVE  Delivery!Spec => []Delivery!SentHasArrived
<1>1. DeliveryInv => Delivery!SentHasArrived
  BY DEF DeliveryInv
<1> QED  BY <1>1, DeliveriesAreBacked, PTL

\* An invitation or reset token none of whose deliveries is in flight shows the
\* state of one of them, for any number of resends and overlapping drains
\* (ParentMirrors).
THEOREM ParentsShowADelivery ==
  ASSUME ParentOf \in [Deliveries -> Parents]
  PROVE  Delivery!Spec => []Delivery!ParentMirrors
<1>1. DeliveryInv => Delivery!ParentMirrors
  <2> HAVE DeliveryInv
  <2>1. ASSUME NEW p \in Parents,
               NEW x \in Deliveries, ParentOf[x] = p, row[x].status # "absent",
               \A d \in Deliveries : ParentOf[d] = p /\ row[d].status # "absent" => row[d].status # "processing"
        PROVE  \E d \in Deliveries : ParentOf[d] = p /\ row[d].status # "absent" /\ Shown(p, d)
    BY <2>1, Zenon DEF DeliveryInv, MirrorsOne
  <2>2. ASSUME NEW p \in Parents
        PROVE  LET ds == {d \in Deliveries : ParentOf[d] = p /\ row[d].status # "absent"}
               IN (ds # {} /\ \A d \in ds : row[d].status # "processing") => \E d \in ds : Shown(p, d)
    BY <2>1
  <2> QED  BY <2>2, Zenon DEF Shown, Delivery!ParentMirrors
<1> QED  BY <1>1, DeliveriesAreBacked, PTL
=============================================================================
