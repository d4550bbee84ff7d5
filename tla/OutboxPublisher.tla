--------------------------- MODULE OutboxPublisher ---------------------------
(***************************************************************************)
(* The outbox relay: publishOnce() claims a batch of due events FOR UPDATE *)
(* SKIP LOCKED, delivers each to the sink and marks it, all in one         *)
(* transaction (apps/api/src/modules/outbox/publisher.ts).  The timer      *)
(* starts a call every five seconds in every worker process, so calls      *)
(* overlap.                                                                *)
(***************************************************************************)
EXTENDS Naturals, FiniteSets

CONSTANTS
  Events,        \* rows of outbox_events
  Calls,         \* concurrent publishOnce() calls
  MaxAttempts,   \* MAX_ATTEMPTS
  BatchSize,     \* BATCH_SIZE
  MaxCrashes     \* bound on calls that do not commit

ASSUME OutboxAssumption ==
  MaxAttempts \in Nat \ {0} /\ BatchSize \in Nat \ {0} /\ MaxCrashes \in Nat

VARIABLES
  event,      \* the committed row of each event
  locked,     \* call -> the rows its transaction holds FOR UPDATE
  todo,       \* call -> those it has not handled yet
  mine,       \* call -> its uncommitted view of the rows
  delivered,  \* events the sink has accepted at least once
  refused,    \* event -> times the sink refused it (observer, capped)
  crashes

vars == <<event, locked, todo, mine, delivered, refused, crashes>>

Init ==
  /\ event = [e \in Events |-> [status |-> "absent", attempts |-> 0, due |-> TRUE]]
  /\ locked = [c \in Calls |-> {}]
  /\ todo = [c \in Calls |-> {}]
  /\ mine = [c \in Calls |-> event]
  /\ delivered = {}
  /\ refused = [e \in Events |-> 0]
  /\ crashes = 0

\* A producer's transaction commits with its event.
EmitTx(e) ==
  /\ event[e].status = "absent"
  /\ event' = [event EXCEPT ![e].status = "pending"]
  /\ UNCHANGED <<locked, todo, mine, delivered, refused, crashes>>

Unlocked(e) == \A c \in Calls : e \notin locked[c]

\* Rows locked by another call are skipped; those left are taken in the order
\* of next_attempt_at, any one of equals.
ClaimBatch(c, batch) ==
  /\ locked[c] = {}
  /\ batch # {} /\ Cardinality(batch) <= BatchSize
  /\ \A e \in batch : event[e].status = "pending" /\ event[e].due /\ Unlocked(e)
  /\ locked' = [locked EXCEPT ![c] = batch]
  /\ todo' = [todo EXCEPT ![c] = batch]
  /\ mine' = [mine EXCEPT ![c] = event]
  /\ UNCHANGED <<event, delivered, refused, crashes>>

\* The sink accepts, and the row is marked in the transaction.
Deliver(c, e) ==
  /\ e \in todo[c]
  /\ delivered' = delivered \cup {e}
  /\ mine' = [mine EXCEPT ![c][e].status = "published"]
  /\ todo' = [todo EXCEPT ![c] = @ \ {e}]
  /\ UNCHANGED <<event, locked, refused, crashes>>

\* A mutated form: the event is given up one attempt early.
AfterFailureEarly(r) ==
  IF r.attempts + 2 >= MaxAttempts
  THEN [r EXCEPT !.status = "dead", !.attempts = @ + 1]
  ELSE [r EXCEPT !.attempts = @ + 1, !.due = FALSE]

\* A mutated form: a refused event is taken off the queue.
AfterFailureDropped(r) == [r EXCEPT !.status = "published", !.attempts = @ + 1]

\* The retry with backoff, or the dead letter at the last attempt.
AfterFailure(r) ==
  IF r.attempts + 1 >= MaxAttempts
  THEN [r EXCEPT !.status = "dead", !.attempts = @ + 1]
  ELSE [r EXCEPT !.attempts = @ + 1, !.due = FALSE]

\* The sink throws.
SinkFails(c, e) ==
  /\ e \in todo[c]
  /\ refused' = [refused EXCEPT ![e] = IF @ < MaxAttempts THEN @ + 1 ELSE @]
  /\ mine' = [mine EXCEPT ![c][e] = AfterFailure(@)]
  /\ todo' = [todo EXCEPT ![c] = @ \ {e}]
  /\ UNCHANGED <<event, locked, delivered, crashes>>

\* A mutated form: nothing is written at the end.
StoredNothing(c, e) == event[e]

Stored(c, e) == IF e \in locked[c] THEN mine[c][e] ELSE event[e]

CommitBatch(c) ==
  /\ locked[c] # {} /\ todo[c] = {}
  /\ event' = [e \in Events |-> Stored(c, e)]
  /\ locked' = [locked EXCEPT ![c] = {}]
  /\ UNCHANGED <<todo, mine, delivered, refused, crashes>>

\* The process dies, or a statement fails and poisons the transaction: every
\* mark of the batch is rolled back, what the sink accepted stays accepted.
RollBack(c) ==
  /\ locked[c] # {}
  /\ crashes < MaxCrashes
  /\ crashes' = crashes + 1
  /\ locked' = [locked EXCEPT ![c] = {}]
  /\ todo' = [todo EXCEPT ![c] = {}]
  /\ UNCHANGED <<event, mine, delivered, refused>>

\* Time passes: next_attempt_at is reached.
BackoffEnds(e) ==
  /\ ~event[e].due
  /\ event' = [event EXCEPT ![e].due = TRUE]
  /\ UNCHANGED <<locked, todo, mine, delivered, refused, crashes>>

Handle(c) ==
  \/ \E e \in Events : Deliver(c, e) \/ SinkFails(c, e)
  \/ CommitBatch(c)

Next ==
  \/ \E e \in Events : EmitTx(e) \/ BackoffEnds(e)
  \/ \E c \in Calls : \E batch \in SUBSET Events : ClaimBatch(c, batch)
  \/ \E c \in Calls : Handle(c) \/ RollBack(c)

Spec == Init /\ [][Next]_vars

\* The timer keeps calling, and the earliest due events are taken first.
FairSpec ==
  /\ Spec
  /\ \A c \in Calls : WF_vars(Handle(c))
  /\ \A e \in Events :
       /\ WF_vars(BackoffEnds(e))
       /\ SF_vars(\E c \in Calls : \E batch \in SUBSET Events : e \in batch /\ ClaimBatch(c, batch))

-----------------------------------------------------------------------------
\* Only what the sink accepted is published: at-least-once, with rollbacks
\* between a delivery and its mark and calls that overlap.
PublishedWasDelivered == \A e \in Events : event[e].status = "published" => e \in delivered

\* An event is dead-lettered only after MaxAttempts refusals, even when calls
\* that had counted some of them rolled back.
DeadWasRefused == \A e \in Events : event[e].status = "dead" => refused[e] = MaxAttempts

\* No event is silently lost: it ends published or dead.
EveryEventEnds ==
  \A e \in Events : event[e].status = "pending" ~> event[e].status \in {"published", "dead"}
=============================================================================
