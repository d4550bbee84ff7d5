------------------------- MODULE CredentialDelivery -------------------------
(***************************************************************************)
(* The credential delivery outbox: invitations and password resets are     *)
(* enqueued in the transaction that creates the credential, and the worker *)
(* process claims them under a lease, sends them through the mail adapter  *)
(* outside any transaction, and finalises each one                         *)
(* (apps/api/src/modules/delivery/delivery-worker.service.ts).             *)
(*                                                                         *)
(* A drain is one call of drain(): main.ts starts one every five seconds   *)
(* without waiting for the last, so drains of one process overlap too.     *)
(***************************************************************************)
EXTENDS Naturals, FiniteSets

CONSTANTS
  Deliveries,    \* rows of credential_deliveries
  Parents,       \* invitations and reset tokens
  ParentOf,      \* the parent of each delivery; a resend gives it another one
  Drains,        \* concurrent drain() calls
  MaxAttempts,   \* DELIVERY_MAX_ATTEMPTS
  Limit,         \* rows one drain claims
  MaxCrashes,    \* bound on drains that die
  None

ASSUME DeliveryAssumption ==
  /\ ParentOf \in [Deliveries -> Parents]
  /\ MaxAttempts \in Nat \ {0} /\ Limit \in Nat \ {0} /\ MaxCrashes \in Nat

VARIABLES
  row,       \* delivery -> its row
  parent,    \* parent -> the delivery state mirrored on it
  job,       \* drain -> delivery -> attempts and payload as claimed, or None
  result,    \* drain -> the delivery it has tried to send and the outcome, or None
  arrived,   \* deliveries whose message the adapter has sent at least once
  crashes

vars == <<row, parent, job, result, arrived, crashes>>

Terminal(st) == st \in {"sent", "dead"}

Idle == [d \in Deliveries |-> None]

Claimed(w) == {d \in Deliveries : job[w][d] # None}

Init ==
  /\ row = [d \in Deliveries |->
              [status |-> "absent", attempts |-> 0, due |-> TRUE, lease |-> "none", payload |-> FALSE]]
  /\ parent = [p \in Parents |-> [status |-> "pending", attempts |-> 0]]
  /\ job = [w \in Drains |-> Idle]
  /\ result = [w \in Drains |-> None]
  /\ arrived = {}
  /\ crashes = 0

\* Invite, resend or reset request: enqueued with its encrypted payload.
EnqueueTx(d) ==
  /\ row[d].status = "absent"
  /\ row' = [row EXCEPT ![d].status = "pending", ![d].payload = TRUE]
  /\ UNCHANGED <<parent, job, result, arrived, crashes>>

\* A mutated form: a row left in processing is never taken again.
ClaimableNoReclaim(d) == row[d].status \in {"pending", "failed"} /\ row[d].due

\* Due for an attempt, or left behind by a drain whose lease has passed.
Claimable(d) ==
  \/ row[d].status \in {"pending", "failed"} /\ row[d].due
  \/ row[d].status = "processing" /\ row[d].lease = "past"

\* One claiming UPDATE; SKIP LOCKED may leave out rows another transaction is
\* just writing, so any claimable rows up to the limit.
Claim(w, batch) ==
  /\ job[w] = Idle /\ result[w] = None
  /\ batch # {} /\ Cardinality(batch) <= Limit
  /\ \A d \in batch : Claimable(d)
  /\ row' = [d \in Deliveries |->
               IF d \in batch THEN [row[d] EXCEPT !.status = "processing", !.lease = "live"]
                              ELSE row[d]]
  /\ job' = [job EXCEPT ![w] = [d \in Deliveries |->
               IF d \in batch THEN [attempts |-> row[d].attempts, payload |-> row[d].payload]
                              ELSE None]]
  /\ UNCHANGED <<parent, result, arrived, crashes>>

\* The adapter call, outside any transaction, on the payload as claimed.  It may
\* throw without sending, or after the message has left.
Send(w, d) ==
  /\ result[w] = None /\ d \in Claimed(w)
  /\ \/ /\ job[w][d].payload
        /\ arrived' = arrived \cup {d}
        /\ result' = [result EXCEPT ![w] = [d |-> d, ok |-> TRUE]]
     \/ /\ job[w][d].payload
        /\ arrived' = arrived \cup {d}
        /\ result' = [result EXCEPT ![w] = [d |-> d, ok |-> FALSE]]
     \/ /\ arrived' = arrived
        /\ result' = [result EXCEPT ![w] = [d |-> d, ok |-> FALSE]]
  /\ UNCHANGED <<row, parent, job, crashes>>

\* A mutated form: a failure is taken for a success.
OutcomeOptimistic(ok, attempts) == IF attempts >= MaxAttempts THEN "dead" ELSE "sent"

Outcome(ok, attempts) ==
  IF ok THEN "sent" ELSE IF attempts >= MaxAttempts THEN "dead" ELSE "failed"

\* The payload is destroyed at a terminal state.
PayloadAfter(d, st) == row[d].payload /\ ~Terminal(st)

\* A mutated form: the parent keeps the state of its first outcome.
MirroredOnce(d, st, attempts) ==
  IF parent[ParentOf[d]].status = "pending" THEN [status |-> st, attempts |-> attempts]
                                            ELSE parent[ParentOf[d]]

Mirrored(d, st, attempts) == [status |-> st, attempts |-> attempts]

\* One transaction writes the row and its parent, by id alone: neither the
\* status nor the lease is looked at, and attempts is what was claimed plus one.
Finalize(w) ==
  /\ result[w] # None
  /\ LET d        == result[w].d
         attempts == job[w][d].attempts + 1
         st       == Outcome(result[w].ok, attempts)
     IN /\ row' = [row EXCEPT ![d] =
                     [status |-> st, attempts |-> attempts, lease |-> "none",
                      due |-> IF st = "failed" THEN FALSE ELSE @.due,
                      payload |-> PayloadAfter(d, st)]]
        /\ parent' = [parent EXCEPT ![ParentOf[d]] = Mirrored(d, st, attempts)]
        /\ job' = [job EXCEPT ![w][d] = None]
  /\ result' = [result EXCEPT ![w] = None]
  /\ UNCHANGED <<arrived, crashes>>

\* The process dies, or a database error ends the drain: its claims are kept
\* only by their leases.
Crash(w) ==
  /\ job[w] # Idle \/ result[w] # None
  /\ crashes < MaxCrashes
  /\ crashes' = crashes + 1
  /\ job' = [job EXCEPT ![w] = Idle]
  /\ result' = [result EXCEPT ![w] = None]
  /\ UNCHANGED <<row, parent, arrived>>

\* Time passes: a lease ends, whether or not its drain is still at work.
LeaseEnds(d) ==
  /\ row[d].lease = "live"
  /\ row' = [row EXCEPT ![d].lease = "past"]
  /\ UNCHANGED <<parent, job, result, arrived, crashes>>

\* Time passes: next_attempt_at is reached.
BackoffEnds(d) ==
  /\ ~row[d].due
  /\ row' = [row EXCEPT ![d].due = TRUE]
  /\ UNCHANGED <<parent, job, result, arrived, crashes>>

ClaimSome(w) == \E batch \in SUBSET Deliveries : Claim(w, batch)

Work(w) == (\E d \in Deliveries : Send(w, d)) \/ Finalize(w)

Next ==
  \/ \E d \in Deliveries : EnqueueTx(d) \/ LeaseEnds(d) \/ BackoffEnds(d)
  \/ \E w \in Drains : ClaimSome(w) \/ Work(w) \/ Crash(w)

Spec == Init /\ [][Next]_vars

\* The timer keeps starting drains that take the oldest due rows first, a drain
\* works its batch off, and time passes.
FairSpec ==
  /\ Spec
  /\ \A w \in Drains : WF_vars(Work(w))
  /\ \A d \in Deliveries :
       /\ WF_vars(LeaseEnds(d)) /\ WF_vars(BackoffEnds(d))
       /\ SF_vars(\E w \in Drains : \E batch \in SUBSET Deliveries : d \in batch /\ Claim(w, batch))

-----------------------------------------------------------------------------
\* A row says sent only when its message has left at least once: at-least-once
\* delivery, with overlapping drains and crashes between send and finalise.
SentHasArrived == \A d \in Deliveries : row[d].status = "sent" => d \in arrived

\* A parent none of whose deliveries is in flight shows the state of one of them.
ParentMirrors ==
  \A p \in Parents :
    LET ds == {d \in Deliveries : ParentOf[d] = p /\ row[d].status # "absent"}
    IN (ds # {} /\ \A d \in ds : row[d].status # "processing") =>
         \E d \in ds : parent[p] = [status |-> row[d].status, attempts |-> row[d].attempts]

\* Every delivery ends sent or dead and stays so.
EveryDeliverySettles ==
  \A d \in Deliveries : row[d].status # "absent" ~> [](Terminal(row[d].status))

\* The states as the module comment draws them: sent and dead are final.
TerminalIsFinal ==
  [][\A d \in Deliveries : Terminal(row[d].status) => row'[d].status = row[d].status]_vars
=============================================================================
