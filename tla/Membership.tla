------------------------------ MODULE Membership ------------------------------
(***************************************************************************)
(* The members of one business, the invitations that reserve a place, and  *)
(* the plan's limit on both (structure.service.ts, invitations.service.ts, *)
(* entitlements.service.ts, provision_accept_invitation of migration 0038).*)
(*                                                                         *)
(* A command runs in a slot through the stages of its script.  A stage     *)
(* takes the locks it needs when they are free and goes on, or refuses and *)
(* rolls back; the last one writes and commits.  Two advisory locks, of    *)
(* the members' authority and of the quota, and the locks of membership    *)
(* and invitation rows order the commands; now() is the time a transaction *)
(* began.                                                                  *)
(*                                                                         *)
(* Users stand for their e-mail addresses too.  Permissions and delegation *)
(* ceilings, custom roles, branch scopes, the tenant's membership, audit   *)
(* rows and the delivery of tokens are left out.                           *)
(***************************************************************************)
EXTENDS Integers, FiniteSets, Sequences

CONSTANTS
  Users,
  Owners,         \* the users who own the business at first
  StaffRoles,
  Slots,
  Limits,         \* the limits of the plans on sale
  Validity,       \* of an invitation: 72 hours
  MaxSent,        \* commands and plan changes ever asked for
  MaxInvitations,
  MaxClock,
  None

OwnerRole == "owner"

ASSUME RolesAssumption == OwnerRole \notin StaffRoles
ASSUME OwnersAssumption == Owners # {} /\ Owners \subseteq Users
ASSUME UsersAssumption == IsFiniteSet(Users)
ASSUME LimitsAssumption == Limits \subseteq Int
ASSUME ValidityAssumption == Validity \in Nat \ {0}

VARIABLES
  status,         \* memberships.status, "none" where there is no row
  roles,          \* membership_roles
  invitations,    \* sequence of [user, role, status, expires, version]
  limit,
  clock,
  sent,
  cmd

vars == <<status, roles, invitations, limit, clock, sent, cmd>>

Unlimited == -1

ActiveOwners == {u \in Users : status[u] = "active" /\ OwnerRole \in roles[u]}

Valid(i, now)   == invitations[i].status = "pending" /\ invitations[i].expires > now
Expired(i, now) == invitations[i].status = "pending" /\ invitations[i].expires <= now

-----------------------------------------------------------------------------
(* Commands *)

Fresh(kind, u, i, v, r, now) ==
  [kind |-> kind, user |-> u, inv |-> i, version |-> v, role |-> r,
   pc |-> 1, now |-> now, saw |-> "none", cap |-> 0, lapsed |-> {}, held |-> {}]

Idle == Fresh("idle", None, 0, 0, None, 0)

\* The stages of each command, in the order of its statements.
Script(kind) ==
  CASE kind \in {"remove", "suspend", "roles"} -> <<"authority", "member", "owners", "write">>
    [] kind = "reactivate" -> <<"authority", "member", "quota", "write">>
    [] kind = "add"        -> <<"authority", "member", "reservation", "quota", "write">>
    [] kind = "invite"     -> <<"look", "sweep", "quota", "write">>
    [] kind = "list"       -> <<"sweep", "write">>
    [] kind = "resend"     -> <<"sweep", "find", "write">>
    [] kind = "cancel"     -> <<"find", "write">>
    [] kind = "accept"     -> <<"peek", "begin", "find", "quota", "member", "write">>
    [] OTHER               -> <<"none">>

Stage(c) == Script(c.kind)[c.pc]

About(kind, u, r) == Fresh(kind, u, 0, 0, r, clock)

\* An invitation command names its invitation, and the token that was sent.
On(kind, i) ==
  Fresh(kind, invitations[i].user, i, invitations[i].version, invitations[i].role, clock)

Init ==
  /\ status = [u \in Users |-> IF u \in Owners THEN "active" ELSE "none"]
  /\ roles = [u \in Users |-> IF u \in Owners THEN {OwnerRole} ELSE {}]
  /\ invitations = <<>>
  /\ limit \in Limits
  /\ clock = 0 /\ sent = 0
  /\ cmd = [t \in Slots |-> Idle]

Set(t, c) == cmd' = [cmd EXCEPT ![t] = c]

Ask(t, c) ==
  /\ cmd[t].kind = "idle" /\ sent < MaxSent
  /\ Set(t, c)
  /\ sent' = sent + 1
  /\ UNCHANGED <<status, roles, invitations, limit, clock>>

\* Owner cannot be granted or kept: setMemberRoles and the trigger refuse it.
Send(t) ==
  \/ \E kind \in {"remove", "suspend", "reactivate"}, u \in Users : Ask(t, About(kind, u, None))
  \/ \E kind \in {"roles", "add"}, u \in Users, r \in StaffRoles : Ask(t, About(kind, u, r))
  \/ /\ Len(invitations) < MaxInvitations
     /\ \E u \in Users, r \in StaffRoles : Ask(t, About("invite", u, r))
  \/ \E kind \in {"cancel", "resend", "accept"}, i \in DOMAIN invitations : Ask(t, On(kind, i))
  \/ Ask(t, About("list", None, None))

-----------------------------------------------------------------------------
(* Stages *)

Invitation(i) == <<"invitation", i>>
Member(u)     == <<"member", u>>
Held(c)       == {i \in DOMAIN invitations : Invitation(i) \in c.held}

Swept(c) == {i \in DOMAIN invitations : Expired(i, c.now)} \ Held(c)

\* A mutated form: lockMembership locks the member's row alone.
NoAuthorityLock == {}

AuthorityLock == {<<"authority">>}

\* A mutated form: consumers of the quota count side by side.
NoQuotaLock == {}

QuotaLock == {<<"quota">>}

\* The row an invitation command finds: pending, and for an acceptance under the token it holds.
Finds(c) ==
  /\ invitations[c.inv].status = "pending"
  /\ c.kind = "accept" => invitations[c.inv].version = c.version
  /\ c.kind = "resend" => c.inv \notin Held(c)

\* The locks a stage takes.  A sweep takes its rows one by one.
Needs(c) ==
  CASE Stage(c) = "authority" -> AuthorityLock
    [] Stage(c) = "quota"     -> QuotaLock
    [] Stage(c) = "member"    -> IF status[c.user] = "none" THEN {} ELSE {Member(c.user)}
    [] Stage(c) = "owners"    -> IF OwnerRole \in roles[c.user] THEN {Member(o) : o \in ActiveOwners} ELSE {}
    [] Stage(c) = "reservation" ->
         {Invitation(i) : i \in {j \in DOMAIN invitations : invitations[j].user = c.user /\ Valid(j, c.now)}}
    [] Stage(c) = "sweep"     -> IF Swept(c) = {} THEN {}
                                 ELSE {Invitation(CHOOSE i \in Swept(c) : \A j \in Swept(c) : i <= j)}
    [] Stage(c) = "find"      -> IF Finds(c) THEN {Invitation(c.inv)} ELSE {}
    [] Stage(c) = "peek"      -> IF Finds(c) /\ Expired(c.inv, clock) THEN {Invitation(c.inv)} ELSE {}
    [] OTHER -> {}

Free(t, locks) == \A s \in Slots \ {t} : locks \cap cmd[s].held = {}

\* getUsage, as the transaction sees it: what it holds it has swept, cancelled or accepted.
Usage(c) ==
  Cardinality({u \in Users : status[u] = "active"})
    + Cardinality({i \in DOMAIN invitations : Valid(i, c.now)} \ Held(c))

Within(n, max) == max = Unlimited \/ n <= max

CanConsume(c) == Within(Usage(c) + 1, limit)

\* A mutated form: whoever is not active may join.
MayActSuspended(c) ==
  CASE c.kind \in {"remove", "suspend", "roles"} -> status[c.user] = "active"
    [] c.kind = "reactivate"                     -> status[c.user] = "suspended"
    [] OTHER                                     -> status[c.user] # "active"

\* The membership a command accepts.
MayAct(c) ==
  CASE c.kind \in {"remove", "suspend", "roles"} -> status[c.user] = "active"
    [] c.kind = "reactivate"                     -> status[c.user] = "suspended"
    [] OTHER                                     -> status[c.user] \in {"none", "removed"}

\* A mutated form: the owner who leaves counts as one who remains.
OwnersRemainCounted(c) == OwnerRole \in roles[c.user] => Cardinality(ActiveOwners) >= 1

OwnersRemain(c) == OwnerRole \in roles[c.user] => Cardinality(ActiveOwners) > 1

Duplicate(c) == \E i \in DOMAIN invitations : invitations[i].user = c.user /\ Valid(i, c.now)

Passes(c) ==
  CASE Stage(c) = "look"   -> status[c.user] # "active"
    [] Stage(c) = "peek"   -> Finds(c) /\ ~Expired(c.inv, clock)
    [] Stage(c) = "member" -> MayAct(c)
    [] Stage(c) = "owners" -> OwnersRemain(c)
    [] Stage(c) = "sweep"  -> c.kind = "invite" /\ Swept(c) = {} => ~Duplicate(c)
    [] Stage(c) = "quota"  -> CanConsume(c)
    [] Stage(c) = "find"   -> Finds(c)
    [] OTHER -> TRUE

Pending(t) == cmd[t].kind # "idle" /\ Stage(cmd[t]) # "write"

\* A stage passed: its locks are held, and its transaction may have begun.  The
\* limit and the lapsed invitations the count was taken with are remembered.
Proceed(t) ==
  LET c == cmd[t] IN
  /\ Pending(t) /\ Free(t, Needs(c)) /\ Passes(c)
  /\ Set(t, [c EXCEPT
       !.pc   = IF Stage(c) = "sweep" /\ Needs(c) # {} THEN @ ELSE @ + 1,
       !.held = @ \cup Needs(c),
       !.now  = IF Stage(c) \in {"look", "begin"} THEN clock ELSE @,
       !.saw  = IF Stage(c) = "member" THEN status[c.user] ELSE @,
       !.cap  = IF Stage(c) = "quota" THEN limit ELSE @,
       !.lapsed = IF Stage(c) = "quota" THEN Swept(c) ELSE @])
  /\ UNCHANGED <<status, roles, invitations, limit, clock, sent>>

\* Refused: the transaction rolls back.  An expired invitation is marked for good.
Refuse(t) ==
  LET c == cmd[t] IN
  /\ Pending(t) /\ Free(t, Needs(c)) /\ ~Passes(c)
  /\ invitations' = IF Stage(c) = "peek" /\ Finds(c)
                    THEN [invitations EXCEPT ![c.inv].status = "expired"] ELSE invitations
  /\ Set(t, Idle)
  /\ UNCHANGED <<status, roles, limit, clock, sent>>

-----------------------------------------------------------------------------
(* Writes *)

Writes(t, kinds) ==
  /\ cmd[t].kind \in kinds
  /\ Stage(cmd[t]) = "write"
  /\ Set(t, Idle)
  /\ UNCHANGED <<limit, clock, sent>>

Marked(c, s) == [i \in DOMAIN invitations |->
                   IF i \in Held(c) THEN [invitations[i] EXCEPT !.status = s] ELSE invitations[i]]

Remove(t) ==
  /\ Writes(t, {"remove"})
  /\ status' = [status EXCEPT ![cmd[t].user] = "removed"]
  /\ roles' = [roles EXCEPT ![cmd[t].user] = {}]
  /\ UNCHANGED invitations

Suspend(t) ==
  /\ Writes(t, {"suspend"})
  /\ status' = [status EXCEPT ![cmd[t].user] = "suspended"]
  /\ UNCHANGED <<roles, invitations>>

Reactivate(t) ==
  /\ Writes(t, {"reactivate"})
  /\ status' = [status EXCEPT ![cmd[t].user] = "active"]
  /\ UNCHANGED <<roles, invitations>>

SetRoles(t) ==
  /\ Writes(t, {"roles"})
  /\ roles' = [roles EXCEPT ![cmd[t].user] = {cmd[t].role}]
  /\ UNCHANGED <<status, invitations>>

\* The roles of a removed member are purged; a row that was not there is upserted,
\* and the role inserted beside those it may have got since.
Add(t) ==
  LET c == cmd[t] IN
  /\ Writes(t, {"add"})
  /\ IF c.saw = "none" /\ c.role \in roles[c.user]
     THEN UNCHANGED <<status, roles, invitations>>       \* 23505: rolled back
     ELSE /\ status' = [status EXCEPT ![c.user] = "active"]
          /\ roles' = [roles EXCEPT ![c.user] = IF c.saw = "removed" THEN {c.role} ELSE @ \cup {c.role}]
          /\ invitations' = Marked(c, "cancelled")

\* One pending invitation per address, expired or not: the partial unique index.
Invite(t) ==
  LET c == cmd[t] IN
  /\ Writes(t, {"invite"})
  /\ invitations' =
       IF \E i \in DOMAIN invitations \ Held(c) : invitations[i].user = c.user /\ invitations[i].status = "pending"
       THEN invitations
       ELSE Append(Marked(c, "expired"), [user |-> c.user, role |-> c.role, status |-> "pending",
                                          expires |-> c.now + Validity, version |-> 1])
  /\ UNCHANGED <<status, roles>>

List(t) ==
  /\ Writes(t, {"list"})
  /\ invitations' = Marked(cmd[t], "expired")
  /\ UNCHANGED <<status, roles>>

Cancel(t) ==
  /\ Writes(t, {"cancel"})
  /\ invitations' = Marked(cmd[t], "cancelled")
  /\ UNCHANGED <<status, roles>>

\* A resend rotates the token and starts the validity anew.
Resend(t) ==
  LET c == cmd[t] IN
  /\ Writes(t, {"resend"})
  /\ invitations' = [Marked(c, "expired") EXCEPT
                       ![c.inv] = [invitations[c.inv] EXCEPT !.expires = c.now + Validity, !.version = @ + 1]]
  /\ UNCHANGED <<status, roles>>

Accept(t) ==
  LET c == cmd[t] IN
  /\ Writes(t, {"accept"})
  /\ status' = [status EXCEPT ![c.user] = "active"]
  /\ roles' = [roles EXCEPT ![c.user] = {c.role}]
  /\ invitations' = Marked(c, "accepted")

-----------------------------------------------------------------------------
(* The rest of the world *)

Tick ==
  /\ clock < MaxClock
  /\ clock' = clock + 1
  /\ UNCHANGED <<status, roles, invitations, limit, sent, cmd>>

\* A plan change never deletes anything.
ChangePlan ==
  /\ sent < MaxSent /\ sent' = sent + 1
  /\ limit' \in Limits \ {limit}
  /\ UNCHANGED <<status, roles, invitations, clock, cmd>>

\* Every one of R waits for a lock that another of them holds.
Waiting  == {t \in Slots : Pending(t) /\ ~Free(t, Needs(cmd[t]))}
Cycle(R) == R # {} /\ \A t \in R : \E s \in R \ {t} : Needs(cmd[t]) \cap cmd[s].held # {}

\* PostgreSQL aborts one of them.
Victim(t) ==
  /\ \E R \in SUBSET Waiting : t \in R /\ Cycle(R)
  /\ Set(t, Idle)
  /\ UNCHANGED <<status, roles, invitations, limit, clock, sent>>

Step(t) ==
  \/ Proceed(t) \/ Refuse(t)
  \/ Remove(t) \/ Suspend(t) \/ Reactivate(t) \/ SetRoles(t) \/ Add(t)
  \/ Invite(t) \/ List(t) \/ Cancel(t) \/ Resend(t) \/ Accept(t)
  \/ Victim(t)

Next == Tick \/ ChangePlan \/ \E t \in Slots : Send(t) \/ Step(t)

Spec == Init /\ [][Next]_vars

-----------------------------------------------------------------------------
(* Properties *)

\* A business keeps an owner who can act, however removals, suspensions and
\* role changes of its owners interleave (lockMembership and lockOwnerCount).
OwnerStays == ActiveOwners # {}

\* Commands that take the authority lock never wait for each other in a cycle:
\* the order of lockMembership.  A deadlock involves an invitation command.
AuthorityNeverDeadlocks ==
  \A R \in SUBSET Waiting :
    Cycle(R) => \E t \in R : cmd[t].kind \in {"accept", "resend", "invite", "list", "cancel"}

Used == Cardinality({u \in Users : status[u] = "active"})
          + Cardinality({i \in DOMAIN invitations : Valid(i, clock)})

\* Nothing raises the members and valid reservations above the limit in force
\* when the command counted them, whoever else consumes at the same time
\* (assertCanConsume, the recount of an acceptance), but for an invitation that
\* had run out: a resend that began before takes its place again, uncounted,
\* even from a command that counted without it.
LimitHolds ==
  [][Used' > Used => \E t \in Slots :
       /\ cmd[t] # Idle /\ cmd'[t] = Idle
       /\ \/ Within(Used' - Cardinality({i \in cmd[t].lapsed : Valid(i, clock)'}), cmd[t].cap)
          \/ cmd[t].kind = "resend" /\ Expired(cmd[t].inv, clock)]_vars

\* A suspended member comes back through the reactivate command only: neither a
\* direct add nor the acceptance of an invitation restores the access.
SuspensionHolds ==
  [][\A u \in Users : status[u] = "suspended" /\ status'[u] = "active" =>
       \E t \in Slots : cmd[t].kind = "reactivate" /\ cmd[t].user = u /\ cmd'[t] = Idle]_vars

\* As the comment of addMember says of any two commands: "ACTIVE -> conflict".
ActiveIsConflict ==
  [][\A t \in Slots : cmd[t].kind = "add" /\ Stage(cmd[t]) = "write" /\ roles' # roles /\ cmd'[t] = Idle =>
       status[cmd[t].user] # "active"]_vars
=============================================================================
