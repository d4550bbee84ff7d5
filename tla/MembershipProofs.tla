-------------------------- MODULE MembershipProofs --------------------------
(***************************************************************************)
(* What holds of the members of a business for every set of users, plans   *)
(* and concurrent commands (Membership).  The argument: two commands never *)
(* hold the authority lock, nor the quota lock, at once; a membership      *)
(* stops being active, or its owner's, only under the first, and becomes   *)
(* active only under the second; so what a command saw under its locks is  *)
(* still so when it writes, and the place it counted is still free.        *)
(***************************************************************************)
EXTENDS Membership, FiniteSetTheorems, TLAPS

Authority == <<"authority">>
Quota     == <<"quota">>

\* The commands that end or weaken a membership, and those that take the authority lock.
Leaving   == {"remove", "suspend", "roles"}
Governing == Leaving \cup {"reactivate", "add"}
Inviting  == {"invite", "list", "resend", "cancel", "accept"}

Statuses == {"none", "active", "suspended", "removed"}

IsCommand(c) ==
  /\ c = [kind |-> c.kind, user |-> c.user, inv |-> c.inv, version |-> c.version, role |-> c.role,
          pc |-> c.pc, now |-> c.now, saw |-> c.saw, cap |-> c.cap, lapsed |-> c.lapsed,
          held |-> c.held]
  /\ c.kind \in Governing \cup Inviting \cup {"idle"}
  /\ c.pc \in Nat /\ c.now \in Nat
  /\ c.kind \in Governing \cup {"invite", "accept"} => c.user \in Users
  /\ c.kind \in {"roles", "add", "invite", "accept"} => c.role \in StaffRoles

\* Invitations are to users, as staff.
Invitations ==
  [user : Users, role : StaffRoles, status : {"pending", "accepted", "cancelled", "expired"},
   expires : Nat, version : Nat]

Invited == invitations \in Seq(Invitations) /\ clock \in Nat

\* The shapes of the tables and of the commands.
Shapes ==
  /\ status \in [Users -> Statuses]
  /\ roles \in [Users -> SUBSET (StaffRoles \cup {OwnerRole})]
  /\ Invited
  /\ DOMAIN cmd = Slots
  /\ \A t \in Slots : IsCommand(cmd[t])

\* The stage a command has reached is one of its script.
Placed(c) ==
  /\ c.kind \in Leaving \cup {"reactivate"} => c.pc \in 1..4
  /\ c.kind = "invite" => c.pc \in 1..4
  /\ c.kind = "add" => c.pc \in 1..5
  /\ c.kind = "accept" => c.pc \in 1..6

\* The advisory locks a command holds at its stage.
Guarded(c) ==
  /\ c.kind \in Governing /\ c.pc = 1 => c.held = {}
  /\ c.kind \in Governing /\ c.pc > 1 => Authority \in c.held
  /\ c.kind = "reactivate" /\ c.pc = 4 => Quota \in c.held
  /\ c.kind = "add" /\ c.pc = 5 => Quota \in c.held
  /\ c.kind = "accept" /\ c.pc > 4 => Quota \in c.held
  /\ c.kind = "invite" /\ c.pc = 4 => Quota \in c.held

\* No two commands hold one of the advisory locks.
LocksExclude ==
  \A s, t \in Slots : s # t =>
    /\ ~(Authority \in cmd[s].held /\ Authority \in cmd[t].held)
    /\ ~(Quota \in cmd[s].held /\ Quota \in cmd[t].held)

Owns(u) == status[u] = "active" /\ OwnerRole \in roles[u]

Another(u) == \E o \in Users : o # u /\ Owns(o)

\* What a command saw of the members under its locks is still so.
Seen(c) ==
  /\ c.kind \in Leaving /\ c.pc > 2 => status[c.user] = "active"
  /\ c.kind \in Leaving /\ c.pc = 4 /\ OwnerRole \in roles[c.user] => Another(c.user)
  /\ c.kind = "add" /\ c.pc > 2 => status[c.user] # "suspended" /\ OwnerRole \notin roles[c.user]
  /\ c.kind = "accept" /\ c.pc = 6 =>
       status[c.user] \in {"none", "removed"} /\ OwnerRole \notin roles[c.user]

\* Who has left, or never came, owns nothing.
AbsentOwnNothing == \A u \in Users : status[u] \in {"none", "removed"} => OwnerRole \notin roles[u]

IInv ==
  /\ Shapes
  /\ \A t \in Slots : Placed(cmd[t]) /\ Guarded(cmd[t]) /\ Seen(cmd[t])
  /\ LocksExclude
  /\ AbsentOwnNothing
  /\ \E o \in Users : Owns(o)

-----------------------------------------------------------------------------
(* Commands and what they need *)

\* Where the stages stand in the scripts.
LEMMA Scripts ==
  ASSUME NEW c, IsCommand(c), Placed(c)
  PROVE  /\ c.kind \in Leaving =>
              /\ Stage(c) = "authority" <=> c.pc = 1
              /\ Stage(c) = "member" <=> c.pc = 2
              /\ Stage(c) = "owners" <=> c.pc = 3
              /\ Stage(c) = "write" <=> c.pc = 4
         /\ c.kind = "reactivate" =>
              /\ Stage(c) = "authority" <=> c.pc = 1
              /\ Stage(c) = "quota" <=> c.pc = 3
              /\ Stage(c) = "write" <=> c.pc = 4
         /\ c.kind = "add" =>
              /\ Stage(c) = "authority" <=> c.pc = 1
              /\ Stage(c) = "member" <=> c.pc = 2
              /\ Stage(c) = "quota" <=> c.pc = 4
              /\ Stage(c) = "write" <=> c.pc = 5
         /\ c.kind = "accept" =>
              /\ Stage(c) = "quota" <=> c.pc = 4
              /\ Stage(c) = "member" <=> c.pc = 5
              /\ Stage(c) = "write" <=> c.pc = 6
         /\ c.kind = "invite" =>
              /\ Stage(c) = "quota" <=> c.pc = 3
              /\ Stage(c) = "write" <=> c.pc = 4
              /\ Stage(c) = "sweep" <=> c.pc = 2
         /\ c.kind \in Governing \cup {"accept"} => Stage(c) # "sweep"
<1>1. CASE c.kind \in Leaving
  <2>1. Script(c.kind) = <<"authority", "member", "owners", "write">>
    BY <1>1 DEF Script, Leaving
  <2>2. c.pc \in 1..4 /\ c.kind \notin {"reactivate", "add", "accept", "invite"}
    BY <1>1 DEF Placed, Leaving
  <2> QED
    BY ONLY <2>1, <2>2 DEF Stage
<1>2. CASE c.kind = "reactivate"
  BY <1>2 DEF Stage, Script, Leaving, Governing, Placed
<1>3. CASE c.kind = "add"
  BY <1>3 DEF Stage, Script, Leaving, Governing, Placed
<1>4. CASE c.kind = "accept"
  BY <1>4 DEF Stage, Script, Leaving, Governing, Placed
<1>5. CASE c.kind = "invite"
  BY <1>5 DEF Stage, Script, Leaving, Governing, Placed
<1>6. CASE c.kind \notin Governing \cup {"accept", "invite"}
  BY <1>6 DEF Leaving, Governing
<1> QED  BY <1>1, <1>2, <1>3, <1>4, <1>5, <1>6 DEF Governing

LEMMA InvitationAt ==
  ASSUME Invited, NEW i \in DOMAIN invitations
  PROVE  invitations[i] \in Invitations
BY DEF Invited

\* A new command holds nothing and is at its first stage.
New(c) == IsCommand(c) /\ c.held = {} /\ c.pc = 1

LEMMA NewCommands ==
  ASSUME Shapes, NEW t, Send(t)
  PROVE  \E c : Ask(t, c) /\ New(c)
<1>1. ASSUME NEW k \in Governing \cup Inviting, NEW u, NEW i, NEW v, NEW r,
             k \in Governing \cup {"invite", "accept"} => u \in Users,
             k \in {"roles", "add", "invite", "accept"} => r \in StaffRoles
      PROVE  New(Fresh(k, u, i, v, r, clock))
  BY <1>1 DEF IsCommand, New, Fresh, Shapes, Invited
<1>4. CASE \E k \in {"remove", "suspend", "reactivate"}, u \in Users : Ask(t, About(k, u, None))
  BY <1>1, <1>4 DEF About, Governing, Leaving
<1>5. CASE \E k \in {"roles", "add"}, u \in Users, r \in StaffRoles : Ask(t, About(k, u, r))
  BY <1>1, <1>5 DEF About, Governing, Leaving
<1>6. CASE \E u \in Users, r \in StaffRoles : Ask(t, About("invite", u, r))
  BY <1>1, <1>6 DEF About, Governing, Leaving, Inviting
<1>7. CASE \E k \in {"cancel", "resend", "accept"}, i \in DOMAIN invitations : Ask(t, On(k, i))
  <2>1. PICK k \in {"cancel", "resend", "accept"}, i \in DOMAIN invitations : Ask(t, On(k, i))
    BY <1>7
  <2>2. invitations[i].user \in Users /\ invitations[i].role \in StaffRoles
    BY InvitationAt DEF Shapes, Invitations
  <2>3. New(On(k, i))
    BY <1>1, <2>2 DEF On, Governing, Leaving, Inviting
  <2> QED  BY <2>1, <2>3
<1>8. CASE Ask(t, About("list", None, None))
  BY <1>1, <1>8 DEF About, Governing, Leaving, Inviting
<1> QED  BY <1>4, <1>5, <1>6, <1>7, <1>8 DEF Send

\* The idle command has nothing to answer for.
LEMMA IdleCommand ==
  IsCommand(Idle) /\ Placed(Idle) /\ Guarded(Idle) /\ Seen(Idle) /\ Idle.held = {} /\ Idle.kind = "idle"
BY DEF Idle, Fresh, IsCommand, Placed, Guarded, Seen, Governing, Leaving, Inviting

\* An owner who is not alone leaves another behind.
LEMMA OtherOwner ==
  ASSUME NEW u \in Users, Cardinality(ActiveOwners) > 1
  PROVE  Another(u)
<1>1. IsFiniteSet(ActiveOwners)
  BY UsersAssumption, FS_Subset DEF ActiveOwners
<1>2. IsFiniteSet({u}) /\ Cardinality({u}) = 1
  BY FS_Singleton
<1>3. ~(ActiveOwners \subseteq {u})
  <2>1. SUFFICES ASSUME ActiveOwners \subseteq {u} PROVE FALSE
    OBVIOUS
  <2>2. Cardinality(ActiveOwners) <= 1
    BY <1>2, <2>1, FS_Subset
  <2>3. Cardinality(ActiveOwners) \in Nat
    BY <1>1, FS_CardinalityType
  <2> QED  BY <2>2, <2>3
<1> QED  BY <1>3 DEF ActiveOwners, Another, Owns

-----------------------------------------------------------------------------
(* Steps that leave the members alone *)

\* The advisory locks in d are held by nobody but slot t.
Alone(t, d) ==
  \A s \in Slots \ {t} :
    /\ ~(Authority \in d.held /\ Authority \in cmd[s].held)
    /\ ~(Quota \in d.held /\ Quota \in cmd[s].held)

LEMMA QuietStep ==
  ASSUME IInv, NEW t \in Slots, NEW d,
         IsCommand(d), Placed(d), Guarded(d), Seen(d), Alone(t, d),
         Set(t, d), UNCHANGED <<status, roles>>, Invited'
  PROVE  IInv'
<1>1. /\ DOMAIN cmd' = Slots /\ cmd'[t] = d
      /\ \A s \in Slots \ {t} : cmd'[s] = cmd[s]
  BY DEF IInv, Shapes, Set
<1>2. Shapes'
  BY <1>1 DEF IInv, Shapes
<1>3. \A s \in Slots : Placed(cmd[s])' /\ Guarded(cmd[s])'
  BY <1>1 DEF IInv, Placed, Guarded
<1>4. \A s \in Slots : Seen(cmd[s])'
  BY <1>1 DEF IInv, Seen, Another, Owns
<1>5. LocksExclude'
  BY <1>1 DEF IInv, LocksExclude, Alone
<1>6. AbsentOwnNothing' /\ (\E o \in Users : Owns(o))'
  BY DEF IInv, AbsentOwnNothing, Owns
<1> QED  BY <1>2, <1>3, <1>4, <1>5, <1>6 DEF IInv

\* A command that ends without touching the members.
LEMMA QuietEnd ==
  ASSUME IInv, NEW t \in Slots, Set(t, Idle), UNCHANGED <<status, roles>>, Invited'
  PROVE  IInv'
BY QuietStep, IdleCommand DEF Alone

LEMMA SendStep ==
  ASSUME IInv, NEW t \in Slots, Send(t)
  PROVE  IInv'
<1>1. PICK c : Ask(t, c) /\ New(c)
  BY NewCommands DEF IInv
<1>2. Placed(c) /\ Guarded(c) /\ Seen(c) /\ Alone(t, c)
  BY <1>1 DEF New, IsCommand, Placed, Guarded, Seen, Alone
<1>3. Invited'
  BY <1>1 DEF IInv, Shapes, Invited, Ask
<1> QED  BY <1>1, <1>2, <1>3, QuietStep DEF Ask, New

\* What a stage asks of the advisory locks.
LEMMA StageLocks ==
  ASSUME NEW c
  PROVE  /\ Stage(c) = "authority" => Authority \in Needs(c)
         /\ Stage(c) = "quota" => Quota \in Needs(c)
BY DEF Needs, AuthorityLock, QuotaLock, Authority, Quota

\* What a stage passed makes of a command.
Proceeds(c, d) ==
  /\ IsCommand(d) /\ d.kind = c.kind /\ d.user = c.user
  /\ d.pc = (IF Stage(c) = "sweep" /\ Needs(c) # {} THEN c.pc ELSE c.pc + 1)
  /\ d.held = c.held \cup Needs(c)
  /\ d.cap = (IF Stage(c) = "quota" THEN limit ELSE c.cap)
  /\ d.lapsed = (IF Stage(c) = "quota" THEN Swept(c) ELSE c.lapsed)

LEMMA ProceedsTo ==
  ASSUME Shapes, NEW t \in Slots, Proceed(t)
  PROVE  /\ Pending(t) /\ Free(t, Needs(cmd[t])) /\ Passes(cmd[t])
         /\ UNCHANGED <<status, roles, invitations, limit, clock>>
         /\ \E d : Set(t, d) /\ Proceeds(cmd[t], d)
<1> DEFINE c == cmd[t]
           p == IF Stage(c) = "sweep" /\ Needs(c) # {} THEN c.pc ELSE c.pc + 1
           h == c.held \cup Needs(c)
           n == IF Stage(c) \in {"look", "begin"} THEN clock ELSE c.now
           w == IF Stage(c) = "member" THEN status[c.user] ELSE c.saw
           x == IF Stage(c) = "quota" THEN limit ELSE c.cap
           l == IF Stage(c) = "quota" THEN Swept(c) ELSE c.lapsed
           c1 == [c EXCEPT !.pc = p]
           c2 == [c1 EXCEPT !.held = h]
           c3 == [c2 EXCEPT !.now = n]
           c4 == [c3 EXCEPT !.saw = w]
           c5 == [c4 EXCEPT !.cap = x]
           d  == [c5 EXCEPT !.lapsed = l]
           Follows(e) == IsCommand(e) /\ e.kind = c.kind /\ e.user = c.user /\ e.pc = p
<1>1. Pending(t) /\ Free(t, Needs(c)) /\ Passes(c) /\ Set(t, d)
  BY DEF Proceed
<1>2. IsCommand(c)
  BY DEF Shapes
<1>3. p \in Nat /\ n \in Nat
  BY <1>2 DEF IsCommand, Shapes, Invited
<1> HIDE DEF c, p, h, n, w, x, l
<1>4. Follows(c1)
  BY <1>2, <1>3 DEF IsCommand
<1> HIDE DEF c1
<1>5. Follows(c2) /\ c2.held = h
  BY <1>4 DEF IsCommand
<1> HIDE DEF c2
<1>6. Follows(c3) /\ c3.held = h
  BY <1>3, <1>5 DEF IsCommand
<1> HIDE DEF c3
<1>7. Follows(c4) /\ c4.held = h
  BY <1>6 DEF IsCommand
<1> HIDE DEF c4
<1>8. Follows(c5) /\ c5.held = h /\ c5.cap = x
  BY <1>7 DEF IsCommand
<1> HIDE DEF c5
<1>9. Follows(d) /\ d.held = h /\ d.cap = x /\ d.lapsed = l
  BY <1>8 DEF IsCommand
<1> HIDE DEF d
<1>10. Proceeds(c, d)
  BY <1>9 DEF Proceeds, p, h, x, l
<1> QED  BY <1>1, <1>10 DEF Proceed, c

LEMMA ProceedStep ==
  ASSUME IInv, NEW t \in Slots, Proceed(t)
  PROVE  IInv'
<1> DEFINE c == cmd[t]
           p == IF Stage(c) = "sweep" /\ Needs(c) # {} THEN c.pc ELSE c.pc + 1
           h == c.held \cup Needs(c)
<1>1. Pending(t) /\ Free(t, Needs(c)) /\ Passes(c)
  BY ProceedsTo DEF IInv
<1>2. IsCommand(c) /\ Placed(c) /\ Guarded(c) /\ Seen(c) /\ Stage(c) # "write"
  BY <1>1 DEF IInv, Shapes, Pending
<1>3. PICK d : Set(t, d) /\ Proceeds(c, d)
  BY ProceedsTo DEF IInv
<1>4. IsCommand(d) /\ d.kind = c.kind /\ d.user = c.user /\ d.pc = p /\ d.held = h
  BY <1>3 DEF Proceeds
<1> HIDE DEF c
<1>5. c.kind \in Governing \cup {"accept"} => p = c.pc + 1
  BY <1>2, Scripts
<1>6. Placed(d)
  <2>1. p = c.pc \/ p = c.pc + 1
    BY DEF p
  <2> HIDE DEF p, h
  <2> QED  BY <1>2, <1>4, <1>5, <2>1, Scripts DEF Placed, Governing, Leaving
<1>7. Guarded(d)
  <2> HIDE DEF p
  <2>1. c.kind \in Governing => d.pc > 1 /\ Authority \in d.held
    BY <1>2, <1>4, <1>5, Scripts, StageLocks DEF Guarded, Governing, Placed, Leaving
  <2>2. c.kind = "reactivate" /\ d.pc = 4 => Quota \in d.held
    BY <1>2, <1>4, <1>5, Scripts, StageLocks DEF Guarded, Governing, Placed
  <2>3. c.kind = "add" /\ d.pc = 5 => Quota \in d.held
    BY <1>2, <1>4, <1>5, Scripts, StageLocks DEF Guarded, Governing, Placed
  <2>4. c.kind = "accept" /\ d.pc > 4 => Quota \in d.held
    BY <1>2, <1>4, <1>5, Scripts, StageLocks DEF Guarded, Governing, Placed
  <2>5. c.kind = "invite" /\ d.pc = 4 => Quota \in d.held
    BY <1>2, <1>4, Scripts, StageLocks DEF Placed, p
  <2> QED  BY <1>4, <2>1, <2>2, <2>3, <2>4, <2>5 DEF Guarded
<1>8. Seen(d)
  <2> HIDE DEF p, h
  <2>1. c.kind \in Leaving /\ d.pc > 2 => status[c.user] = "active"
    BY <1>1, <1>2, <1>4, <1>5, Scripts DEF Passes, MayAct, Seen, Governing, Placed, Leaving
  <2>2. c.kind \in Leaving /\ d.pc = 4 /\ OwnerRole \in roles[c.user] => Another(c.user)
    <3>1. SUFFICES ASSUME c.kind \in Leaving, c.pc = 3, OwnerRole \in roles[c.user] PROVE Another(c.user)
      BY <1>2, <1>4, <1>5 DEF Governing, Placed
    <3>2. Cardinality(ActiveOwners) > 1
      BY <1>1, <1>2, <3>1, Scripts DEF Passes, OwnersRemain
    <3> QED  BY <1>2, <3>1, <3>2, OtherOwner DEF IsCommand, Governing
  <2>3. c.kind = "add" /\ d.pc > 2 => status[c.user] # "suspended" /\ OwnerRole \notin roles[c.user]
    <3>1. CASE c.pc = 2
      BY <1>1, <1>2, <3>1, Scripts DEF Passes, MayAct, IInv, AbsentOwnNothing, IsCommand, Governing
    <3>2. CASE c.pc > 2
      BY <1>2, <3>2 DEF Seen
    <3> QED  BY <1>2, <1>4, <1>5, <3>1, <3>2 DEF Placed, Governing
  <2>4. c.kind = "accept" /\ d.pc = 6 => status[c.user] \in {"none", "removed"} /\ OwnerRole \notin roles[c.user]
    BY <1>1, <1>2, <1>4, <1>5, Scripts DEF Passes, MayAct, IInv, AbsentOwnNothing, IsCommand, Placed
  <2> QED  BY <1>4, <2>1, <2>2, <2>3, <2>4 DEF Seen
<1>9. Alone(t, d)
  BY <1>1, <1>4 DEF Alone, Free, IInv, LocksExclude, c
<1>10. UNCHANGED <<status, roles>> /\ Invited'
  BY DEF Proceed, IInv, Shapes, Invited
<1> QED  BY <1>3, <1>4, <1>6, <1>7, <1>8, <1>9, <1>10, QuietStep

-----------------------------------------------------------------------------
(* Steps that write *)

\* What a commit ends: while it runs under a lock, no other command is past
\* the stage that takes that lock.
LEMMA Writing ==
  ASSUME IInv, NEW t \in Slots, NEW kinds, Writes(t, kinds)
  PROVE  LET c == cmd[t] IN
         /\ IsCommand(c) /\ Placed(c) /\ Guarded(c) /\ Seen(c)
         /\ c.kind \in kinds /\ Stage(c) = "write"
         /\ Set(t, Idle)
         /\ c.kind \in Governing =>
              \A s \in Slots \ {t} : cmd[s].kind \in Governing => cmd[s].pc = 1
         /\ c.kind \in {"reactivate", "add", "accept"} =>
              \A s \in Slots \ {t} : /\ cmd[s].kind = "accept" => cmd[s].pc # 6
                                     /\ cmd[s].kind = "add" => cmd[s].pc # 5
<1>1. /\ IsCommand(cmd[t]) /\ Placed(cmd[t]) /\ Guarded(cmd[t]) /\ Seen(cmd[t])
      /\ cmd[t].kind \in kinds /\ Stage(cmd[t]) = "write" /\ Set(t, Idle)
  BY DEF IInv, Shapes, Writes
<1>2. /\ cmd[t].kind \in Governing => Authority \in cmd[t].held
      /\ cmd[t].kind \in {"reactivate", "add", "accept"} => Quota \in cmd[t].held
  BY <1>1, Scripts DEF Guarded, Governing, Placed
<1>3. ASSUME NEW s \in Slots \ {t}
      PROVE  /\ IsCommand(cmd[s]) /\ Placed(cmd[s]) /\ Guarded(cmd[s])
             /\ ~(Authority \in cmd[s].held /\ Authority \in cmd[t].held)
             /\ ~(Quota \in cmd[s].held /\ Quota \in cmd[t].held)
  BY DEF IInv, Shapes, LocksExclude
<1>4. ASSUME NEW s \in Slots \ {t}, Authority \in cmd[t].held, cmd[s].kind \in Governing
      PROVE  cmd[s].pc = 1
  BY <1>3, <1>4 DEF Guarded, Placed, Governing
<1>5. ASSUME NEW s \in Slots \ {t}, Quota \in cmd[t].held
      PROVE  (cmd[s].kind = "accept" => cmd[s].pc # 6) /\ (cmd[s].kind = "add" => cmd[s].pc # 5)
  BY <1>3, <1>5 DEF Guarded
<1> QED  BY <1>1, <1>2, <1>4, <1>5

\* What the other commands have seen stays so when u gets status st and roles rs.
Harmless(t, u, st, rs) ==
  \A s \in Slots \ {t} :
    LET c == cmd[s] IN
      /\ c.user = u =>
           /\ c.kind \in Leaving /\ c.pc > 2 => st = "active"
           /\ c.kind = "add" /\ c.pc > 2 => st # "suspended" /\ OwnerRole \notin rs
           /\ ~(c.kind = "accept" /\ c.pc = 6)
           /\ c.kind \in Leaving /\ c.pc = 4 /\ OwnerRole \in rs => OwnerRole \in roles[u]
      /\ c.kind \in Leaving /\ c.pc = 4 /\ Owns(u) => st = "active" /\ OwnerRole \in rs

\* A commit that gives u another status and other roles keeps the invariant if
\* it does right by the owners and by the commands under way.
LEMMA WriteStep ==
  ASSUME IInv, NEW t \in Slots, Set(t, Idle), Invited',
         NEW u \in Users, NEW st \in Statuses, NEW rs \in SUBSET (StaffRoles \cup {OwnerRole}),
         status' = [status EXCEPT ![u] = st], roles' = [roles EXCEPT ![u] = rs],
         st \in {"none", "removed"} => OwnerRole \notin rs,
         Another(u) \/ (st = "active" /\ (OwnerRole \in roles[u] => OwnerRole \in rs)),
         Harmless(t, u, st, rs)
  PROVE  IInv'
<1>1. /\ DOMAIN cmd' = Slots /\ cmd'[t] = Idle
      /\ \A s \in Slots \ {t} : cmd'[s] = cmd[s]
  BY DEF IInv, Shapes, Set
<1>2. /\ status' \in [Users -> Statuses] /\ roles' \in [Users -> SUBSET (StaffRoles \cup {OwnerRole})]
      /\ status'[u] = st /\ roles'[u] = rs
      /\ \A v \in Users \ {u} : status'[v] = status[v] /\ roles'[v] = roles[v]
  BY DEF IInv, Shapes
<1>3. Shapes'
  <2>1. \A s \in Slots : IsCommand(cmd[s])'
    BY <1>1, IdleCommand DEF IInv, Shapes, IsCommand
  <2> QED  BY <1>1, <1>2, <2>1 DEF Shapes
<1>4. \A s \in Slots : Placed(cmd[s])' /\ Guarded(cmd[s])'
  BY <1>1, IdleCommand DEF IInv, Placed, Guarded
<1>5. \A s \in Slots : Seen(cmd[s])'
  <2>1. ASSUME NEW s \in Slots \ {t} PROVE Seen(cmd[s])'
    <3> DEFINE c == cmd[s]
    <3>1. Seen(c) /\ IsCommand(c) /\ cmd'[s] = c
      BY <1>1 DEF IInv, Shapes
    <3>2. c.kind \in Leaving \cup {"add", "accept"} => c.user \in Users
      BY <3>1 DEF IsCommand, Governing
    <3>3. c.kind \in Leaving /\ c.pc > 2 => status'[c.user] = "active"
      BY <1>2, <3>1, <3>2 DEF Seen, Harmless
    <3>4. c.kind \in Leaving /\ c.pc = 4 /\ OwnerRole \in roles'[c.user] => Another(c.user)'
      <4>1. SUFFICES ASSUME c.kind \in Leaving, c.pc = 4, OwnerRole \in roles'[c.user]
                     PROVE  Another(c.user)'
        OBVIOUS
      <4>2. OwnerRole \in roles[c.user]
        BY <1>2, <3>2, <4>1 DEF Harmless
      <4>3. PICK o \in Users : o # c.user /\ Owns(o)
        BY <3>1, <4>1, <4>2 DEF Seen, Another
      <4>4. Owns(o)'
        BY <1>2, <4>1, <4>3 DEF Owns, Harmless
      <4> QED  BY <3>1, <4>3, <4>4 DEF Another
    <3>5. c.kind = "add" /\ c.pc > 2 => status'[c.user] # "suspended" /\ OwnerRole \notin roles'[c.user]
      BY <1>2, <3>1, <3>2 DEF Seen, Harmless
    <3>6. c.kind = "accept" /\ c.pc = 6 =>
            status'[c.user] \in {"none", "removed"} /\ OwnerRole \notin roles'[c.user]
      BY <1>2, <3>1, <3>2 DEF Seen, Harmless
    <3> QED  BY <3>1, <3>3, <3>4, <3>5, <3>6 DEF Seen, Another, Owns
  <2>2. Seen(cmd[t])'
    BY <1>1, IdleCommand DEF Seen, Leaving
  <2> QED  BY <2>1, <2>2
<1>6. LocksExclude'
  BY <1>1, IdleCommand DEF IInv, LocksExclude
<1>7. AbsentOwnNothing'
  BY <1>2 DEF IInv, AbsentOwnNothing
<1>8. (\E o \in Users : Owns(o))'
  <2>1. CASE Another(u)
    BY <1>2, <2>1 DEF Another, Owns
  <2>2. CASE ~Another(u)
    BY <1>2, <2>2 DEF IInv, Another, Owns
  <2> QED  BY <2>1, <2>2
<1> QED  BY <1>3, <1>4, <1>5, <1>6, <1>7, <1>8 DEF IInv

\* A removal, a suspension or a change of role of a member: another owner stays.
LEMMA LeavingStep ==
  ASSUME IInv, NEW t \in Slots, Remove(t) \/ Suspend(t) \/ SetRoles(t)
  PROVE  IInv'
<1> DEFINE c == cmd[t]
           u == c.user
<1>1. Writes(t, {"remove"}) \/ Writes(t, {"suspend"}) \/ Writes(t, {"roles"})
  BY DEF Remove, Suspend, SetRoles
<1>2. /\ IsCommand(c) /\ Placed(c) /\ Guarded(c) /\ Seen(c) /\ c.kind \in Leaving /\ Stage(c) = "write"
      /\ Set(t, Idle)
      /\ \A s \in Slots \ {t} : cmd[s].kind \in Governing => cmd[s].pc = 1
  BY <1>1, Writing DEF Governing, Leaving
<1>3. c.pc = 4 /\ u \in Users /\ status[u] = "active"
  BY <1>2, Scripts DEF IsCommand, Governing, Seen, Placed
<1>4. Another(u)
  <2>1. OwnerRole \in roles[u] => Another(u)
    BY <1>2, <1>3 DEF Seen
  <2>2. OwnerRole \notin roles[u] => Another(u)
    BY DEF IInv, Another, Owns
  <2> QED  BY <2>1, <2>2
<1>5. Invited'
  BY DEF IInv, Shapes, Invited, Remove, Suspend, SetRoles, Writes
<1>6. roles[u] \in SUBSET (StaffRoles \cup {OwnerRole}) /\ roles = [roles EXCEPT ![u] = roles[u]]
  BY <1>3 DEF IInv, Shapes
<1>7. status = [status EXCEPT ![u] = status[u]] /\ status[u] \in Statuses
  BY <1>3 DEF IInv, Shapes
<1>8. PICK st \in Statuses, rs \in SUBSET (StaffRoles \cup {OwnerRole}) :
        /\ status' = [status EXCEPT ![u] = st] /\ roles' = [roles EXCEPT ![u] = rs]
        /\ st \in {"none", "removed"} => OwnerRole \notin rs
  <2>1. CASE Remove(t)
    <3>1. status' = [status EXCEPT ![u] = "removed"] /\ roles' = [roles EXCEPT ![u] = {}]
      BY <2>1 DEF Remove
    <3>2. "removed" \in Statuses /\ {} \in SUBSET (StaffRoles \cup {OwnerRole}) /\ OwnerRole \notin {}
      BY DEF Statuses
    <3> QED  BY <3>1, <3>2
  <2>2. CASE Suspend(t)
    BY <2>2, <1>6 DEF Suspend, Statuses
  <2>3. CASE SetRoles(t)
    <3>1. c.kind = "roles"
      BY <2>3 DEF SetRoles, Writes
    <3>2. {c.role} \in SUBSET (StaffRoles \cup {OwnerRole})
      BY <1>2, <3>1 DEF IsCommand
    <3>3. status' = [status EXCEPT ![u] = status[u]] /\ roles' = [roles EXCEPT ![u] = {c.role}]
      BY <2>3, <1>7 DEF SetRoles
    <3> QED  BY <1>3, <1>7, <3>2, <3>3
  <2> QED  BY <2>1, <2>2, <2>3
<1>9. ASSUME NEW s \in Slots \ {t}
      PROVE  /\ ~(cmd[s].kind \in Leaving /\ cmd[s].pc > 2) /\ ~(cmd[s].kind \in Leaving /\ cmd[s].pc = 4)
             /\ ~(cmd[s].kind = "add" /\ cmd[s].pc > 2)
             /\ cmd[s].user = u => ~(cmd[s].kind = "accept" /\ cmd[s].pc = 6)
  <2>1. cmd[s].kind \in Leaving \cup {"add"} => cmd[s].pc = 1
    BY <1>2, <1>9 DEF Governing
  <2>2. cmd[s].kind = "accept" /\ cmd[s].pc = 6 => status[cmd[s].user] \in {"none", "removed"}
    BY <1>9 DEF IInv, Seen
  <2> QED  BY <1>3, <2>1, <2>2
<1>10. \A x, y : Harmless(t, u, x, y)
  BY <1>9 DEF Harmless
<1> HIDE DEF c, u
<1> QED  BY <1>2, <1>3, <1>4, <1>5, <1>8, <1>10, WriteStep

\* Marking the invitations a command holds leaves them invitations.
LEMMA MarkedInvited ==
  ASSUME Invited, NEW c, NEW s \in {"pending", "accepted", "cancelled", "expired"}
  PROVE  Marked(c, s) \in Seq(Invitations)
<1>1. \A i \in DOMAIN invitations : [invitations[i] EXCEPT !.status = s] \in Invitations
  BY InvitationAt DEF Invitations
<1>2. \A i \in DOMAIN invitations : invitations[i] \in Invitations
  BY InvitationAt
<1> QED  BY <1>1, <1>2 DEF Invited, Marked

\* A reactivation, an addition or an acceptance: the owners stay, and nobody becomes one.
LEMMA ReactivateStep ==
  ASSUME IInv, NEW t \in Slots, Reactivate(t)
  PROVE  IInv'
<1> DEFINE c == cmd[t]
           u == c.user
<1>1. /\ IsCommand(c) /\ c.kind = "reactivate" /\ Set(t, Idle)
      /\ \A s \in Slots \ {t} : cmd[s].kind \in Governing => cmd[s].pc = 1
      /\ \A s \in Slots \ {t} : cmd[s].kind = "accept" => cmd[s].pc # 6
  <2>1. Writes(t, {"reactivate"})
    BY DEF Reactivate
  <2> QED  BY <2>1, Writing DEF Governing
<1>2. u \in Users
  BY <1>1 DEF IsCommand, Governing
<1>3. /\ roles[u] \in SUBSET (StaffRoles \cup {OwnerRole})
      /\ status' = [status EXCEPT ![u] = "active"] /\ roles' = [roles EXCEPT ![u] = roles[u]]
      /\ Invited'
  BY <1>2 DEF IInv, Shapes, Invited, Reactivate, Writes
<1>4. Harmless(t, u, "active", roles[u])
  <2>1. ASSUME NEW s \in Slots \ {t}
        PROVE  /\ ~(cmd[s].kind \in Leaving /\ cmd[s].pc = 4) /\ ~(cmd[s].kind = "add" /\ cmd[s].pc > 2)
               /\ ~(cmd[s].kind = "accept" /\ cmd[s].pc = 6)
    BY <1>1, <2>1 DEF Governing
  <2> QED  BY <2>1 DEF Harmless
<1> HIDE DEF c, u
<1>5. "active" \in Statuses
  BY DEF Statuses
<1> QED  BY <1>1, <1>2, <1>3, <1>4, <1>5, WriteStep

\* Somebody other than one who owns nothing is an owner.
LEMMA OwnerElsewhere ==
  ASSUME IInv, NEW u \in Users, OwnerRole \notin roles[u]
  PROVE  Another(u)
BY DEF IInv, Another, Owns

LEMMA AddStep ==
  ASSUME IInv, NEW t \in Slots, Add(t)
  PROVE  IInv'
<1> DEFINE c == cmd[t]
           u == c.user
           rs == IF c.saw = "removed" THEN {c.role} ELSE roles[u] \cup {c.role}
<1>1. /\ IsCommand(c) /\ Placed(c) /\ Seen(c) /\ c.kind = "add" /\ Stage(c) = "write" /\ Set(t, Idle)
      /\ \A s \in Slots \ {t} : cmd[s].kind \in Governing => cmd[s].pc = 1
      /\ \A s \in Slots \ {t} : cmd[s].kind = "accept" => cmd[s].pc # 6
  <2>1. Writes(t, {"add"})
    BY DEF Add
  <2> QED  BY <2>1, Writing DEF Governing
<1>2. u \in Users /\ c.role \in StaffRoles /\ OwnerRole \notin roles[u]
  BY <1>1, Scripts DEF IsCommand, Governing, Seen, Placed
<1>3. OwnerRole \notin rs /\ rs \in SUBSET (StaffRoles \cup {OwnerRole})
  BY <1>2, RolesAssumption DEF IInv, Shapes
<1>4. clock' = clock
  BY DEF Add, Writes
<1>5. CASE UNCHANGED <<status, roles, invitations>>
  BY <1>1, <1>4, <1>5, QuietEnd DEF IInv, Shapes, Invited
<1>6. CASE /\ status' = [status EXCEPT ![u] = "active"]
           /\ roles' = [roles EXCEPT ![u] = rs]
           /\ invitations' = Marked(c, "cancelled")
  <2>1. Invited'
    BY <1>4, <1>6, MarkedInvited DEF IInv, Shapes, Invited
  <2>2. Harmless(t, u, "active", rs)
    <3>1. ASSUME NEW s \in Slots \ {t}
          PROVE  /\ ~(cmd[s].kind \in Leaving /\ cmd[s].pc = 4) /\ ~(cmd[s].kind = "add" /\ cmd[s].pc > 2)
                 /\ ~(cmd[s].kind = "accept" /\ cmd[s].pc = 6)
      BY <1>1, <3>1 DEF Governing
    <3> QED  BY <3>1 DEF Harmless
  <2>3. "active" \in Statuses /\ Another(u)
    BY <1>2, OwnerElsewhere DEF Statuses
  <2> HIDE DEF c, u, rs
  <2> QED  BY <1>1, <1>2, <1>3, <1>6, <2>1, <2>2, <2>3, WriteStep
<1> QED  BY <1>5, <1>6 DEF Add

LEMMA AcceptStep ==
  ASSUME IInv, NEW t \in Slots, Accept(t)
  PROVE  IInv'
<1> DEFINE c == cmd[t]
           u == c.user
<1>1. /\ IsCommand(c) /\ Placed(c) /\ Seen(c) /\ c.kind = "accept" /\ Stage(c) = "write" /\ Set(t, Idle)
      /\ \A s \in Slots \ {t} : cmd[s].kind = "accept" => cmd[s].pc # 6
  <2>1. Writes(t, {"accept"})
    BY DEF Accept
  <2> QED  BY <2>1, Writing
<1>2. /\ u \in Users /\ c.role \in StaffRoles
      /\ status[u] \in {"none", "removed"} /\ OwnerRole \notin roles[u]
  BY <1>1, Scripts DEF IsCommand, Governing, Seen, Placed
<1>3. /\ status' = [status EXCEPT ![u] = "active"] /\ roles' = [roles EXCEPT ![u] = {c.role}]
      /\ invitations' = Marked(c, "accepted") /\ clock' = clock
  BY DEF Accept, Writes
<1>4. OwnerRole \notin {c.role} /\ {c.role} \in SUBSET (StaffRoles \cup {OwnerRole})
  BY <1>2, RolesAssumption
<1>5. Invited'
  BY <1>3, MarkedInvited DEF IInv, Shapes, Invited
<1>6. Harmless(t, u, "active", {c.role})
  <2>1. ASSUME NEW s \in Slots \ {t}
        PROVE  /\ ~(cmd[s].kind \in Leaving /\ cmd[s].pc = 4 /\ cmd[s].user = u)
               /\ ~(cmd[s].kind = "accept" /\ cmd[s].pc = 6)
    BY <1>1, <1>2, <2>1 DEF IInv, Seen
  <2>2. ~Owns(u)
    BY <1>2 DEF Owns
  <2> QED  BY <1>4, <2>1, <2>2 DEF Harmless
<1>7. "active" \in Statuses /\ Another(u)
  BY <1>2, OwnerElsewhere DEF Statuses
<1> HIDE DEF c, u
<1> QED  BY <1>1, <1>2, <1>3, <1>4, <1>5, <1>6, <1>7, WriteStep

LEMMA Replaced ==
  ASSUME NEW S, NEW q \in Seq(S), NEW i, NEW e, i \in DOMAIN q => e \in S
  PROVE  [q EXCEPT ![i] = e] \in Seq(S)
<1>1. CASE i \in DOMAIN q
  <2>1. i \in 1..Len(q) /\ e \in S
    BY <1>1
  <2> QED  BY <2>1
<1>2. CASE i \notin DOMAIN q
  <2>1. q = [j \in 1..Len(q) |-> q[j]] /\ i \notin 1..Len(q)
    BY <1>2
  <2>2. [q EXCEPT ![i] = e] = q
    BY <2>1, Zenon
  <2> QED  BY <2>2
<1> QED  BY <1>1, <1>2

\* The commands on invitations, and the rest of the world, leave the members alone.
LEMMA InvitationSteps ==
  ASSUME IInv, NEW t \in Slots, Invite(t) \/ List(t) \/ Cancel(t) \/ Resend(t)
  PROVE  IInv'
<1> DEFINE c == cmd[t]
<1>1. Set(t, Idle) /\ UNCHANGED <<status, roles, clock>> /\ c.kind \in {"invite", "list", "cancel", "resend"}
  BY DEF Invite, List, Cancel, Resend, Writes
<1>2. IsCommand(c) /\ Invited
  BY DEF IInv, Shapes
<1>3. Invited'
  <2>1. CASE Invite(t)
    <3>1. c.kind = "invite"
      BY <2>1 DEF Invite, Writes
    <3>2. [user |-> c.user, role |-> c.role, status |-> "pending", expires |-> c.now + Validity,
           version |-> 1] \in Invitations
      BY <1>2, <3>1, ValidityAssumption DEF IsCommand, Invitations
    <3>3. Marked(c, "expired") \in Seq(Invitations)
      BY <1>2, MarkedInvited
    <3> QED  BY <1>1, <1>2, <2>1, <3>2, <3>3 DEF Invite, Invited
  <2>2. CASE List(t) \/ Cancel(t)
    <3>1. Marked(c, "expired") \in Seq(Invitations) /\ Marked(c, "cancelled") \in Seq(Invitations)
      BY <1>2, MarkedInvited
    <3> QED  BY <1>1, <1>2, <2>2, <3>1 DEF List, Cancel, Invited
  <2>3. CASE Resend(t)
    <3> DEFINE M == Marked(c, "expired")
               n == c.now + Validity
               e1 == [invitations[c.inv] EXCEPT !.expires = n]
               e == [e1 EXCEPT !.version = @ + 1]
    <3>1. M \in Seq(Invitations) /\ DOMAIN M = DOMAIN invitations
      BY <1>2, MarkedInvited DEF Marked
    <3>2. invitations' = [M EXCEPT ![c.inv] = e]
      BY <2>3 DEF Resend
    <3>3. c.inv \in DOMAIN invitations => e \in Invitations
      <4>1. n \in Nat
        BY <1>2, ValidityAssumption DEF IsCommand
      <4> HIDE DEF n
      <4>2. c.inv \in DOMAIN invitations => e1 \in Invitations
        BY <1>2, <4>1, InvitationAt DEF Invitations
      <4> HIDE DEF e1
      <4> QED  BY <4>2 DEF Invitations
    <3> HIDE DEF M, e
    <3>4. [M EXCEPT ![c.inv] = e] \in Seq(Invitations)
      BY <3>1, <3>3, Replaced
    <3> QED  BY <1>1, <1>2, <3>2, <3>4 DEF Invited
  <2> QED  BY <2>1, <2>2, <2>3
<1> QED  BY <1>1, <1>3, QuietEnd

LEMMA RefuseStep ==
  ASSUME IInv, NEW t \in Slots, Refuse(t)
  PROVE  IInv'
<1> DEFINE i == cmd[t].inv
           e == [invitations[i] EXCEPT !.status = "expired"]
<1>1. Set(t, Idle) /\ UNCHANGED <<status, roles, clock>>
  BY DEF Refuse
<1>2. invitations' = invitations \/ invitations' = [invitations EXCEPT ![i] = e]
  BY DEF Refuse
<1>3. i \in DOMAIN invitations => e \in Invitations
  BY InvitationAt DEF IInv, Shapes, Invitations
<1> HIDE DEF i, e
<1>4. Invited'
  BY <1>1, <1>2, <1>3 DEF IInv, Shapes, Invited
<1> QED  BY <1>1, <1>4, QuietEnd

LEMMA WorldStep ==
  ASSUME IInv, Tick \/ ChangePlan \/ UNCHANGED vars
  PROVE  IInv'
<1>1. UNCHANGED <<status, roles, cmd, invitations>> /\ clock' \in Nat
  BY DEF Tick, ChangePlan, vars, IInv, Shapes, Invited
<1>2. Shapes'
  BY <1>1 DEF IInv, Shapes, Invited, IsCommand
<1>3. \A t \in Slots : Placed(cmd[t])' /\ Guarded(cmd[t])' /\ Seen(cmd[t])'
  BY <1>1 DEF IInv, Placed, Guarded, Seen, Another, Owns
<1>4. LocksExclude' /\ AbsentOwnNothing' /\ (\E o \in Users : Owns(o))'
  BY <1>1 DEF IInv, LocksExclude, AbsentOwnNothing, Owns
<1> QED  BY <1>2, <1>3, <1>4 DEF IInv

LEMMA StartsWell == Init => IInv
<1> SUFFICES ASSUME Init PROVE IInv
  OBVIOUS
<1>1. Shapes
  <2>1. status \in [Users -> Statuses] /\ roles \in [Users -> SUBSET (StaffRoles \cup {OwnerRole})]
    BY DEF Init, Statuses
  <2>2. Invited
    BY DEF Init, Invited
  <2> QED  BY <2>1, <2>2, IdleCommand DEF Init, Shapes
<1>2. \A t \in Slots : Placed(cmd[t]) /\ Guarded(cmd[t]) /\ Seen(cmd[t])
  BY IdleCommand DEF Init
<1>3. LocksExclude
  BY IdleCommand DEF Init, LocksExclude
<1>4. AbsentOwnNothing /\ \E o \in Users : Owns(o)
  BY OwnersAssumption DEF Init, AbsentOwnNothing, Owns
<1> QED  BY <1>1, <1>2, <1>3, <1>4 DEF IInv

LEMMA EveryStep == IInv /\ [Next]_vars => IInv'
<1> SUFFICES ASSUME IInv, [Next]_vars PROVE IInv'
  OBVIOUS
<1>1. CASE Tick \/ ChangePlan \/ UNCHANGED vars
  BY <1>1, WorldStep
<1>2. ASSUME NEW t \in Slots, Send(t) \/ Step(t) PROVE IInv'
  <2>1. CASE Send(t)
    BY <2>1, SendStep
  <2>2. CASE Proceed(t)
    BY <2>2, ProceedStep
  <2>3. CASE Refuse(t)
    BY <2>3, RefuseStep
  <2>4. CASE Remove(t) \/ Suspend(t) \/ SetRoles(t)
    BY <2>4, LeavingStep
  <2>5. CASE Reactivate(t)
    BY <2>5, ReactivateStep
  <2>6. CASE Add(t)
    BY <2>6, AddStep
  <2>7. CASE Accept(t)
    BY <2>7, AcceptStep
  <2>8. CASE Invite(t) \/ List(t) \/ Cancel(t) \/ Resend(t)
    BY <2>8, InvitationSteps
  <2>9. CASE Victim(t)
    BY <2>9, QuietEnd DEF Victim, IInv, Shapes, Invited
  <2> QED  BY <1>2, <2>1, <2>2, <2>3, <2>4, <2>5, <2>6, <2>7, <2>8, <2>9 DEF Step
<1> QED  BY <1>1, <1>2 DEF Next

\* What the commands saw under their locks is always still so.
THEOREM LocksKeepWhatWasSeen == Spec => []IInv
BY StartsWell, EveryStep, PTL DEF Spec

-----------------------------------------------------------------------------
(* The theorems *)

\* A business never loses its last active owner, for any number of owners,
\* removals, suspensions and role changes at once (OwnerStays).
THEOREM AnOwnerStays == Spec => []OwnerStays
<1>1. IInv => OwnerStays
  BY DEF IInv, Owns, OwnerStays, ActiveOwners
<1> QED  BY <1>1, LocksKeepWhatWasSeen, PTL

\* Commands that take the authority lock never wait for each other in a cycle of
\* any length: one that waits for the lock holds nothing, and only one holds it.
THEOREM NoCycleUnderAuthority == Spec => []AuthorityNeverDeadlocks
<1>1. IInv => AuthorityNeverDeadlocks
  <2> SUFFICES ASSUME IInv, NEW R \in SUBSET Waiting, Cycle(R),
                      \A t \in R : cmd[t].kind \notin Inviting
               PROVE  FALSE
    BY DEF AuthorityNeverDeadlocks, Inviting
  <2>1. \A t \in R : t \in Slots /\ cmd[t].kind \in Governing
    BY DEF Waiting, Pending, IInv, Shapes, IsCommand
  <2>2. ASSUME NEW t \in R PROVE \E s \in R \ {t} : Authority \in cmd[s].held
    <3>1. PICK s \in R \ {t} : Needs(cmd[t]) \cap cmd[s].held # {}
      BY <2>2 DEF Cycle
    <3>2. cmd[s].pc # 1 /\ cmd[s].pc \in 1..5
      BY <2>1, <3>1 DEF IInv, Guarded, Placed, Governing
    <3> QED  BY <2>1, <3>1, <3>2 DEF IInv, Guarded
  <2>3. PICK t \in R : TRUE
    BY DEF Cycle
  <2>4. PICK s \in R \ {t} : Authority \in cmd[s].held
    BY <2>2, <2>3
  <2>5. PICK r \in R \ {s} : Authority \in cmd[r].held
    BY <2>2, <2>4
  <2> QED  BY <2>1, <2>4, <2>5 DEF IInv, LocksExclude
<1> QED  BY <1>1, LocksKeepWhatWasSeen, PTL

\* Only a reactivation ends a suspension, whatever additions and acceptances are
\* under way (SuspensionHolds).
THEOREM OnlyReactivationReturns == Spec => SuspensionHolds
<1> DEFINE Kept == \A u \in Users : status[u] = "suspended" /\ status'[u] = "active" =>
                     \E t \in Slots : cmd[t].kind = "reactivate" /\ cmd[t].user = u /\ cmd'[t] = Idle
<1>1. ASSUME IInv, [Next]_vars PROVE Kept
  <2> SUFFICES ASSUME NEW u \in Users, status[u] = "suspended", status'[u] = "active"
               PROVE  \E t \in Slots : cmd[t].kind = "reactivate" /\ cmd[t].user = u /\ cmd'[t] = Idle
    OBVIOUS
  <2>1. status \in [Users -> Statuses]
    BY <1>1 DEF IInv, Shapes
  <2>2. PICK t \in Slots : Remove(t) \/ Suspend(t) \/ Reactivate(t) \/ Add(t) \/ Accept(t)
    BY <1>1 DEF Next, Step, vars, Tick, ChangePlan, Send, Ask, Proceed, Refuse, SetRoles,
                Invite, List, Cancel, Resend, Victim
  <2>3. IsCommand(cmd[t]) /\ Placed(cmd[t]) /\ Seen(cmd[t])
    BY <1>1 DEF IInv, Shapes
  <2>4. CASE Remove(t)
    BY <2>1, <2>4 DEF Remove
  <2>5. CASE Suspend(t)
    BY <2>1, <2>5 DEF Suspend
  <2>6. CASE Add(t)
    <3>1. status' = status \/ status' = [status EXCEPT ![cmd[t].user] = "active"]
      BY <2>6 DEF Add
    <3>2. cmd[t].kind = "add" /\ cmd[t].pc = 5
      BY <2>3, <2>6, Scripts DEF Add, Writes, Governing
    <3>3. status[cmd[t].user] # "suspended"
      BY <2>3, <3>2 DEF Seen
    <3> QED  BY <2>1, <3>1, <3>3
  <2>7. CASE Accept(t)
    <3>1. status' = [status EXCEPT ![cmd[t].user] = "active"]
      BY <2>7 DEF Accept
    <3>2. cmd[t].kind = "accept" /\ cmd[t].pc = 6
      BY <2>3, <2>7, Scripts DEF Accept, Writes
    <3>3. status[cmd[t].user] # "suspended"
      BY <2>3, <3>2 DEF Seen
    <3> QED  BY <2>1, <3>1, <3>3
  <2>8. CASE Reactivate(t)
    <3>1. /\ cmd[t].kind = "reactivate" /\ status' = [status EXCEPT ![cmd[t].user] = "active"]
          /\ Set(t, Idle)
      BY <2>8 DEF Reactivate, Writes
    <3>2. cmd[t].user = u
      BY <2>1, <3>1
    <3>3. cmd'[t] = Idle
      BY <1>1, <3>1 DEF Set, IInv, Shapes
    <3> QED  BY <3>1, <3>2, <3>3
  <2> QED  BY <2>2, <2>4, <2>5, <2>6, <2>7, <2>8
<1>2. IInv /\ [Next]_vars => [Kept]_vars
  BY <1>1
<1> QED  BY <1>2, LocksKeepWhatWasSeen, PTL DEF Spec, SuspensionHolds

-----------------------------------------------------------------------------
(* The limit of the plan *)

Active   == {u \in Users : status[u] = "active"}
Reserved == {i \in DOMAIN invitations : invitations[i].status = "pending"}

\* A command has counted, and has yet to write.
Past(c) ==
  \/ c.kind \in {"reactivate", "invite"} /\ c.pc = 4
  \/ c.kind = "add" /\ c.pc = 5
  \/ c.kind = "accept" /\ c.pc > 4

\* The places it counted: what had lapsed and what it gives up are not among them.
Claims(c) == (Reserved \ c.lapsed) \ Held(c)

\* The places still taken leave room for one more under the limit of the count.
Counted(c) ==
  /\ c.kind = "reactivate" => c.held \subseteq {Authority, Quota, Member(c.user)}
  /\ Past(c) =>
       /\ c.cap \in Int /\ c.lapsed \subseteq DOMAIN invitations
       /\ Within(Cardinality(Active) + Cardinality(Claims(c)) + 1, c.cap)

CountInv == limit \in Int /\ \A t \in Slots : Counted(cmd[t])

\* One place more, at most.
LEMMA OneMore ==
  ASSUME NEW A, IsFiniteSet(A), NEW B, NEW x, B \subseteq A \cup {x}
  PROVE  Cardinality(B) \in Nat /\ Cardinality(B) <= Cardinality(A) + 1
<1>1. /\ IsFiniteSet(A \cup {x}) /\ Cardinality(A) \in Nat
      /\ Cardinality(A \cup {x}) = IF x \in A THEN Cardinality(A) ELSE Cardinality(A) + 1
  BY FS_AddElement, FS_CardinalityType
<1>2. IsFiniteSet(B) /\ Cardinality(B) <= Cardinality(A \cup {x})
  BY <1>1, FS_Subset
<1>3. Cardinality(B) \in Nat
  BY <1>2, FS_CardinalityType
<1> QED  BY <1>1, <1>2, <1>3

LEMMA NoMore ==
  ASSUME NEW A, IsFiniteSet(A), NEW B, B \subseteq A
  PROVE  Cardinality(A) \in Nat /\ Cardinality(B) \in Nat /\ Cardinality(B) <= Cardinality(A)
BY FS_Subset, FS_CardinalityType

\* What counts without the lapsed.
LEMMA WithoutLapsed ==
  ASSUME NEW P, IsFiniteSet(P), NEW V, V \subseteq P, NEW L
  PROVE  Cardinality(V) - Cardinality(V \cap L) <= Cardinality(P \ L)
<1>1. IsFiniteSet(V) /\ IsFiniteSet(P \ L)
  BY FS_Subset
<1>2. Cardinality(V \ L) = Cardinality(V) - Cardinality(V \cap L)
  BY <1>1, FS_Difference
<1>3. Cardinality(V \ L) <= Cardinality(P \ L)
  BY <1>1, NoMore
<1> QED  BY <1>2, <1>3

LEMMA FiniteCounts ==
  ASSUME Shapes
  PROVE  IsFiniteSet(Active) /\ IsFiniteSet(DOMAIN invitations) /\ IsFiniteSet(Reserved)
<1>1. IsFiniteSet(Active)
  BY UsersAssumption, FS_Subset DEF Active
<1>2. IsFiniteSet(DOMAIN invitations)
  <2>1. Len(invitations) \in Nat /\ DOMAIN invitations = 1..Len(invitations)
    BY DEF Shapes, Invited
  <2> QED  BY <2>1, FS_Interval
<1> QED  BY <1>1, <1>2, FS_Subset DEF Reserved

\* Neither a member nor a reservation is added.
NoneAdded ==
  /\ Active' \subseteq Active /\ Reserved' \subseteq Reserved
  /\ DOMAIN invitations \subseteq DOMAIN invitations'

LEMMA StaysCounted ==
  ASSUME Shapes, NEW c, Counted(c), Past(c) => NoneAdded
  PROVE  Counted(c)'
<1>1. c.kind = "reactivate" => c.held \subseteq {Authority, Quota, Member(c.user)}
  BY DEF Counted
<1>2. ASSUME Past(c)
      PROVE  /\ c.cap \in Int /\ c.lapsed \subseteq DOMAIN invitations'
             /\ Within(Cardinality(Active') + Cardinality(Claims(c)') + 1, c.cap)
  <2>1. /\ c.cap \in Int /\ c.lapsed \subseteq DOMAIN invitations'
        /\ Within(Cardinality(Active) + Cardinality(Claims(c)) + 1, c.cap)
    BY <1>2 DEF Counted, NoneAdded
  <2>2. Claims(c)' \subseteq Claims(c) /\ IsFiniteSet(Claims(c))
    <3>1. Reserved' \subseteq Reserved /\ Reserved \subseteq DOMAIN invitations
      BY <1>2 DEF NoneAdded, Reserved
    <3>2. IsFiniteSet(Claims(c))
      BY FiniteCounts, FS_Subset DEF Claims
    <3>3. ASSUME NEW i \in Reserved', i \notin Held(c)' PROVE i \notin Held(c)
      BY <1>2, <3>3 DEF Held, NoneAdded, Reserved
    <3> QED  BY <3>1, <3>2, <3>3 DEF Claims
  <2>3. /\ Cardinality(Claims(c)) \in Nat /\ Cardinality(Claims(c)') \in Nat
        /\ Cardinality(Claims(c)') <= Cardinality(Claims(c))
    BY <2>2, NoMore
  <2>4. /\ Cardinality(Active) \in Nat /\ Cardinality(Active') \in Nat
        /\ Cardinality(Active') <= Cardinality(Active)
    BY <1>2, FiniteCounts, NoMore DEF NoneAdded
  <2> HIDE DEF Active
  <2> QED  BY <2>1, <2>3, <2>4 DEF Within
<1> QED  BY <1>1, <1>2 DEF Counted, Past

\* The count a command passes: what is left pending without the lapsed is what was valid.
LEMMA CountPassed ==
  ASSUME IInv, CountInv, NEW t \in Slots, NEW d, Proceed(t), Proceeds(cmd[t], d)
  PROVE  Counted(d)
<1> DEFINE c == cmd[t]
<1>1. /\ IsCommand(c) /\ Placed(c) /\ Counted(c) /\ Passes(c) /\ Stage(c) # "write"
  BY ProceedsTo DEF IInv, Shapes, CountInv, Pending
<1> HIDE DEF c
<1>2. Proceeds(c, d)
  BY DEF c
<1>3. c.held \subseteq d.held /\ Held(c) \subseteq Held(d)
  BY <1>2 DEF Proceeds, Held
<1>4. d.kind = "reactivate" => d.held \subseteq {Authority, Quota, Member(d.user)}
  <2>1. c.kind = "reactivate" => Stage(c) \in {"authority", "member", "quota"}
    BY <1>1 DEF Placed, Stage, Script
  <2>2. Stage(c) \in {"authority", "member", "quota"} => Needs(c) \subseteq {Authority, Quota, Member(c.user)}
    BY DEF Needs, Authority, Quota, AuthorityLock, QuotaLock
  <2> QED  BY <1>1, <1>2, <2>1, <2>2 DEF Proceeds, Counted
<1>5. CASE Past(d) /\ Stage(c) = "quota"
  <2>1. d.cap = limit /\ limit \in Int /\ d.lapsed = Swept(c) /\ CanConsume(c)
    BY <1>1, <1>2, <1>5 DEF Proceeds, CountInv, Passes
  <2>2. Swept(c) \subseteq DOMAIN invitations
    BY DEF Swept
  <2> DEFINE V == {i \in DOMAIN invitations : Valid(i, c.now)} \ Held(c)
  <2>3. IsFiniteSet(V) /\ IsFiniteSet(Active)
    BY FiniteCounts, FS_Subset DEF IInv
  <2>4. Claims(d) \subseteq V
    <3> SUFFICES ASSUME NEW i \in Claims(d) PROVE i \in V
      OBVIOUS
    <3>1. i \in DOMAIN invitations /\ invitations[i].status = "pending" /\ i \notin Swept(c) /\ i \notin Held(c)
      BY <1>3, <2>1 DEF Claims, Reserved
    <3>2. ~(invitations[i].expires <= c.now)
      BY <3>1 DEF Swept, Expired
    <3>3. invitations[i].expires \in Nat /\ c.now \in Nat
      BY <1>1, <3>1, InvitationAt DEF IInv, Shapes, Invitations, IsCommand
    <3> QED  BY <3>1, <3>2, <3>3 DEF Valid
  <2>5. Within(Cardinality(Active) + Cardinality(V) + 1, limit)
    BY <2>1 DEF CanConsume, Usage, Active
  <2> HIDE DEF V
  <2>6. /\ Cardinality(V) \in Nat /\ Cardinality(Claims(d)) \in Nat /\ Cardinality(Claims(d)) <= Cardinality(V)
        /\ Cardinality(Active) \in Nat
    BY <2>3, <2>4, NoMore
  <2>7. Within(Cardinality(Active) + Cardinality(Claims(d)) + 1, limit)
    BY <2>1, <2>5, <2>6 DEF Within
  <2> QED  BY <1>4, <2>1, <2>2, <2>7 DEF Counted
<1>6. CASE Past(d) /\ Stage(c) # "quota"
  <2>1. c.kind = "accept" /\ c.pc = 5
    BY <1>1, <1>2, <1>6, Scripts DEF Past, Proceeds, Placed, Governing
  <2>2. Past(c) /\ d.cap = c.cap /\ d.lapsed = c.lapsed
    BY <1>2, <1>6, <2>1 DEF Past, Proceeds
  <2>3. IsFiniteSet(Claims(c)) /\ IsFiniteSet(Active) /\ Claims(d) \subseteq Claims(c)
    BY <1>3, <2>2, FiniteCounts, FS_Subset DEF Claims, IInv
  <2>4. /\ Cardinality(Claims(c)) \in Nat /\ Cardinality(Claims(d)) \in Nat
        /\ Cardinality(Claims(d)) <= Cardinality(Claims(c)) /\ Cardinality(Active) \in Nat
    BY <2>3, NoMore
  <2>5. /\ c.cap \in Int /\ c.lapsed \subseteq DOMAIN invitations
        /\ Within(Cardinality(Active) + Cardinality(Claims(c)) + 1, c.cap)
    BY <1>1, <2>2 DEF Counted
  <2>6. Within(Cardinality(Active) + Cardinality(Claims(d)) + 1, c.cap)
    BY <2>4, <2>5 DEF Within
  <2> QED  BY <1>4, <2>2, <2>5, <2>6 DEF Counted
<1>7. CASE ~Past(d)
  BY <1>4, <1>7 DEF Counted
<1> QED  BY <1>5, <1>6, <1>7

\* A resend leaves every invitation what it was, or marks it, but for its own, whose status stays.
LEMMA ResendKeeps ==
  ASSUME Invited, NEW t \in Slots, Resend(t), NEW i \in DOMAIN invitations,
         invitations'[i].status = "pending"
  PROVE  invitations[i].status = "pending" /\ (i # cmd[t].inv => invitations'[i] = invitations[i])
<1> DEFINE c == cmd[t]
           M == Marked(c, "expired")
           n == c.now + Validity
           e1 == [invitations[c.inv] EXCEPT !.expires = n]
           e == [e1 EXCEPT !.version = @ + 1]
<1>1. invitations' = [M EXCEPT ![c.inv] = e] /\ DOMAIN M = DOMAIN invitations
  BY DEF Resend, Marked
<1>2. M[i] = invitations[i] \/ M[i] = [invitations[i] EXCEPT !.status = "expired"]
  BY DEF Marked
<1>3. invitations[i] \in Invitations
  BY InvitationAt
<1>4. CASE i = c.inv
  <2>1. invitations'[i] = e
    BY <1>1, <1>4
  <2> HIDE DEF n
  <2>2. e1.status = invitations[i].status /\ e1 = [invitations[i] EXCEPT !.expires = n]
    BY <1>3, <1>4 DEF Invitations
  <2>3. e.status = e1.status
    BY <1>3, <2>2 DEF Invitations
  <2> QED  BY <1>4, <2>1, <2>2, <2>3
<1>5. CASE i # c.inv
  <2> HIDE DEF M, e
  <2>1. invitations'[i] = M[i]
    BY <1>1, <1>5
  <2> QED  BY <1>2, <1>3, <2>1 DEF Invitations
<1> QED  BY <1>4, <1>5

\* Marking adds no reservation, and ends those the command holds.
LEMMA MarkedReserves ==
  ASSUME Invited, NEW c, NEW s, s # "pending", invitations' = Marked(c, s)
  PROVE  Reserved' \subseteq Reserved \ Held(c) /\ DOMAIN invitations' = DOMAIN invitations
<1>1. DOMAIN invitations' = DOMAIN invitations
  BY DEF Marked
<1>2. ASSUME NEW i \in DOMAIN invitations, i \in Held(c) PROVE invitations'[i].status # "pending"
  <2>1. invitations'[i] = [invitations[i] EXCEPT !.status = s]
    BY <1>2 DEF Marked
  <2> QED  BY <1>2, <2>1, InvitationAt DEF Invitations
<1>3. ASSUME NEW i \in DOMAIN invitations, i \notin Held(c) PROVE invitations'[i] = invitations[i]
  BY <1>3 DEF Marked
<1> QED  BY <1>1, <1>2, <1>3 DEF Reserved

\* A write under the quota lock takes one place, or none.
TakesOne(c) ==
  \/ UNCHANGED <<status, invitations>>
  \/ /\ \E u : Active' \subseteq Active \cup {u}
     /\ Reserved' \subseteq Reserved \ Held(c)
  \/ /\ Active' \subseteq Active
     /\ \E i : Reserved' \subseteq (Reserved \ Held(c)) \cup {i}

\* The writes that take a place.
Consumes(t) == Reactivate(t) \/ Add(t) \/ Accept(t) \/ Invite(t)

LEMMA ConsumersTakeOne ==
  ASSUME IInv, CountInv, NEW t \in Slots, Consumes(t)
  PROVE  /\ Past(cmd[t]) /\ Quota \in cmd[t].held /\ Set(t, Idle) /\ clock' = clock /\ cmd[t] # Idle
         /\ DOMAIN invitations \subseteq DOMAIN invitations'
         /\ TakesOne(cmd[t])
<1> DEFINE c == cmd[t]
<1>1. /\ IsCommand(c) /\ Placed(c) /\ Guarded(c) /\ Counted(c) /\ Invited
      /\ status \in [Users -> Statuses]
  BY DEF IInv, Shapes, CountInv
<1>2. /\ c.kind \in {"reactivate", "add", "accept", "invite"} /\ Stage(c) = "write" /\ Set(t, Idle)
      /\ clock' = clock
  BY DEF Consumes, Reactivate, Add, Accept, Invite, Writes
<1>3. /\ c.kind \in {"reactivate", "invite"} => c.pc = 4
      /\ c.kind = "add" => c.pc = 5
      /\ c.kind = "accept" => c.pc = 6
  BY <1>1, <1>2, Scripts DEF Governing
<1>4. Past(c) /\ Quota \in c.held
  BY <1>1, <1>2, <1>3 DEF Past, Guarded
<1>5. c # Idle
  BY <1>2, IdleCommand
<1>6. ASSUME NEW x, status' = [status EXCEPT ![c.user] = x]
      PROVE  Active' \subseteq Active \cup {c.user}
  BY <1>1, <1>6 DEF Active
<1>7. CASE Reactivate(t)
  <2>1. c.kind = "reactivate" /\ invitations' = invitations /\ status' = [status EXCEPT ![c.user] = "active"]
    BY <1>7 DEF Reactivate, Writes
  <2>2. \A i : Invitation(i) \notin {Authority, Quota, Member(c.user)}
    BY DEF Invitation, Authority, Quota, Member
  <2>3. Held(c) = {}
    BY <1>1, <2>1, <2>2 DEF Counted, Held
  <2>4. Reserved' \subseteq Reserved \ Held(c)
    BY <2>1, <2>3 DEF Reserved
  <2> QED  BY <1>2, <1>4, <1>5, <1>6, <2>1, <2>4 DEF TakesOne
<1>8. CASE Add(t) \/ Accept(t)
  <2>1. CASE UNCHANGED <<status, roles, invitations>>
    BY <1>2, <1>4, <1>5, <2>1 DEF TakesOne
  <2>2. CASE /\ status' = [status EXCEPT ![c.user] = "active"]
             /\ \E s \in {"cancelled", "accepted"} : invitations' = Marked(c, s)
    <3>1. Reserved' \subseteq Reserved \ Held(c) /\ DOMAIN invitations' = DOMAIN invitations
      BY <1>1, <2>2, MarkedReserves
    <3> QED  BY <1>2, <1>4, <1>5, <1>6, <2>2, <3>1 DEF TakesOne
  <2> QED  BY <1>8, <2>1, <2>2 DEF Add, Accept
<1>9. CASE Invite(t)
  <2> DEFINE M == Marked(c, "expired")
             e == [user |-> c.user, role |-> c.role, status |-> "pending",
                   expires |-> c.now + Validity, version |-> 1]
  <2>1. status' = status /\ (invitations' = invitations \/ invitations' = Append(M, e))
    BY <1>9 DEF Invite
  <2>2. Active' = Active
    BY <2>1 DEF Active
  <2>3. CASE invitations' = invitations
    BY <1>2, <1>4, <1>5, <2>1, <2>3 DEF TakesOne
  <2>4. CASE invitations' = Append(M, e)
    <3>1. M \in Seq(Invitations) /\ DOMAIN M = DOMAIN invitations
      BY <1>1, MarkedInvited DEF Marked
    <3>2. \A i \in DOMAIN invitations : M[i].status = "pending" => i \in Reserved \ Held(c)
      <4> SUFFICES ASSUME NEW i \in DOMAIN invitations, M[i].status = "pending"
                   PROVE  i \in Reserved /\ i \notin Held(c)
        OBVIOUS
      <4>1. i \notin Held(c)
        <5> SUFFICES ASSUME i \in Held(c) PROVE FALSE
          OBVIOUS
        <5>1. M[i] = [invitations[i] EXCEPT !.status = "expired"]
          BY DEF Marked
        <5> QED  BY <1>1, <5>1, InvitationAt DEF Invitations
      <4>2. M[i] = invitations[i]
        BY <4>1 DEF Marked
      <4> QED  BY <4>1, <4>2 DEF Reserved
    <3> HIDE DEF M, e
    <3>3. /\ DOMAIN invitations' = DOMAIN M \cup {Len(M) + 1}
          /\ \A i \in DOMAIN M : invitations'[i] = M[i]
      BY <2>4, <3>1
    <3>4. Reserved' \subseteq (Reserved \ Held(c)) \cup {Len(M) + 1}
      BY <3>1, <3>2, <3>3 DEF Reserved
    <3> QED  BY <1>2, <1>4, <1>5, <2>2, <3>1, <3>3, <3>4 DEF TakesOne
  <2> QED  BY <2>1, <2>3, <2>4
<1> QED  BY <1>7, <1>8, <1>9 DEF Consumes

\* No other step adds a member or a reservation.
LEMMA OthersAddNone ==
  ASSUME IInv, NEW t \in Slots, Send(t) \/ Step(t), ~Consumes(t)
  PROVE  NoneAdded /\ clock' = clock
<1>1. Invited /\ status \in [Users -> Statuses]
  BY DEF IInv, Shapes
<1>2. CASE Send(t) \/ Proceed(t) \/ Victim(t)
  <2>1. UNCHANGED <<status, invitations, clock>>
    BY <1>2, NewCommands DEF IInv, Ask, Proceed, Victim
  <2> QED  BY <2>1 DEF NoneAdded, Active, Reserved
<1>3. CASE Remove(t) \/ Suspend(t) \/ SetRoles(t)
  <2>1. /\ UNCHANGED <<invitations, clock>>
        /\ \/ status' = status
           \/ \E x \in {"removed", "suspended"} : status' = [status EXCEPT ![cmd[t].user] = x]
    BY <1>3 DEF Remove, Suspend, SetRoles, Writes
  <2>2. Active' \subseteq Active
    BY <1>1, <2>1 DEF Active
  <2> QED  BY <2>1, <2>2 DEF NoneAdded, Reserved
<1>4. CASE Refuse(t)
  <2> DEFINE j == cmd[t].inv
             e == [invitations[j] EXCEPT !.status = "expired"]
  <2>1. /\ UNCHANGED <<status, clock>>
        /\ invitations' = invitations \/ invitations' = [invitations EXCEPT ![j] = e]
    BY <1>4 DEF Refuse
  <2>2. j \in DOMAIN invitations => e.status = "expired"
    BY <1>1, InvitationAt DEF Invitations
  <2> HIDE DEF j, e
  <2>3. DOMAIN invitations' = DOMAIN invitations
    BY <1>1, <2>1
  <2>4. \A i \in DOMAIN invitations : invitations'[i] = invitations[i] \/ invitations'[i].status = "expired"
    BY <1>1, <2>1, <2>2
  <2> QED  BY <2>1, <2>3, <2>4 DEF NoneAdded, Active, Reserved
<1>5. CASE List(t) \/ Cancel(t)
  <2>1. /\ UNCHANGED <<status, clock>>
        /\ \E s \in {"expired", "cancelled"} : invitations' = Marked(cmd[t], s)
    BY <1>5 DEF List, Cancel, Writes
  <2>2. Reserved' \subseteq Reserved /\ DOMAIN invitations' = DOMAIN invitations
    BY <1>1, <2>1, MarkedReserves
  <2> QED  BY <2>1, <2>2 DEF NoneAdded, Active
<1>6. CASE Resend(t)
  <2>1. UNCHANGED <<status, clock>> /\ DOMAIN invitations' = DOMAIN invitations
    BY <1>6 DEF Resend, Writes, Marked
  <2>2. Reserved' \subseteq Reserved
    <3> SUFFICES ASSUME NEW i \in Reserved' PROVE i \in Reserved
      OBVIOUS
    <3>1. i \in DOMAIN invitations /\ invitations'[i].status = "pending"
      BY <2>1 DEF Reserved
    <3> QED  BY <1>1, <1>6, <3>1, ResendKeeps DEF Reserved
  <2> QED  BY <2>1, <2>2 DEF NoneAdded, Active
<1> QED  BY <1>2, <1>3, <1>4, <1>5, <1>6 DEF Step, Consumes

\* A step changes one command.
LEMMA OneMoves ==
  ASSUME Shapes, NEW t \in Slots, Send(t) \/ Step(t), NEW s \in Slots \ {t}
  PROVE  cmd'[s] = cmd[s]
<1>1. \E d : Set(t, d)
  BY NewCommands, ProceedsTo DEF Ask, Step, Refuse, Remove, Suspend, Reactivate, SetRoles, Add, Invite, List,
     Cancel, Resend, Accept, Victim, Writes
<1> QED  BY <1>1 DEF Set, Shapes

LEMMA CountStep == IInv /\ CountInv /\ [Next]_vars => CountInv'
<1> SUFFICES ASSUME IInv, CountInv, [Next]_vars PROVE CountInv'
  OBVIOUS
<1>1. limit' \in Int
  BY LimitsAssumption DEF CountInv, Next, vars, Tick, ChangePlan, Send, Ask, Step, Proceed, Refuse, Remove, Suspend,
     Reactivate, SetRoles, Add, Invite, List, Cancel, Resend, Accept, Victim, Writes
<1>2. CASE Tick \/ ChangePlan \/ UNCHANGED vars
  <2>1. UNCHANGED <<status, invitations, cmd>>
    BY <1>2 DEF Tick, ChangePlan, vars
  <2>2. NoneAdded
    BY <2>1 DEF NoneAdded, Active, Reserved
  <2>3. ASSUME NEW s \in Slots PROVE Counted(cmd[s])'
    <3>1. PICK c \in {cmd[s]} : TRUE
      OBVIOUS
    <3>2. Counted(c)'
      BY <2>2, <3>1, StaysCounted DEF IInv, CountInv
    <3> QED  BY <2>1, <3>1, <3>2 DEF Counted, Past, Claims, Held
  <2> QED  BY <1>1, <2>3 DEF CountInv
<1>3. ASSUME NEW t \in Slots, Send(t) \/ Step(t) PROVE CountInv'
  <2>1. Consumes(t) \/ NoneAdded
    BY <1>3, OthersAddNone
  <2>2. ASSUME NEW s \in Slots \ {t} PROVE Counted(cmd[s])'
    <3>1. PICK c \in {cmd[s]} : TRUE
      OBVIOUS
    <3>2. Past(c) => NoneAdded
      <4>1. Past(c) => Quota \in c.held
        BY <3>1 DEF Past, IInv, Guarded, Placed
      <4>2. Consumes(t) => Quota \notin c.held
        BY <3>1, ConsumersTakeOne DEF IInv, LocksExclude
      <4> QED  BY <2>1, <4>1, <4>2
    <3>3. Counted(c)'
      BY <3>1, <3>2, StaysCounted DEF IInv, CountInv
    <3>4. cmd'[s] = c
      BY <1>3, <3>1, OneMoves DEF IInv
    <3> QED  BY <3>3, <3>4 DEF Counted, Past, Claims, Held
  <2>3. Counted(cmd[t])'
    <3>1. CASE Send(t)
      <4>1. PICK c : Ask(t, c) /\ New(c)
        BY <3>1, NewCommands DEF IInv
      <4>2. cmd'[t] = c
        BY <4>1 DEF Ask, Set, IInv, Shapes
      <4> QED  BY <4>1, <4>2 DEF New, Counted, Past
    <3>2. CASE Proceed(t)
      <4>1. PICK d : Set(t, d) /\ Proceeds(cmd[t], d)
        BY <3>2, ProceedsTo DEF IInv
      <4>2. Counted(d) /\ cmd'[t] = d
        BY <3>2, <4>1, CountPassed DEF Set, IInv, Shapes
      <4>3. UNCHANGED <<status, invitations>>
        BY <3>2 DEF Proceed
      <4>4. Counted(d)'
        BY <4>2, <4>3, StaysCounted DEF IInv, NoneAdded, Active, Reserved
      <4> QED  BY <4>2, <4>4 DEF Counted, Past, Claims, Held
    <3>3. CASE ~Send(t) /\ ~Proceed(t)
      <4>1. Set(t, Idle)
        BY <1>3, <3>3 DEF Step, Refuse, Remove, Suspend, Reactivate, SetRoles, Add, Invite, List, Cancel,
           Resend, Accept, Victim, Writes
      <4>2. cmd'[t] = Idle
        BY <4>1 DEF Set, IInv, Shapes
      <4> QED  BY <4>2, IdleCommand DEF Counted, Past
    <3> QED  BY <3>1, <3>2, <3>3
  <2> QED  BY <1>1, <2>2, <2>3 DEF CountInv
<1> QED  BY <1>2, <1>3 DEF Next

LEMMA CountStarts == Init => CountInv
<1> SUFFICES ASSUME Init PROVE CountInv
  OBVIOUS
<1>1. Counted(Idle)
  BY IdleCommand DEF Counted, Past
<1> QED  BY <1>1, LimitsAssumption DEF Init, CountInv

\* What every command counted still leaves it its place, until it writes.
THEOREM CountsStayTrue == Spec => []CountInv
BY CountStarts, CountStep, LocksKeepWhatWasSeen, PTL DEF Spec

\* The reservations that are valid by now.
ValidNow == {i \in DOMAIN invitations : Valid(i, clock)}

LEMMA UsedIs == Used = Cardinality(Active) + Cardinality(ValidNow)
BY DEF Used, Active, ValidNow

\* Nothing is used anew where no place was added and nothing became valid.
LEMMA NothingUsed ==
  ASSUME Shapes, Active' \subseteq Active, ValidNow' \subseteq ValidNow
  PROVE  ~(Used' > Used)
<1>1. IsFiniteSet(ValidNow) /\ IsFiniteSet(Active)
  BY FiniteCounts, FS_Subset DEF ValidNow
<1>2. /\ Cardinality(ValidNow) \in Nat /\ Cardinality(ValidNow') \in Nat
      /\ Cardinality(ValidNow') <= Cardinality(ValidNow)
      /\ Cardinality(Active) \in Nat /\ Cardinality(Active') \in Nat
      /\ Cardinality(Active') <= Cardinality(Active)
  BY <1>1, NoMore
<1>3. Used' = Cardinality(Active') + Cardinality(ValidNow')
  BY UsedIs DEF Used, Active, ValidNow
<1> HIDE DEF Active, ValidNow, Used
<1> QED  BY <1>2, <1>3, UsedIs

\* A consumer writes within the limit of its count.
LEMMA ConsumersStayWithin ==
  ASSUME IInv, IInv', CountInv, NEW t \in Slots, Consumes(t), Used' > Used
  PROVE  /\ cmd[t] # Idle /\ cmd'[t] = Idle
         /\ Within(Used' - Cardinality({i \in cmd[t].lapsed : Valid(i, clock)'}), cmd[t].cap)
<1> DEFINE c == cmd[t]
           L == c.lapsed
           V == {i \in L : Valid(i, clock)'}
<1>1. /\ Past(c) /\ Set(t, Idle) /\ clock' = clock /\ c # Idle
      /\ DOMAIN invitations \subseteq DOMAIN invitations' /\ TakesOne(c)
  BY ConsumersTakeOne
<1>2. /\ c.cap \in Int /\ L \subseteq DOMAIN invitations
      /\ Within(Cardinality(Active) + Cardinality(Claims(c)) + 1, c.cap)
  BY <1>1 DEF CountInv, Counted
<1>3. cmd'[t] = Idle
  BY <1>1 DEF Set, IInv, Shapes
<1>4. IsFiniteSet(Active) /\ IsFiniteSet(Reserved) /\ IsFiniteSet(Active') /\ IsFiniteSet(Reserved')
  <2>1. IsFiniteSet(Active) /\ IsFiniteSet(Reserved)
    BY FiniteCounts DEF IInv
  <2>2. IsFiniteSet(Active')
    BY UsersAssumption, FS_Subset DEF Active
  <2>3. IsFiniteSet(DOMAIN invitations')
    <3>1. invitations' \in Seq(Invitations)
      BY DEF IInv, Shapes, Invited
    <3>2. Len(invitations') \in Nat /\ DOMAIN invitations' = 1..Len(invitations')
      BY <3>1
    <3> QED  BY <3>2, FS_Interval
  <2> QED  BY <2>1, <2>2, <2>3, FS_Subset DEF Reserved
<1>5. Used' = Cardinality(Active') + Cardinality(ValidNow')
  BY DEF Used, Active, ValidNow
<1>6. ValidNow' \subseteq Reserved' /\ V = ValidNow' \cap L
  BY <1>1, <1>2 DEF ValidNow, Reserved, Valid
<1>7. /\ Cardinality(ValidNow') \in Nat /\ Cardinality(V) \in Nat /\ Cardinality(Reserved' \ L) \in Nat
      /\ Cardinality(ValidNow') - Cardinality(V) <= Cardinality(Reserved' \ L)
  <2>1. IsFiniteSet(ValidNow') /\ IsFiniteSet(V) /\ IsFiniteSet(Reserved' \ L)
    BY <1>4, <1>6, FS_Subset
  <2> QED  BY <1>4, <1>6, <2>1, WithoutLapsed, FS_CardinalityType
<1>8. CASE UNCHANGED <<status, invitations>>
  <2>1. Active' \subseteq Active /\ ValidNow' \subseteq ValidNow
    BY <1>1, <1>8 DEF Active, ValidNow, Valid
  <2> QED  BY <2>1, NothingUsed DEF IInv
<1>9. IsFiniteSet(Claims(c))
  BY <1>4, FS_Subset DEF Claims
<1>10. CASE (\E u : Active' \subseteq Active \cup {u}) /\ Reserved' \subseteq Reserved \ Held(c)
  <2>1. Reserved' \ L \subseteq Claims(c)
    BY <1>10 DEF Claims
  <2>2. /\ Cardinality(Reserved' \ L) <= Cardinality(Claims(c)) /\ Cardinality(Claims(c)) \in Nat
        /\ Cardinality(Active') \in Nat /\ Cardinality(Active') <= Cardinality(Active) + 1
        /\ Cardinality(Active) \in Nat
    BY <1>4, <1>9, <1>10, <2>1, NoMore, OneMore
  <2> HIDE DEF c, L, V
  <2>3. Within(Used' - Cardinality(V), c.cap)
    BY <1>2, <1>5, <1>7, <2>2 DEF Within
  <2> QED  BY <1>1, <1>3, <2>3 DEF c, L, V
<1>11. CASE Active' \subseteq Active /\ \E i : Reserved' \subseteq (Reserved \ Held(c)) \cup {i}
  <2>1. PICK i : Reserved' \ L \subseteq Claims(c) \cup {i}
    BY <1>11 DEF Claims
  <2>2. /\ Cardinality(Reserved' \ L) <= Cardinality(Claims(c)) + 1 /\ Cardinality(Claims(c)) \in Nat
        /\ Cardinality(Active') \in Nat /\ Cardinality(Active') <= Cardinality(Active)
        /\ Cardinality(Active) \in Nat
    BY <1>4, <1>9, <1>11, <2>1, NoMore, OneMore
  <2> HIDE DEF c, L, V
  <2>3. Within(Used' - Cardinality(V), c.cap)
    BY <1>2, <1>5, <1>7, <2>2 DEF Within
  <2> QED  BY <1>1, <1>3, <2>3 DEF c, L, V
<1> QED  BY <1>1, <1>8, <1>10, <1>11 DEF TakesOne

\* Whoever else raises the usage resends an invitation that had run out.
LEMMA OthersUseNothing ==
  ASSUME IInv, NEW t \in Slots, Send(t) \/ Step(t), ~Consumes(t), Used' > Used
  PROVE  /\ cmd[t] # Idle /\ cmd'[t] = Idle
         /\ cmd[t].kind = "resend" /\ Expired(cmd[t].inv, clock)
<1>1. NoneAdded /\ clock' = clock
  BY OthersAddNone
<1>2. PICK i : i \in ValidNow' /\ i \notin ValidNow
  BY <1>1, NothingUsed DEF NoneAdded, IInv
<1>3. i \in DOMAIN invitations /\ invitations[i].status = "pending" /\ ~(invitations[i].expires > clock)
  BY <1>1, <1>2 DEF NoneAdded, ValidNow, Valid, Reserved
<1>4. invitations'[i].status = "pending" /\ invitations'[i] # invitations[i]
  BY <1>1, <1>2 DEF ValidNow, Valid, NoneAdded, Reserved
<1>5. ~(invitations'[i] = invitations[i] \/ invitations'[i].status # "pending")
  BY <1>4
<1>6. Resend(t)
  <2>1. CASE Refuse(t)
    <3> DEFINE j == cmd[t].inv
               e == [invitations[j] EXCEPT !.status = "expired"]
    <3>1. invitations' = invitations \/ invitations' = [invitations EXCEPT ![j] = e]
      BY <2>1 DEF Refuse
    <3>2. j = i => e.status = "expired"
      BY <1>3, InvitationAt DEF Invitations, IInv, Shapes
    <3> HIDE DEF j, e
    <3> QED  BY <1>3, <1>5, <3>1, <3>2 DEF IInv, Shapes, Invited
  <2>2. CASE List(t) \/ Cancel(t)
    <3>1. PICK s \in {"expired", "cancelled"} : invitations' = Marked(cmd[t], s)
      BY <2>2 DEF List, Cancel
    <3>2. invitations'[i] = invitations[i] \/ invitations'[i] = [invitations[i] EXCEPT !.status = s]
      BY <1>3, <3>1 DEF Marked
    <3> QED  BY <1>3, <1>5, <3>2, InvitationAt DEF Invitations, IInv, Shapes
  <2>3. CASE Send(t)
    BY <1>5, <2>3, NewCommands DEF Ask, IInv
  <2> QED  BY <1>5, <2>1, <2>2, <2>3 DEF Step, Consumes, Proceed, Remove, Suspend, SetRoles, Victim
<1>7. /\ cmd[t].kind = "resend" /\ Set(t, Idle)
      /\ i = cmd[t].inv
  BY <1>3, <1>4, <1>6, ResendKeeps DEF Resend, Writes, IInv, Shapes
<1>8. Expired(cmd[t].inv, clock)
  <2>1. invitations[i].expires \in Nat /\ clock \in Nat
    BY <1>3, InvitationAt DEF Invitations, IInv, Shapes, Invited
  <2> QED  BY <1>3, <1>7, <2>1 DEF Expired
<1> QED  BY <1>7, <1>8, IdleCommand DEF Set, IInv, Shapes

\* Members and valid reservations never pass the limit a command counted them
\* against, for any number of consumers at once, but for the invitations that had
\* run out and that a resend extends (LimitHolds; assertCanConsume and the recount
\* of an acceptance).
THEOREM LimitIsKept == Spec => LimitHolds
<1> DEFINE Kept == Used' > Used => \E t \in Slots :
       /\ cmd[t] # Idle /\ cmd'[t] = Idle
       /\ \/ Within(Used' - Cardinality({i \in cmd[t].lapsed : Valid(i, clock)'}), cmd[t].cap)
          \/ cmd[t].kind = "resend" /\ Expired(cmd[t].inv, clock)
<1>1. ASSUME IInv, IInv', CountInv, [Next]_vars PROVE Kept
  <2> SUFFICES ASSUME Used' > Used PROVE Kept
    OBVIOUS
  <2>1. CASE Tick \/ ChangePlan \/ UNCHANGED vars
    <3>1. UNCHANGED <<status, invitations>> /\ clock' \in Nat /\ clock \in Nat /\ clock' >= clock
      BY <1>1, <2>1 DEF Tick, ChangePlan, vars, IInv, Shapes, Invited
    <3>2. \A i \in DOMAIN invitations : invitations[i].expires \in Nat
      BY <1>1, InvitationAt DEF IInv, Shapes, Invitations
    <3>3. Active' \subseteq Active /\ ValidNow' \subseteq ValidNow
      BY <3>1, <3>2 DEF Active, ValidNow, Valid
    <3> QED  BY <1>1, <3>3, NothingUsed DEF IInv
  <2>2. ASSUME NEW t \in Slots, Send(t) \/ Step(t) PROVE Kept
    <3>1. CASE Consumes(t)
      BY <1>1, <3>1, ConsumersStayWithin
    <3>2. CASE ~Consumes(t)
      BY <1>1, <2>2, <3>2, OthersUseNothing
    <3> QED  BY <3>1, <3>2
  <2> QED  BY <1>1, <2>1, <2>2 DEF Next
<1>2. IInv /\ IInv' /\ CountInv /\ [Next]_vars => [Kept]_vars
  BY <1>1
<1> QED  BY <1>2, LocksKeepWhatWasSeen, CountsStayTrue, PTL DEF Spec, LimitHolds
=============================================================================
