------------------------ MODULE LoginSessionsProofs ------------------------
(***************************************************************************)
(* What holds of the sessions and their tokens for every number of         *)
(* browsers, tabs, sessions, tokens, faults and endings (LoginSessions).   *)
(* Two arguments.  What a request knows of the rows it has locked still    *)
(* holds when it commits (Standing): tokens and sessions agree, and        *)
(* answers are true.  And the cookie of a session nobody has a reason to   *)
(* end is its one token that may still be traded, or the one that a single *)
(* refresh of its browser has traded and brings the successor of (Kept):   *)
(* so only a token that was lost, displaced, sent twice or revoked comes   *)
(* back.                                                                   *)
(***************************************************************************)
EXTENDS LoginSessions, WellFoundedInduction, TLAPS

SessionStates == {"active", "expired", "revoked"}
Tokens == [of : Nat, state : {"issued", "consumed", "revoked"}]
Rows == {"session", "token"} \X Nat
Maybe == Nat \cup {None}

Jobs == [kind : {"none", "refresh", "one", "all"},
         pc : {"idle", "select", "join", "sessions", "tokens", "done"},
         token : Maybe, scope : SUBSET Nat, aim : SUBSET Nat, todo : SUBSET Nat,
         held : SUBSET Rows, answer : {None, "rotated", "reuse", "revoked", "failed"}, next : Maybe]

Places == [at : {"in", "out", "asking", "waiting"}, of : Maybe]

Tables(S, C, T) ==
  /\ S \in Seq(SessionStates)
  /\ C \in Seq(Nat) /\ Len(C) = Len(S)
  /\ T \in Seq(Tokens)
  /\ \A t \in DOMAIN T : T[t].of \in DOMAIN S

Shapes ==
  /\ Tables(session, current, token)
  /\ job \in [Slots -> Jobs]
  /\ cookie \in [Browsers -> Maybe]
  /\ page \in [Pages -> Places]

\* A request in the path of a refresh.
RefreshStands(q, S, T) ==
  /\ q.pc \in {"select", "join"} => q.kind = "refresh"
  /\ q.pc = "idle" <=> q.kind = "none"
  /\ q.kind = "refresh" => q.token \in DOMAIN T
  /\ q.pc # "done" => q.answer = None
  /\ q.pc = "done" /\ q.kind = "refresh" => q.answer \in {"rotated", "reuse", "failed"}
  /\ q.answer = "rotated" => /\ q.kind = "refresh"
                             /\ T[q.token].state # "issued"
                             /\ q.next \in DOMAIN T /\ T[q.next].of = T[q.token].of
  /\ q.answer = "reuse" => q.kind = "refresh" /\ S[T[q.token].of] = "revoked"

\* A request in the path of a revocation, which reaches only sessions with a
\* cause (K): what it set out to end is over, to be locked or locked, and
\* the tokens of a session it has locked are to be locked or locked.
RevocationStands(q, S, T, K) ==
  /\ q.scope \subseteq DOMAIN S /\ q.aim \subseteq DOMAIN S
  /\ q.pc \in {"sessions", "tokens"} =>
       /\ q.pc = "sessions" \/ q.kind # "all" => q.scope \subseteq K
       /\ q.kind = "refresh" => T[q.token].of \in q.aim \/ S[T[q.token].of] = "revoked"
       /\ \A s \in q.aim : S[s] = "revoked" \/ <<"session", s>> \in q.held \/ (q.pc = "sessions" /\ s \in q.todo)
       /\ \A s \in Nat : <<"session", s>> \in q.held => s \in q.scope
  /\ q.pc = "sessions" => q.todo \subseteq q.scope /\ \A t \in Nat : <<"token", t>> \notin q.held
  /\ q.pc = "tokens" =>
       /\ q.todo \subseteq DOMAIN T
       /\ \A t \in q.todo : T[t].of \in q.scope
       /\ \A t \in Nat : <<"token", t>> \in q.held => t \in DOMAIN T /\ T[t].of \in q.scope
       /\ \A t \in DOMAIN T : T[t].state = "issued" /\ <<"session", T[t].of>> \in q.held
                                => t \in q.todo \/ <<"token", t>> \in q.held
  /\ q.answer \in {"reuse", "revoked"} => \A s \in q.aim : S[s] = "revoked"

Standing(q, S, T, K) == RefreshStands(q, S, T) /\ RevocationStands(q, S, T, K)

\* A page's job and a job left behind are refreshes, the others are not.
Asking == Pages \X {"page", "left"}

KindsFit ==
  \A j \in Slots : IF j \in Asking THEN job[j].kind \in {"none", "refresh"} ELSE job[j].kind # "refresh"

OneTrade ==
  \A j, k \in Slots : j # k /\ job[j].answer = "rotated" /\ job[k].answer = "rotated" => job[j].token # job[k].token

Served ==
  /\ KindsFit /\ OneTrade
  /\ \A j \in Slots : Standing(job[j], session, token, cause)

\* A cookie whose session has no cause is the token to trade, or a refresh of
\* its browser has traded it.
CookieKept(b) ==
  cookie[b] # None =>
    /\ cookie[b] \in DOMAIN token
    /\ \/ token[cookie[b]].of \in cause
       \/ token[cookie[b]].state = "issued"
       \/ \E j \in Refreshes(b) : job[j].answer = "rotated" /\ job[j].token = cookie[b]

\* A refresh of a session without a cause was sent the cookie, it alone, and
\* brings the token to trade next.
RefreshesKept(b) ==
  \A j \in Refreshes(b) : Spends(job[j]) /\ token[job[j].token].of \notin cause =>
    /\ cookie[b] = job[j].token
    /\ job[j].answer = "rotated" => token[job[j].next].state = "issued"
    /\ \A i \in Refreshes(b) : i # j /\ Spends(job[i]) => job[i].token # job[j].token

\* A page's session has a cause or is the cookie's.
PageKept(p) ==
  /\ page[p].at = "in" => page[p].of # None
  /\ page[p].at = "asking" <=> job[Page(p)].pc # "idle"
  /\ page[p].of # None => page[p].of \in DOMAIN session
  /\ page[p].of # None /\ page[p].of \notin cause =>
       /\ page[p].at # "out"
       /\ cookie[Home(p)] # None /\ token[cookie[Home(p)]].of = page[p].of

\* Two browsers have no session in common.
Apart ==
  \A b, c \in Browsers :
    b # c /\ cookie[b] # None /\ cookie[c] # None /\ token[cookie[b]].of = token[cookie[c]].of => token[cookie[b]].of \in cause

Quiet == \A s \in DOMAIN session : s \notin cause => session[s] = "active"

Kept(b) == CookieKept(b) /\ RefreshesKept(b)

Minded ==
  /\ Quiet /\ Apart
  /\ \A b \in Browsers : Kept(b)
  /\ \A p \in Pages : PageKept(p)

IInv == Shapes /\ Served /\ LineageAgrees /\ Minded

\* A table that has moved on: nothing revoked returns, a token keeps its session
\* and is never issued again, and a cause stays.
Grown(S, T, K, S2, T2, K2) ==
  /\ DOMAIN S \subseteq DOMAIN S2
  /\ \A s \in DOMAIN S : S[s] = "revoked" => S2[s] = "revoked"
  /\ DOMAIN T \subseteq DOMAIN T2
  /\ \A t \in DOMAIN T : T2[t].of = T[t].of /\ (T2[t].state = "issued" => T[t].state = "issued")
  /\ K \subseteq K2

\* No token was issued of a session that q has locked to end it.
Unissued(q, T, T2) == q.pc = "tokens" => \A t \in DOMAIN T2 \ DOMAIN T : <<"session", T2[t].of>> \notin q.held

\* No token of the session of a browser's cookie changed, unless for a cause.
Undisturbed(b) ==
  \A t \in DOMAIN token :
    cookie[b] # None /\ token[t].of = token[cookie[b]].of => token[t].of \in cause' \/ token'[t].state = token[t].state

\* A refresh that went on with its token, and traded it neither now nor undid that.
Like(q, r) ==
  /\ r.pc = "idle" <=> q.pc = "idle"
  /\ r.token = q.token
  /\ r.answer = "rotated" <=> q.answer = "rotated"
  /\ q.answer = "rotated" => r.next = q.next
  /\ Spends(r) => Spends(q)

-----------------------------------------------------------------------------
(* What a request and a browser know survives the steps of the others *)

LEMMA StandsOn ==
  ASSUME NEW q \in Jobs, NEW S, NEW T, NEW K, NEW S2, NEW T2, NEW K2,
         \A t \in DOMAIN T : T[t].of \in DOMAIN S,
         Standing(q, S, T, K), Grown(S, T, K, S2, T2, K2), Unissued(q, T, T2)
  PROVE  Standing(q, S2, T2, K2)
<1>1. RefreshStands(q, S2, T2)
  BY DEF Standing, RefreshStands, Grown
<1>2. q.scope \subseteq DOMAIN S2 /\ q.aim \subseteq DOMAIN S2
  BY DEF Standing, RevocationStands, Grown
<1>3. q.aim \subseteq DOMAIN S
  BY DEF Standing, RevocationStands
<1> QED  BY <1>1, <1>2, <1>3 DEF Standing, RevocationStands, RefreshStands, Grown, Unissued, Jobs

\* A refresh under way or answered has its token, and the successor of one that
\* was traded is of the same session.
Refreshing(q, T) ==
  /\ q.pc # "idle" => q.token \in DOMAIN T
  /\ q.answer = "rotated" => q.pc # "idle" /\ q.next \in DOMAIN T /\ T[q.next].of = T[q.token].of

LEMMA IsRefreshing ==
  ASSUME NEW q \in Jobs, NEW S, NEW T, NEW K, Standing(q, S, T, K), q.kind \in {"none", "refresh"}
  PROVE  Refreshing(q, T)
BY NoneAssumption DEF Refreshing, Standing, RefreshStands

\* Whose slot is whose.
LEMMA SlotsAre ==
  /\ <<None, "reset">> \in Slots /\ <<None, "reset">> \notin Asking /\ Asking \subseteq Slots
  /\ \A b \in Browsers : Refreshes(b) \subseteq Asking
  /\ \A j \in Asking : \E b \in Browsers : j \in Refreshes(b)
  /\ \A b, c \in Browsers : b # c => Refreshes(b) \cap Refreshes(c) = {}
  /\ \A p \in Pages : /\ Home(p) \in Browsers /\ Page(p) \in Refreshes(Home(p)) /\ Left(p) \in Refreshes(Home(p))
                      /\ Out(p) \in Slots /\ Out(p) \notin Asking
  /\ \A p, q \in Pages : Page(p) # Left(q) /\ (p # q => Page(p) # Page(q))
<1>1. <<None, "reset">> \in Slots /\ <<None, "reset">> \notin Asking /\ Asking \subseteq Slots
  BY DEF Slots, Asking
<1>2. \A b \in Browsers : \A j : j \in Refreshes(b) <=> j \in Asking /\ Home(j[1]) = b
  BY DEF Refreshes, Asking
<1>3. \A p \in Pages : Home(p) \in Browsers
  BY DEF Pages, Home
<1>4. \A j \in Asking : j[1] \in Pages
  BY DEF Asking
<1>5. \A p \in Pages : /\ Page(p) \in Asking /\ Page(p)[1] = p /\ Left(p) \in Asking /\ Left(p)[1] = p
                      /\ Out(p) \in Slots /\ Out(p) \notin Asking
  BY DEF Asking, Slots, Page, Left, Out
<1>6. \A p, q \in Pages : Page(p) # Left(q) /\ (p # q => Page(p) # Page(q))
  BY DEF Page, Left
<1> QED  BY <1>1, <1>2, <1>3, <1>4, <1>5, <1>6

LEMMA Now ==
  ASSUME IInv, NEW j \in Slots
  PROVE  /\ job[j] \in Jobs /\ Standing(job[j], session, token, cause)
         /\ Tables(session, current, token)
         /\ session \in Seq(SessionStates) /\ token \in Seq(Tokens)
         /\ \A t \in DOMAIN token : token[t].of \in DOMAIN session
BY DEF IInv, Shapes, Served, Tables

LEMMA TokensAre ==
  ASSUME IInv, NEW t \in DOMAIN token
  PROVE  t \in Nat /\ token[t] \in Tokens /\ token[t].of \in Nat /\ token[t].of \in DOMAIN session
<1>1. t \in Nat /\ token[t] \in Tokens /\ token[t].of \in DOMAIN session
  BY DEF IInv, Shapes, Tables
<1> QED  BY <1>1 DEF Tokens

LEMMA LeastIsOne ==
  ASSUME NEW X \in SUBSET Nat, X # {}
  PROVE  Min(X) \in X
<1>1. PICK x \in X : \A y \in X : ~(<<y, x>> \in OpToRel(<, Nat))
  BY WFMin, NatLessThanWellFounded
<1>2. \A y \in X : ~(y < x)
  BY <1>1 DEF OpToRel
<1>3. \A y \in X : x <= y
  BY <1>2
<1> QED  BY <1>3 DEF Min

-----------------------------------------------------------------------------
(* Steps that leave the tables alone *)

TablesStand == UNCHANGED <<session, current, token>> /\ cause \subseteq cause'

LEMMA StillStanding ==
  ASSUME IInv, TablesStand, NEW k \in Slots
  PROVE  Standing(job[k], session', token', cause') /\ job[k] \in Jobs
<1>1. job[k] \in Jobs /\ Standing(job[k], session, token, cause) /\ \A t \in DOMAIN token : token[t].of \in DOMAIN session
  BY DEF IInv, Shapes, Served, Tables
<1>2. Grown(session, token, cause, session', token', cause') /\ Unissued(job[k], token, token')
  BY DEF TablesStand, Grown, Unissued
<1> QED  BY <1>1, <1>2, StandsOn

\* A refresh of a browser.
LEMMA RefreshIs ==
  ASSUME IInv, NEW b \in Browsers, NEW j \in Refreshes(b)
  PROVE  /\ j \in Slots /\ job[j] \in Jobs /\ Refreshing(job[j], token)
         /\ job[j].pc # "idle" => job[j].token \in DOMAIN token /\ job[j].token # None
         /\ job[j].answer = "rotated" => Spends(job[j])
<1>1. j \in Slots /\ j \in Asking
  BY SlotsAre
<1>2. job[j] \in Jobs /\ Standing(job[j], session, token, cause) /\ job[j].kind \in {"none", "refresh"}
  BY <1>1 DEF IInv, Shapes, Served, KindsFit
<1>3. Refreshing(job[j], token)
  BY <1>2, IsRefreshing
<1>4. \A t \in DOMAIN token : t # None
  BY NoneAssumption DEF IInv, Shapes, Tables
<1> QED  BY <1>1, <1>2, <1>3, <1>4 DEF Refreshing, Spends

LEMMA KeptOn ==
  ASSUME IInv, NEW b \in Browsers, cookie'[b] = cookie[b],
         \A j \in Refreshes(b) : Like(job[j], job'[j]),
         Grown(session, token, cause, session', token', cause'), Undisturbed(b)
  PROVE  Kept(b)'
<1>1. CookieKept(b) /\ RefreshesKept(b)
  BY DEF IInv, Minded, Kept
<1>2. CookieKept(b)'
  <2> SUFFICES ASSUME cookie[b] # None
               PROVE  /\ cookie[b] \in DOMAIN token'
                      /\ \/ token'[cookie[b]].of \in cause'
                         \/ token'[cookie[b]].state = "issued"
                         \/ \E j \in Refreshes(b) : job'[j].answer = "rotated" /\ job'[j].token = cookie[b]
    BY DEF CookieKept, Refreshes
  <2>1. cookie[b] \in DOMAIN token /\ token'[cookie[b]].of = token[cookie[b]].of /\ cookie[b] \in DOMAIN token'
    BY <1>1 DEF CookieKept, Grown
  <2>2. CASE \E j \in Refreshes(b) : job[j].answer = "rotated" /\ job[j].token = cookie[b]
    BY <2>1, <2>2 DEF Like
  <2>3. CASE token[cookie[b]].of \in cause \/ token[cookie[b]].state = "issued"
    BY <2>1, <2>3 DEF Undisturbed, Grown
  <2> QED  BY <1>1, <2>2, <2>3 DEF CookieKept
<1>3. RefreshesKept(b)'
  <2> SUFFICES ASSUME NEW j \in Refreshes(b), Spends(job'[j]), token'[job'[j].token].of \notin cause'
               PROVE  /\ cookie[b] = job'[j].token
                      /\ job'[j].answer = "rotated" => token'[job'[j].next].state = "issued"
                      /\ \A i \in Refreshes(b) : i # j /\ Spends(job'[i]) => job'[i].token # job'[j].token
    BY DEF RefreshesKept, Refreshes, Spends
  <2>1. Like(job[j], job'[j]) /\ Spends(job[j]) /\ job'[j].token = job[j].token
    BY DEF Like
  <2>2. job[j].token \in DOMAIN token /\ job[j].token # None
    BY <2>1, RefreshIs DEF Spends
  <2>3. token[job[j].token].of \notin cause /\ token'[job[j].token].of = token[job[j].token].of
    BY <2>1, <2>2 DEF Grown
  <2>4. /\ cookie[b] = job[j].token
        /\ job[j].answer = "rotated" => token[job[j].next].state = "issued"
        /\ \A i \in Refreshes(b) : i # j /\ Spends(job[i]) => job[i].token # job[j].token
    BY <1>1, <2>1, <2>3 DEF RefreshesKept
  <2>5. ASSUME job[j].answer = "rotated"
        PROVE  token'[job[j].next].state = "issued"
    <3>1. job[j].next \in DOMAIN token /\ token[job[j].next].of = token[job[j].token].of
      BY <2>5, RefreshIs DEF Refreshing
    <3> QED  BY <2>1, <2>2, <2>3, <2>4, <2>5, <3>1 DEF Undisturbed
  <2> QED  BY <2>1, <2>4, <2>5 DEF Like
<1> QED  BY <1>2, <1>3 DEF Kept

LEMMA CookieIs ==
  ASSUME IInv, NEW b \in Browsers
  PROVE  /\ cookie[b] \in Maybe
         /\ cookie[b] # None => cookie[b] \in DOMAIN token /\ token[cookie[b]].of \in DOMAIN session
BY TokensAre DEF IInv, Shapes, Minded, Kept, CookieKept

LEMMA PageKeptOn ==
  ASSUME IInv, NEW p \in Pages, cookie'[Home(p)] = cookie[Home(p)], page'[p] = page[p],
         job'[Page(p)].pc = "idle" <=> job[Page(p)].pc = "idle",
         Grown(session, token, cause, session', token', cause')
  PROVE  PageKept(p)'
<1>1. PageKept(p) /\ Home(p) \in Browsers
  BY SlotsAre DEF IInv, Minded
<1>2. cookie[Home(p)] # None => cookie[Home(p)] \in DOMAIN token
  BY <1>1, CookieIs
<1> QED  BY <1>1, <1>2 DEF PageKept, Grown, Page, Home

LEMMA ApartOn ==
  ASSUME IInv, UNCHANGED cookie, Grown(session, token, cause, session', token', cause')
  PROVE  Apart'
<1>1. \A b \in Browsers : cookie[b] # None => cookie[b] \in DOMAIN token /\ token'[cookie[b]].of = token[cookie[b]].of
  BY CookieIs DEF Grown
<1> QED  BY <1>1 DEF IInv, Minded, Apart, Grown

\* A job that is no refresh, or went on as it was.
LEMMA StandsStill ==
  ASSUME IInv, TablesStand, UNCHANGED <<cookie, page>>,
         job' \in [Slots -> Jobs], KindsFit', OneTrade',
         \A k \in Slots : Standing(job'[k], session, token, cause'),
         \A k \in Asking : Like(job[k], job'[k])
  PROVE  IInv'
<1>1. Shapes' /\ LineageAgrees'
  BY DEF IInv, Shapes, TablesStand, LineageAgrees, Live
<1>2. Served'
  BY DEF Served, TablesStand
<1>3. Grown(session, token, cause, session', token', cause') /\ \A b \in Browsers : Undisturbed(b)
  BY DEF TablesStand, Grown, Undisturbed
<1>4. \A b \in Browsers : Kept(b)'
  BY <1>3, KeptOn, SlotsAre
<1>5. \A p \in Pages : PageKept(p)'
  <2> SUFFICES ASSUME NEW p \in Pages
               PROVE  PageKept(p)'
    OBVIOUS
  <2>1. Page(p) \in Asking
    BY SlotsAre
  <2> QED  BY <1>3, <2>1, PageKeptOn DEF Like
<1>6. Quiet'
  BY DEF IInv, Minded, Quiet, TablesStand
<1> QED  BY <1>1, <1>2, <1>3, <1>4, <1>5, <1>6, ApartOn DEF IInv, Minded

\* One job.
LEMMA OneJob ==
  ASSUME IInv, TablesStand, NEW j \in Slots, NEW q \in Jobs, job' = [job EXCEPT ![j] = q],
         IF j \in Asking THEN q.kind \in {"none", "refresh"} ELSE q.kind # "refresh",
         q.answer # "rotated", Standing(q, session, token, cause')
  PROVE  /\ job' \in [Slots -> Jobs] /\ KindsFit' /\ OneTrade'
         /\ \A k \in Slots : job'[k] = IF k = j THEN q ELSE job[k]
         /\ \A k \in Slots : Standing(job'[k], session, token, cause')
<1>1. job' \in [Slots -> Jobs] /\ \A k \in Slots : job'[k] = IF k = j THEN q ELSE job[k]
  BY DEF IInv, Shapes
<1>2. KindsFit'
  BY <1>1 DEF IInv, Served, KindsFit
<1>3. OneTrade'
  BY <1>1 DEF IInv, Served, OneTrade
<1>4. \A k \in Slots : Standing(job'[k], session, token, cause')
  BY <1>1, StillStanding DEF TablesStand
<1> QED  BY <1>1, <1>2, <1>3, <1>4

\* A job that is no refresh.
LEMMA Aside ==
  ASSUME IInv, TablesStand, NEW j \in Slots \ Asking, NEW q \in Jobs,
         job' = [job EXCEPT ![j] = q], UNCHANGED <<cookie, page>>,
         q.kind # "refresh", q.answer # "rotated", Standing(q, session, token, cause')
  PROVE  IInv'
<1>1. /\ job' \in [Slots -> Jobs] /\ KindsFit' /\ OneTrade'
      /\ \A k \in Slots : job'[k] = IF k = j THEN q ELSE job[k]
      /\ \A k \in Slots : Standing(job'[k], session, token, cause')
  BY OneJob
<1>2. \A k \in Asking : Like(job[k], job'[k])
  BY <1>1, SlotsAre DEF Like
<1> QED  BY <1>1, <1>2, StandsStill

\* A job that goes on, traded nothing and keeps its kind and its token.
LEMMA Advance ==
  ASSUME IInv, UNCHANGED <<session, current, token, cookie, page, cause>>, NEW j \in Slots, NEW q \in Jobs,
         job' = [job EXCEPT ![j] = q],
         q.kind = job[j].kind, q.token = job[j].token, q.pc # "idle", job[j].pc # "idle",
         q.answer # "rotated", job[j].answer = None,
         Standing(q, session, token, cause)
  PROVE  IInv'
<1>1. TablesStand /\ cause' = cause
  BY DEF TablesStand
<1>2. IF j \in Asking THEN q.kind \in {"none", "refresh"} ELSE q.kind # "refresh"
  BY DEF IInv, Served, KindsFit
<1>3. /\ job' \in [Slots -> Jobs] /\ KindsFit' /\ OneTrade'
      /\ \A k \in Slots : job'[k] = IF k = j THEN q ELSE job[k]
      /\ \A k \in Slots : Standing(job'[k], session, token, cause')
  BY <1>1, <1>2, OneJob
<1>4. Like(job[j], q)
  BY NoneAssumption DEF Like, Spends
<1>5. \A k \in Asking : Like(job[k], job'[k])
  BY <1>3, <1>4, SlotsAre DEF Like
<1> QED  BY <1>1, <1>3, <1>5, StandsStill

-----------------------------------------------------------------------------
(* The steps of a transaction *)

LEMMA EndedIs ==
  ASSUME NEW j \in Slots, job[j] \in Jobs, NEW a \in {"rotated", "reuse", "revoked", "failed"}
  PROVE  /\ Ended(j, a) \in Jobs
         /\ Ended(j, a).pc = "done" /\ Ended(j, a).answer = a
         /\ Ended(j, a).kind = job[j].kind /\ Ended(j, a).token = job[j].token
         /\ Ended(j, a).scope = job[j].scope /\ Ended(j, a).aim = job[j].aim
BY DEF Ended, Jobs

LEMMA TakeTokenStep ==
  ASSUME IInv, NEW j \in Slots, TakeToken(j)
  PROVE  IInv'
<1> DEFINE q == [job[j] EXCEPT !.pc = "join", !.held = {Wanted(j)}]
<1>1. job[j] \in Jobs /\ Standing(job[j], session, token, cause) /\ job[j].pc = "select"
  BY Now DEF TakeToken
<1>2. job[j].token \in Nat /\ Wanted(j) \in Rows
  BY <1>1, Now DEF Wanted, Standing, RefreshStands, Rows
<1>3. /\ q \in Jobs /\ q.pc = "join" /\ q.kind = job[j].kind /\ q.token = job[j].token /\ q.answer = job[j].answer
      /\ q.scope = job[j].scope /\ q.aim = job[j].aim
  BY <1>1, <1>2 DEF Jobs
<1>4. job' = [job EXCEPT ![j] = q] /\ UNCHANGED <<session, current, token, cookie, page, cause>>
  BY DEF TakeToken, Set
<1> HIDE DEF q
<1>5. Standing(q, session, token, cause)
  BY <1>1, <1>3, NoneAssumption DEF Standing, RefreshStands, RevocationStands
<1>6. q.answer # "rotated" /\ job[j].answer = None
  BY <1>1, <1>3, NoneAssumption DEF Standing, RefreshStands
<1> QED  BY <1>1, <1>3, <1>4, <1>5, <1>6, Advance

LEMMA DoneStep ==
  ASSUME IInv, NEW j \in Slots, job[j].pc \in {"select", "join", "sessions", "tokens"},
         Set(j, Ended(j, "failed")), UNCHANGED <<session, current, token, cookie, page, cause>>
  PROVE  IInv'
<1> DEFINE q == Ended(j, "failed")
<1>1. job[j] \in Jobs /\ Standing(job[j], session, token, cause)
  BY Now
<1>2. /\ q \in Jobs /\ q.pc = "done" /\ q.kind = job[j].kind /\ q.token = job[j].token /\ q.answer = "failed"
      /\ q.scope = job[j].scope /\ q.aim = job[j].aim
  BY <1>1 DEF Jobs, Ended
<1>3. job' = [job EXCEPT ![j] = q]
  BY DEF Set
<1> HIDE DEF q
<1>4. Standing(q, session, token, cause)
  BY <1>1, <1>2, NoneAssumption DEF Standing, RefreshStands, RevocationStands
<1>5. q.answer # "rotated" /\ job[j].answer = None
  BY <1>1, <1>2, NoneAssumption DEF Standing, RefreshStands
<1> QED  BY <1>1, <1>2, <1>3, <1>4, <1>5, Advance

LEMMA VictimStep ==
  ASSUME IInv, NEW j \in Slots, Victim(j)
  PROVE  IInv'
<1>1. job[j].pc \in {"select", "join", "sessions", "tokens"}
  BY DEF Victim, Waiting, Wanted
<1> QED  BY <1>1, DoneStep DEF Victim

LEMMA DieStep ==
  ASSUME IInv, NEW j \in Slots, Die(j)
  PROVE  IInv'
<1>1. job[j].pc \in {"select", "join", "sessions", "tokens"}
  BY Now DEF Die, Jobs
<1> QED  BY <1>1, DoneStep DEF Die

LEMMA LockRowStep ==
  ASSUME IInv, NEW j \in Slots, LockRow(j)
  PROVE  IInv'
<1> DEFINE x == Min(job[j].todo)
           h == IF StillMatches(j) THEN job[j].held \cup {Wanted(j)} ELSE job[j].held
           q == [job[j] EXCEPT !.todo = job[j].todo \ {x}, !.held = h]
<1>1. /\ job[j] \in Jobs /\ Standing(job[j], session, token, cause)
      /\ job[j].pc \in {"sessions", "tokens"} /\ job[j].todo # {}
  BY Now DEF LockRow
<1>2. x \in job[j].todo /\ x \in Nat
  BY <1>1, LeastIsOne DEF Jobs
<1>3. Wanted(j) = IF job[j].pc = "sessions" THEN <<"session", x>> ELSE <<"token", x>>
  BY <1>1 DEF Wanted
<1>4. StillMatches(j) <=> IF job[j].pc = "sessions" THEN Live(x) ELSE token[x].state = "issued"
  BY DEF StillMatches
<1>5. job' = [job EXCEPT ![j] = q] /\ UNCHANGED <<session, current, token, cookie, page, cause>>
  BY DEF LockRow, Set
<1> HIDE DEF x
<1>6. h \in SUBSET Rows
  BY <1>1, <1>2, <1>3 DEF Jobs, Rows
<1>7. /\ q \in Jobs /\ q.pc = job[j].pc /\ q.kind = job[j].kind /\ q.token = job[j].token /\ q.answer = job[j].answer
      /\ q.scope = job[j].scope /\ q.aim = job[j].aim /\ q.todo = job[j].todo \ {x} /\ q.held = h
  BY <1>1, <1>6 DEF Jobs
<1>8. \A s \in Nat : \/ <<"session", s>> \in h <=> <<"session", s>> \in job[j].held
                     \/ s = x /\ q.pc = "sessions" /\ Live(x) /\ <<"session", s>> \in h
  BY <1>3, <1>4, <1>7
<1>9. \A t \in Nat : \/ <<"token", t>> \in h <=> <<"token", t>> \in job[j].held
                     \/ t = x /\ q.pc = "tokens" /\ token[x].state = "issued" /\ <<"token", t>> \in h
  BY <1>1, <1>3, <1>4, <1>7
<1>10. job[j].pc = "sessions" => Live(x) \/ session[x] = "revoked"
  BY <1>1, <1>2, Now DEF Standing, RevocationStands, Live, SessionStates
<1>11. /\ job[j].pc = "sessions" /\ Live(x) => <<"session", x>> \in h
       /\ job[j].pc = "tokens" /\ token[x].state = "issued" => <<"token", x>> \in h
       /\ job[j].held \subseteq h
  BY <1>1, <1>3, <1>4
<1> HIDE DEF h, q
<1>12. Standing(q, session, token, cause)
  <2>1. RefreshStands(q, session, token)
    BY <1>1, <1>7, NoneAssumption DEF Standing, RefreshStands
  <2>2. \A s \in q.aim : session[s] = "revoked" \/ <<"session", s>> \in q.held \/ (q.pc = "sessions" /\ s \in q.todo)
    BY <1>1, <1>7, <1>10, <1>11 DEF Standing, RevocationStands
  <2>3. \A s \in Nat : <<"session", s>> \in q.held => s \in q.scope
    BY <1>1, <1>2, <1>7, <1>8 DEF Standing, RevocationStands
  <2>4. \A t \in DOMAIN token : q.pc = "tokens" /\ token[t].state = "issued" /\ <<"session", token[t].of>> \in q.held
                                => t \in q.todo \/ <<"token", t>> \in q.held
    <3>1. \A t \in DOMAIN token : token[t].of \in Nat
      BY Now DEF Tokens
    <3> QED  BY <1>1, <1>7, <1>8, <1>11, <3>1 DEF Standing, RevocationStands
  <2>5. \A t \in Nat : <<"token", t>> \in q.held => q.pc # "sessions" /\ (q.pc = "tokens" => t \in DOMAIN token /\ token[t].of \in q.scope)
    BY <1>1, <1>2, <1>7, <1>9 DEF Standing, RevocationStands
  <2> QED  BY <1>1, <1>7, <2>1, <2>2, <2>3, <2>4, <2>5, NoneAssumption DEF Standing, RefreshStands, RevocationStands
<1>13. q.answer # "rotated" /\ job[j].answer = None
  BY <1>1, <1>7, NoneAssumption DEF Standing, RefreshStands
<1> QED  BY <1>1, <1>5, <1>7, <1>12, <1>13, Advance

LEMMA NextStatementStep ==
  ASSUME IInv, NEW j \in Slots, NextStatement(j)
  PROVE  IInv'
<1> DEFINE r == Reach(j)
           d == {t \in DOMAIN token : token[t].state = "issued" /\ token[t].of \in r}
           q == [job[j] EXCEPT !.pc = "tokens", !.scope = r, !.todo = d]
<1>1. job[j] \in Jobs /\ Standing(job[j], session, token, cause) /\ job[j].pc = "sessions" /\ job[j].todo = {}
  BY Now DEF NextStatement
<1>2. /\ r \subseteq DOMAIN session /\ job[j].scope \subseteq r /\ r \in SUBSET Nat /\ d \in SUBSET Nat
      /\ job[j].kind # "all" => r = job[j].scope
  BY <1>1, Now DEF Reach, Standing, RevocationStands
<1>3. job' = [job EXCEPT ![j] = q] /\ UNCHANGED <<session, current, token, cookie, page, cause>>
  BY DEF NextStatement, Set
<1> HIDE DEF r
<1>4. \A t \in d : t \in DOMAIN token /\ token[t].of \in r
  OBVIOUS
<1>5. \A t \in DOMAIN token : token[t].state = "issued" /\ token[t].of \in r => t \in d
  OBVIOUS
<1> HIDE DEF d
<1>6. /\ q \in Jobs /\ q.pc = "tokens" /\ q.kind = job[j].kind /\ q.token = job[j].token /\ q.answer = job[j].answer
      /\ q.scope = r /\ q.aim = job[j].aim /\ q.todo = d /\ q.held = job[j].held
  BY <1>1, <1>2 DEF Jobs
<1> HIDE DEF q
<1>7. \A t \in DOMAIN token : token[t].of \in Nat
  BY Now DEF Tokens
<1>8. Standing(q, session, token, cause)
  <2>1. RefreshStands(q, session, token)
    BY <1>1, <1>6, NoneAssumption DEF Standing, RefreshStands
  <2>2. /\ q.scope \subseteq DOMAIN session /\ q.aim \subseteq DOMAIN session
        /\ q.kind # "all" => q.scope \subseteq cause
        /\ q.kind = "refresh" => token[q.token].of \in q.aim \/ session[token[q.token].of] = "revoked"
    BY <1>1, <1>2, <1>6 DEF Standing, RevocationStands
  <2>3. /\ \A s \in q.aim : session[s] = "revoked" \/ <<"session", s>> \in q.held
        /\ \A s \in Nat : <<"session", s>> \in q.held => s \in q.scope
        /\ \A t \in Nat : <<"token", t>> \notin q.held
    BY <1>1, <1>2, <1>6 DEF Standing, RevocationStands
  <2>4. /\ q.todo \subseteq DOMAIN token /\ \A t \in q.todo : token[t].of \in q.scope
        /\ \A t \in DOMAIN token : token[t].state = "issued" /\ <<"session", token[t].of>> \in q.held => t \in q.todo
    BY <1>4, <1>5, <1>6, <1>7, <2>3
  <2>5. q.pc = "tokens" /\ q.answer = None
    BY <1>1, <1>6 DEF Standing, RefreshStands
  <2> QED  BY ONLY <2>1, <2>2, <2>3, <2>4, <2>5, NoneAssumption DEF Standing, RevocationStands
<1>9. q.answer # "rotated" /\ job[j].answer = None
  BY <1>1, <1>6, NoneAssumption DEF Standing, RefreshStands
<1> QED  BY <1>1, <1>3, <1>6, <1>8, <1>9, Advance

\* Whose job a refresh is, and that its token comes back only for a cause.
LEMMA RefreshIsOfBrowser ==
  ASSUME IInv, NEW j \in Slots, job[j].kind = "refresh"
  PROVE  \E b \in Browsers : j \in Refreshes(b)
BY SlotsAre DEF IInv, Served, KindsFit

LEMMA RefusedForCause ==
  ASSUME IInv, NEW j \in Slots, job[j].pc = "join", ~MayRotate(job[j].token)
  PROVE  token[job[j].token].of \in cause
<1> SUFFICES ASSUME token[job[j].token].of \notin cause
             PROVE  FALSE
  OBVIOUS
<1>1. job[j].kind = "refresh" /\ job[j].token \in DOMAIN token /\ job[j].answer = None
  BY Now DEF Standing, RefreshStands
<1>2. PICK b \in Browsers : j \in Refreshes(b)
  BY <1>1, RefreshIsOfBrowser
<1>3. CookieKept(b) /\ RefreshesKept(b)
  BY DEF IInv, Minded, Kept
<1>4. /\ cookie[b] = job[j].token
      /\ \A i \in Refreshes(b) : i # j /\ Spends(job[i]) => job[i].token # job[j].token
  BY <1>1, <1>2, <1>3, NoneAssumption DEF RefreshesKept, Spends
<1>5. \A i \in Refreshes(b) : job[i].answer = "rotated" => job[i].token # cookie[b]
  BY <1>1, <1>4, RefreshIs, NoneAssumption
<1>6. job[j].token # None
  BY <1>1, <1>2, RefreshIs
<1>7. token[job[j].token].state = "issued"
  BY <1>3, <1>4, <1>5, <1>6 DEF CookieKept
<1>8. session[token[job[j].token].of] = "active"
  BY <1>1, Now DEF IInv, Minded, Quiet
<1> QED  BY <1>7, <1>8 DEF MayRotate

\* A reuse: the session of the token is to be revoked.
LEMMA RefuseStep ==
  ASSUME IInv, NEW j \in Slots, Rotate(j), ~MayRotate(job[j].token)
  PROVE  IInv'
<1> DEFINE s == token[job[j].token].of
           l == {x \in {s} : Live(x)}
           q == [job[j] EXCEPT !.pc = "sessions", !.scope = {s}, !.held = {}, !.todo = l, !.aim = l]
<1>1. job[j] \in Jobs /\ Standing(job[j], session, token, cause) /\ job[j].pc = "join"
  BY Now DEF Rotate
<1>2. job[j].kind = "refresh" /\ job[j].token \in DOMAIN token
  BY <1>1 DEF Standing, RefreshStands
<1>3. s \in DOMAIN session /\ s \in Nat /\ s \in cause
  BY <1>1, <1>2, RefusedForCause, Now DEF Tokens
<1>4. job' = [job EXCEPT ![j] = q] /\ UNCHANGED <<session, current, token, cookie, page, cause>>
  BY DEF Rotate, Set, Revocation
<1>5. l \subseteq {s} /\ (s \in l \/ session[s] = "revoked")
  BY <1>3, Now DEF Live, SessionStates
<1>6. s = token[job[j].token].of
  OBVIOUS
<1> HIDE DEF s, l
<1>7. /\ q \in Jobs /\ q.pc = "sessions" /\ q.kind = job[j].kind /\ q.token = job[j].token /\ q.answer = job[j].answer
      /\ q.scope = {s} /\ q.aim = l /\ q.todo = l /\ q.held = {}
  BY <1>1, <1>3, <1>5 DEF Jobs
<1> HIDE DEF q
<1>8. RefreshStands(q, session, token)
  BY <1>1, <1>2, <1>7, NoneAssumption DEF Standing, RefreshStands
<1>9. RevocationStands(q, session, token, cause)
  BY <1>1, <1>2, <1>3, <1>5, <1>6, <1>7, NoneAssumption DEF Standing, RefreshStands, RevocationStands
<1>10. q.answer # "rotated" /\ job[j].answer = None
  BY <1>1, <1>7, NoneAssumption DEF Standing, RefreshStands
<1> QED  BY <1>1, <1>4, <1>7, <1>8, <1>9, <1>10, Advance DEF Standing

\* The tables move under the job that locked their rows.
LEMMA OthersStand ==
  ASSUME IInv, NEW j \in Slots, NEW q \in Jobs,
         job' = [job EXCEPT ![j] = q], cookie' \in [Browsers -> Maybe], page' \in [Pages -> Places],
         Tables(session', current', token'),
         Grown(session, token, cause, session', token', cause'),
         \A k \in Slots : k # j => Unissued(job[k], token, token'),
         q.kind = job[j].kind, Standing(q, session', token', cause'), OneTrade'
  PROVE  Shapes' /\ Served'
<1>1. Shapes'
  BY DEF IInv, Shapes
<1>2. \A k \in Slots : job'[k] = IF k = j THEN q ELSE job[k]
  BY DEF IInv, Shapes
<1>3. ASSUME NEW k \in Slots
      PROVE  Standing(job'[k], session', token', cause')
  BY <1>2, Now, StandsOn
<1>4. KindsFit'
  BY <1>2, SlotsAre DEF IInv, Served, KindsFit
<1> QED  BY <1>1, <1>3, <1>4 DEF Served

\* A trade: the token is consumed, its session's next one is issued.
LEMMA TradeStep ==
  ASSUME IInv, NEW j \in Slots, Rotate(j), MayRotate(job[j].token)
  PROVE  IInv'
<1> DEFINE t == job[j].token
           s == token[t].of
           n == Len(token) + 1
           q == [Ended(j, "rotated") EXCEPT !.next = n]
<1>1. job[j] \in Jobs /\ Standing(job[j], session, token, cause) /\ job[j].pc = "join"
  BY Now DEF Rotate
<1>2. job[j].kind = "refresh" /\ t \in DOMAIN token /\ job[j].answer = None
  BY <1>1 DEF Standing, RefreshStands
<1>3. s \in DOMAIN session /\ s \in Nat /\ token[t].state = "issued" /\ session[s] = "active"
  BY <1>1, <1>2, Now DEF Tokens, MayRotate
<1>4. /\ job' = [job EXCEPT ![j] = q]
      /\ token' = Append([token EXCEPT ![t].state = "consumed"], [of |-> s, state |-> "issued"])
      /\ current' = [current EXCEPT ![s] = n]
      /\ UNCHANGED <<session, cookie, page, cause>>
  BY DEF Rotate, Set
<1>5. Free(j, <<"session", s>>)
  BY <1>1 DEF Rotate, Wanted
<1>6. n \in Nat \ {0} /\ n \notin DOMAIN token /\ DOMAIN token' = DOMAIN token \cup {n}
  BY <1>4, Now
<1>7. token'[n] = [of |-> s, state |-> "issued"]
  BY <1>4, Now
<1>8. \A u \in DOMAIN token : token'[u] = IF u = t THEN [token[t] EXCEPT !.state = "consumed"] ELSE token[u]
  BY <1>4, Now
<1>9. \A u \in DOMAIN token : token[u] \in Tokens
  BY Now
<1>10. \A u \in DOMAIN token : /\ token'[u].of = token[u].of
                               /\ token'[u].state = IF u = t THEN "consumed" ELSE token[u].state
  BY <1>8, <1>9 DEF Tokens
<1>11. Tables(session', current', token')
  <2>1. [token[t] EXCEPT !.state = "consumed"] \in Tokens /\ [of |-> s, state |-> "issued"] \in Tokens
    BY <1>2, <1>3, <1>9 DEF Tokens
  <2>2. [token EXCEPT ![t].state = "consumed"] \in Seq(Tokens)
    BY <1>2, <2>1, Now
  <2>3. token' \in Seq(Tokens)
    BY <1>4, <2>1, <2>2
  <2>4. current' \in Seq(Nat) /\ Len(current') = Len(current)
    BY <1>3, <1>4, <1>6, Now DEF Tables
  <2>5. \A u \in DOMAIN token' : token'[u].of \in DOMAIN session
    BY <1>3, <1>6, <1>7, <1>10, Now
  <2> QED  BY <1>4, <2>3, <2>4, <2>5, Now DEF Tables
<1>12. /\ q \in Jobs /\ q.pc = "done" /\ q.kind = "refresh" /\ q.token = t /\ q.answer = "rotated" /\ q.next = n
       /\ q.scope = job[j].scope /\ q.aim = job[j].aim
  <2> DEFINE e == Ended(j, "rotated")
  <2>1. /\ e \in Jobs /\ e.pc = "done" /\ e.kind = job[j].kind /\ e.token = t /\ e.answer = "rotated"
        /\ e.scope = job[j].scope /\ e.aim = job[j].aim
    BY <1>1, EndedIs
  <2>2. q = [e EXCEPT !.next = n] /\ n \in Maybe
    BY <1>6 DEF Maybe
  <2> HIDE DEF e, n, q
  <2> QED  BY <1>2, <2>1, <2>2 DEF Jobs
<1>13. s = token[t].of /\ t = job[j].token
  OBVIOUS
<1> HIDE DEF q, n, s, t
<1>14. Grown(session, token, cause, session', token', cause')
  BY <1>2, <1>3, <1>4, <1>6, <1>10 DEF Grown
<1>15. \A k \in Slots : k # j => Unissued(job[k], token, token')
  BY <1>5, <1>6, <1>7 DEF Unissued, Free
<1>16. Standing(q, session', token', cause')
  <2>1. RefreshStands(q, session', token')
    BY <1>2, <1>6, <1>7, <1>10, <1>12, <1>13, NoneAssumption DEF RefreshStands
  <2> QED  BY <1>1, <1>4, <1>12, <2>1, NoneAssumption DEF Standing, RevocationStands
<1>17. \A k \in Slots : job'[k] = IF k = j THEN q ELSE job[k]
  BY <1>4 DEF IInv, Shapes
<1>18. OneTrade'
  <2>1. \A k \in Slots : job[k].answer = "rotated" => job[k].token # t
    BY <1>3, Now DEF Standing, RefreshStands
  <2> QED  BY <1>12, <1>17, <2>1 DEF IInv, Served, OneTrade
<1>19. Shapes' /\ Served'
  <2>1. cookie' \in [Browsers -> Maybe] /\ page' \in [Pages -> Places]
    BY <1>4 DEF IInv, Shapes
  <2> QED  BY <2>1, <1>2, <1>4, <1>11, <1>12, <1>14, <1>15, <1>16, <1>18, OthersStand
<1>20. LineageAgrees'
  <2>1. current'[s] = n /\ \A r \in DOMAIN session : r # s => current'[r] = current[r]
    BY <1>3, <1>4, Now DEF Tables
  <2>2. current[s] = t
    BY <1>2, <1>3, <1>13 DEF IInv, LineageAgrees
  <2>3. ASSUME NEW u \in DOMAIN token', token'[u].state = "issued"
        PROVE  session'[token'[u].of] \in {"active", "expired"} /\ current'[token'[u].of] = u
    <3>1. CASE u = n
      BY <1>3, <1>4, <1>7, <2>1, <3>1
    <3>2. CASE u # n
      <4>1. u \in DOMAIN token /\ token[u].state = "issued" /\ u # t /\ token'[u].of = token[u].of
        BY <1>6, <1>10, <2>3, <3>2
      <4>2. Live(token[u].of) /\ current[token[u].of] = u /\ token[u].of \in DOMAIN session
        BY <4>1, Now DEF IInv, LineageAgrees
      <4> QED  BY <1>4, <2>1, <2>2, <4>1, <4>2 DEF Live
    <3> QED  BY <3>1, <3>2
  <2> QED  BY <2>3 DEF LineageAgrees, Live
<1>21. PICK b \in Browsers : j \in Refreshes(b)
  BY <1>2, <1>13, RefreshIsOfBrowser
<1>22. CookieKept(b) /\ RefreshesKept(b) /\ Spends(job[j]) /\ Spends(q) /\ job[j].token = t
  BY <1>1, <1>2, <1>12, <1>13, NoneAssumption DEF IInv, Minded, Kept, Spends
<1>23. token[t].of \notin cause =>
         cookie[b] = t /\ \A i \in Refreshes(b) : i # j /\ Spends(job[i]) => job[i].token # t
  BY <1>21, <1>22 DEF RefreshesKept
<1>24. \A i \in Slots : i # j => job'[i] = job[i]
  BY <1>17
<1>25. Kept(b)'
  <2>1. CookieKept(b)'
    <3> SUFFICES ASSUME cookie[b] # None
                 PROVE  /\ cookie[b] \in DOMAIN token'
                        /\ \/ token'[cookie[b]].of \in cause'
                           \/ token'[cookie[b]].state = "issued"
                           \/ \E i \in Refreshes(b) : job'[i].answer = "rotated" /\ job'[i].token = cookie[b]
      BY <1>4 DEF CookieKept, Refreshes
    <3>1. cookie[b] \in DOMAIN token /\ cookie[b] \in DOMAIN token' /\ token'[cookie[b]].of = token[cookie[b]].of
      BY <1>6, <1>10, <1>22 DEF CookieKept
    <3>2. CASE cookie[b] = t
      BY <1>12, <1>17, <1>21, <3>1, <3>2
    <3>3. CASE cookie[b] # t
      <4>1. token'[cookie[b]].state = token[cookie[b]].state
        BY <1>10, <3>1, <3>3
      <4>2. \A i \in Refreshes(b) : i \in Slots /\ (i = j \/ job'[i] = job[i])
        BY <1>24, SlotsAre
      <4>3. \A i \in Refreshes(b) : job[i].answer = "rotated" => job'[i] = job[i]
        BY <1>2, <4>2, NoneAssumption
      <4> QED  BY <1>4, <1>22, <3>1, <4>1, <4>3 DEF CookieKept
    <3> QED  BY <3>2, <3>3
  <2>2. RefreshesKept(b)'
    <3> SUFFICES ASSUME NEW i \in Refreshes(b), Spends(job'[i]), token'[job'[i].token].of \notin cause'
                 PROVE  /\ cookie[b] = job'[i].token
                        /\ job'[i].answer = "rotated" => token'[job'[i].next].state = "issued"
                        /\ \A k \in Refreshes(b) : k # i /\ Spends(job'[k]) => job'[k].token # job'[i].token
      BY <1>4 DEF RefreshesKept, Refreshes, Spends
    <3>1. \A k \in Refreshes(b) : /\ job'[k].token = job[k].token /\ (Spends(job'[k]) => Spends(job[k]))
                                  /\ k # j => job'[k] = job[k]
      BY <1>12, <1>17, <1>22, SlotsAre
    <3>2. /\ Spends(job[i]) /\ job'[i].token = job[i].token
          /\ job[i].token \in DOMAIN token
      BY <3>1, RefreshIs DEF Spends
    <3>3. token[job[i].token].of \notin cause /\ token'[job[i].token].of = token[job[i].token].of
      BY <1>4, <1>10, <3>2
    <3>4. /\ cookie[b] = job[i].token
          /\ job[i].answer = "rotated" => token[job[i].next].state = "issued"
          /\ \A k \in Refreshes(b) : k # i /\ Spends(job[k]) => job[k].token # job[i].token
      BY <1>22, <3>2, <3>3 DEF RefreshesKept
    <3>5. ASSUME job'[i].answer = "rotated"
          PROVE  token'[job'[i].next].state = "issued"
      <4>1. CASE i = j
        BY <1>7, <1>12, <1>17, <4>1
      <4>2. CASE i # j
        <5>1. job'[i] = job[i] /\ job[i].next \in DOMAIN token /\ token[job[i].next].of = token[job[i].token].of
          BY <3>1, <3>5, <4>2, RefreshIs DEF Refreshing
        <5>2. job[i].next # t
          BY <1>22, <1>23, <3>3, <3>4, <4>2, <5>1
        <5> QED  BY <1>10, <3>4, <3>5, <5>1, <5>2
      <4> QED  BY <4>1, <4>2
    <3> QED  BY <3>1, <3>2, <3>4, <3>5
  <2> QED  BY <2>1, <2>2 DEF Kept
<1>26. ASSUME NEW c \in Browsers, c # b
       PROVE  Kept(c)'
  <2>1. \A i \in Refreshes(c) : job'[i] = job[i]
    BY <1>21, <1>24, <1>26, SlotsAre
  <2>2. \A i \in Refreshes(c) : Like(job[i], job'[i])
    BY <2>1 DEF Like
  <2>3. Undisturbed(c)
    <3>1. t # None
      BY <1>21, <1>22, RefreshIs DEF Spends
    <3>2. cookie[c] # None /\ token[t].of = token[cookie[c]].of => token[t].of \in cause
      BY <1>23, <1>26, <3>1 DEF IInv, Minded, Apart
    <3> QED  BY <1>4, <1>10, <3>2 DEF Undisturbed
  <2> QED  BY <1>4, <1>14, <2>2, <2>3, KeptOn
<1>27. ASSUME NEW p \in Pages
       PROVE  PageKept(p)'
  <2>1. Page(p) \in Slots
    BY SlotsAre
  <2>2. job'[Page(p)].pc = "idle" <=> job[Page(p)].pc = "idle"
    BY <1>1, <1>12, <1>17, <2>1
  <2> QED  BY <1>4, <1>14, <2>2, PageKeptOn
<1>28. Quiet' /\ Apart'
  BY <1>4, <1>14, ApartOn DEF IInv, Minded, Quiet
<1> QED  BY <1>19, <1>20, <1>25, <1>26, <1>27, <1>28 DEF IInv, Minded

LEMMA RotateStep ==
  ASSUME IInv, NEW j \in Slots, Rotate(j)
  PROVE  IInv'
BY TradeStep, RefuseStep

LEMMA CommitStep ==
  ASSUME IInv, NEW j \in Slots, Commit(j)
  PROVE  IInv'
<1> DEFINE a == IF job[j].kind = "refresh" THEN "reuse" ELSE "revoked"
           q == Ended(j, a)
           h == job[j].held
<1>1. job[j] \in Jobs /\ Standing(job[j], session, token, cause) /\ job[j].pc = "tokens" /\ job[j].todo = {}
  BY Now DEF Commit
<1>2. /\ job' = [job EXCEPT ![j] = q] /\ UNCHANGED <<current, cookie, page>>
      /\ session' = [s \in DOMAIN session |-> IF <<"session", s>> \in h THEN "revoked" ELSE session[s]]
      /\ token' = [t \in DOMAIN token |-> IF <<"token", t>> \in h THEN [token[t] EXCEPT !.state = "revoked"] ELSE token[t]]
      /\ cause' = IF job[j].kind = "all" THEN cause \cup job[j].scope ELSE cause
  BY DEF Commit, Set
<1>3. /\ q \in Jobs /\ q.pc = "done" /\ q.kind = job[j].kind /\ q.token = job[j].token
      /\ q.scope = job[j].scope /\ q.aim = job[j].aim /\ q.answer = a
  BY <1>1, EndedIs
<1>4. a \in {"reuse", "revoked"} /\ (a = "reuse" <=> job[j].kind = "refresh")
  OBVIOUS
<1>5. \A t \in DOMAIN token : token[t] \in Tokens
  BY Now
<1>6. \A t \in DOMAIN token : /\ token'[t].of = token[t].of /\ token'[t] \in Tokens
                              /\ token'[t].state = IF <<"token", t>> \in h THEN "revoked" ELSE token[t].state
  BY <1>2, <1>5 DEF Tokens
<1>7. \A s \in DOMAIN session : session'[s] = IF <<"session", s>> \in h THEN "revoked" ELSE session[s]
  BY <1>2
<1>8. DOMAIN token' = DOMAIN token /\ DOMAIN session' = DOMAIN session
  BY <1>2
<1>9. h = job[j].held
  OBVIOUS
<1> HIDE DEF q, a, h
<1>10. Tables(session', current', token')
  <2>1. session' \in Seq(SessionStates) /\ Len(session') = Len(session)
    <3>1. session \in Seq(SessionStates) /\ DOMAIN session = 1..Len(session) /\ \A s \in DOMAIN session : session[s] \in SessionStates
      BY Now
    <3>2. \A s \in 1..Len(session) : session'[s] \in SessionStates
      BY <1>7, <3>1 DEF SessionStates
    <3>3. session' \in [1..Len(session) -> SessionStates]
      BY <1>2, <3>1, <3>2
    <3> QED  BY <3>1, <3>3
  <2>2. token' \in Seq(Tokens)
    <3>1. token \in Seq(Tokens) /\ DOMAIN token = 1..Len(token)
      BY Now
    <3>2. \A t \in 1..Len(token) : token'[t] \in Tokens
      BY <1>6, <3>1
    <3>3. token' \in [1..Len(token) -> Tokens]
      BY <1>2, <3>1, <3>2
    <3> QED  BY <3>1, <3>3
  <2> QED  BY <1>2, <1>6, <1>8, <2>1, <2>2, Now DEF Tables
<1>11. job[j].scope \subseteq cause' /\ cause \subseteq cause'
  BY <1>1, <1>2 DEF Standing, RevocationStands
<1>12. Grown(session, token, cause, session', token', cause')
  BY <1>6, <1>7, <1>8, <1>11 DEF Grown
<1>13. \A k \in Slots : Unissued(job[k], token, token')
  BY <1>8 DEF Unissued
<1>14. \A s \in job[j].aim : session'[s] = "revoked"
  BY <1>1, <1>7, <1>9 DEF Standing, RevocationStands
<1>15. Standing(q, session', token', cause')
  <2>1. job[j].kind = "refresh" => job[j].token \in DOMAIN token /\ session'[token[job[j].token].of] = "revoked"
    <3>1. ASSUME job[j].kind = "refresh"
          PROVE  job[j].token \in DOMAIN token
      BY <1>1, <3>1 DEF Standing, RefreshStands
    <3>2. ASSUME job[j].kind = "refresh"
          PROVE  token[job[j].token].of \in job[j].aim \/ session[token[job[j].token].of] = "revoked"
      BY <1>1, <3>2 DEF Standing, RevocationStands
    <3> QED  BY <1>7, <1>14, <3>1, <3>2, Now
  <2>2. RefreshStands(q, session', token')
    BY <1>1, <1>3, <1>4, <1>6, <1>8, <2>1, NoneAssumption DEF Standing, RefreshStands
  <2> QED  BY <1>1, <1>3, <1>8, <1>14, <2>2, NoneAssumption DEF Standing, RevocationStands
<1>16. \A k \in Slots : job'[k] = IF k = j THEN q ELSE job[k]
  BY <1>2 DEF IInv, Shapes
<1>17. OneTrade'
  BY <1>3, <1>4, <1>16 DEF IInv, Served, OneTrade
<1>18. Shapes' /\ Served'
  <2>1. cookie' \in [Browsers -> Maybe] /\ page' \in [Pages -> Places]
    BY <1>2 DEF IInv, Shapes
  <2> QED  BY <2>1, <1>2, <1>3, <1>10, <1>12, <1>13, <1>15, <1>17, OthersStand
<1>19. LineageAgrees'
  <2>1. ASSUME NEW t \in DOMAIN token', token'[t].state = "issued"
        PROVE  session'[token'[t].of] \in {"active", "expired"} /\ current'[token'[t].of] = t
    <3>1. t \in DOMAIN token /\ <<"token", t>> \notin h /\ token[t].state = "issued" /\ token'[t].of = token[t].of
      BY <1>6, <1>8, <2>1
    <3>2. Live(token[t].of) /\ current[token[t].of] = t /\ token[t].of \in DOMAIN session
      BY <3>1, Now DEF IInv, LineageAgrees
    <3>3. <<"session", token[t].of>> \notin h
      BY <1>1, <1>9, <3>1 DEF Standing, RevocationStands
    <3> QED  BY <1>2, <1>7, <3>1, <3>2, <3>3 DEF Live
  <2> QED  BY <2>1 DEF LineageAgrees, Live
<1>20. Minded'
  <2>1. Quiet'
    <3>1. ASSUME NEW s \in DOMAIN session, s \notin cause'
          PROVE  session'[s] = "active"
      <4>1. s \in Nat /\ <<"session", s>> \notin h
        BY <1>1, <1>9, <1>11, <3>1, Now DEF Standing, RevocationStands
      <4> QED  BY <1>7, <1>11, <3>1, <4>1 DEF IInv, Minded, Quiet
    <3> QED  BY <1>8, <3>1 DEF Quiet
  <2>2. /\ job[j].answer = None /\ q.pc = "done" /\ q.token = job[j].token /\ q.answer # "rotated"
    BY <1>1, <1>3, <1>4, NoneAssumption DEF Standing, RefreshStands
  <2>3. Like(job[j], q)
    BY <1>1, <2>2, NoneAssumption DEF Like, Spends
  <2>4. \A k \in Slots : Like(job[k], job'[k])
    BY <1>16, <2>3 DEF Like
  <2>5. ASSUME NEW c \in Browsers
        PROVE  Kept(c)'
    <3>1. \A t \in Nat : <<"token", t>> \in h => t \in DOMAIN token /\ token[t].of \in job[j].scope
      BY ONLY <1>1, <1>9 DEF Standing, RevocationStands
    <3>2. \A t \in DOMAIN token : t \in Nat
      BY TokensAre
    <3>3. \A t \in DOMAIN token : <<"token", t>> \in h => token[t].of \in cause'
      BY ONLY <1>11, <3>1, <3>2
    <3>4. Undisturbed(c)
      BY <1>6, <3>3 DEF Undisturbed
    <3>5. \A k \in Refreshes(c) : Like(job[k], job'[k])
      BY <2>4, SlotsAre
    <3>6. cookie'[c] = cookie[c]
      BY <1>2
    <3> HIDE DEF q, h
    <3> QED  BY <1>12, <3>4, <3>5, <3>6, KeptOn
  <2>6. ASSUME NEW p \in Pages
        PROVE  PageKept(p)'
    <3>1. job'[Page(p)].pc = "idle" <=> job[Page(p)].pc = "idle"
      BY <2>4, SlotsAre DEF Like
    <3> QED  BY <1>2, <1>12, <3>1, PageKeptOn
  <2>7. Apart'
    BY <1>2, <1>12, ApartOn
  <2> QED  BY <2>1, <2>5, <2>6, <2>7 DEF IInv, Minded
<1> QED  BY <1>18, <1>19, <1>20 DEF IInv

-----------------------------------------------------------------------------
(* The steps of the browser *)

LEMMA IdleStands ==
  /\ Idle \in Jobs /\ Idle.kind = "none" /\ Idle.pc = "idle" /\ Idle.answer = None
  /\ \A S, T, K : Standing(Idle, S, T, K)
<1>1. /\ Idle \in Jobs /\ Idle.kind = "none" /\ Idle.pc = "idle" /\ Idle.answer = None
      /\ Idle.scope = {} /\ Idle.aim = {}
  BY DEF Idle, Jobs, Maybe
<1> QED  BY <1>1, NoneAssumption DEF Standing, RefreshStands, RevocationStands

LEMMA BeginStands ==
  ASSUME NEW t, NEW S, NEW T \in Seq(Tokens), NEW K, t \in DOMAIN T
  PROVE  /\ Begin(t) \in Jobs /\ Begin(t).kind = "refresh" /\ Begin(t).pc = "select" /\ Begin(t).answer = None
         /\ Begin(t).token = t
         /\ Standing(Begin(t), S, T, K)
<1>1. t \in Nat
  OBVIOUS
<1>2. /\ Begin(t) \in Jobs /\ Begin(t).kind = "refresh" /\ Begin(t).pc = "select" /\ Begin(t).answer = None
      /\ Begin(t).token = t /\ Begin(t).scope = {} /\ Begin(t).aim = {}
  BY <1>1 DEF Begin, Idle, Jobs, Maybe
<1> QED  BY <1>2, NoneAssumption DEF Standing, RefreshStands, RevocationStands

\* One job, one page and its browser's cookie.
Change(p, j, q, w, k) ==
  /\ j \in {Page(p), Left(p), Out(p)}
  /\ job' = [job EXCEPT ![j] = q]
  /\ page' = [page EXCEPT ![p] = w]
  /\ cookie' = [cookie EXCEPT ![Home(p)] = k]

Changed(p, j, q, w, k) ==
  /\ j \in Slots /\ job' \in [Slots -> Jobs] /\ page' \in [Pages -> Places] /\ cookie' \in [Browsers -> Maybe]
  /\ \A i \in Slots : job'[i] = IF i = j THEN q ELSE job[i]
  /\ \A r \in Pages : page'[r] = IF r = p THEN w ELSE page[r]
  /\ \A c \in Browsers : cookie'[c] = IF c = Home(p) THEN k ELSE cookie[c]
  /\ \A c \in Browsers : c # Home(p) => \A i \in Refreshes(c) : job'[i] = job[i]

LEMMA ChangeIs ==
  ASSUME IInv, NEW p \in Pages, NEW j, NEW q \in Jobs, NEW w \in Places, NEW k \in Maybe, Change(p, j, q, w, k)
  PROVE  Changed(p, j, q, w, k)
<1>1. j \in Slots /\ (j \in Asking => j \in Refreshes(Home(p))) /\ Home(p) \in Browsers
  BY SlotsAre DEF Change
<1>2. /\ job' \in [Slots -> Jobs] /\ page' \in [Pages -> Places] /\ cookie' \in [Browsers -> Maybe]
      /\ \A i \in Slots : job'[i] = IF i = j THEN q ELSE job[i]
      /\ \A r \in Pages : page'[r] = IF r = p THEN w ELSE page[r]
      /\ \A c \in Browsers : cookie'[c] = IF c = Home(p) THEN k ELSE cookie[c]
  BY <1>1 DEF Change, IInv, Shapes
<1>3. ASSUME NEW c \in Browsers, c # Home(p), NEW i \in Refreshes(c)
      PROVE  job'[i] = job[i]
  BY <1>1, <1>2, <1>3, SlotsAre
<1> QED  BY <1>1, <1>2, <1>3 DEF Changed

LEMMA PageStep ==
  ASSUME IInv, TablesStand, NEW p \in Pages, NEW j, NEW q \in Jobs, NEW w \in Places, NEW k \in Maybe,
         Change(p, j, q, w, k),
         IF j \in Asking THEN q.kind \in {"none", "refresh"} ELSE q.kind # "refresh",
         q.answer # "rotated", Standing(q, session, token, cause'),
         Kept(Home(p))', Apart',
         \A r \in Pages : Home(r) = Home(p) => PageKept(r)'
  PROVE  IInv'
<1>1. /\ j \in Slots /\ page' \in [Pages -> Places] /\ cookie' \in [Browsers -> Maybe]
      /\ \A r \in Pages : page'[r] = IF r = p THEN w ELSE page[r]
      /\ \A c \in Browsers : cookie'[c] = IF c = Home(p) THEN k ELSE cookie[c]
      /\ \A c \in Browsers : c # Home(p) => \A i \in Refreshes(c) : job'[i] = job[i]
  BY ChangeIs DEF Changed
<1>2. job' = [job EXCEPT ![j] = q]
  BY DEF Change
<1>3. /\ job' \in [Slots -> Jobs] /\ KindsFit' /\ OneTrade'
      /\ \A i \in Slots : Standing(job'[i], session, token, cause')
  BY <1>1, <1>2, OneJob
<1>4. Shapes' /\ LineageAgrees' /\ Served' /\ Quiet'
  BY <1>1, <1>3 DEF IInv, Shapes, TablesStand, LineageAgrees, Live, Served, Minded, Quiet
<1>5. Grown(session, token, cause, session', token', cause') /\ \A c \in Browsers : Undisturbed(c)
  BY DEF TablesStand, Grown, Undisturbed
<1>6. ASSUME NEW c \in Browsers, c # Home(p)
      PROVE  Kept(c)'
  <2>1. cookie'[c] = cookie[c] /\ \A i \in Refreshes(c) : Like(job[i], job'[i])
    BY <1>1, <1>6 DEF Like
  <2> QED  BY <1>5, <2>1, KeptOn
<1>7. ASSUME NEW r \in Pages, Home(r) # Home(p)
      PROVE  PageKept(r)'
  <2>1. page'[r] = page[r] /\ cookie'[Home(r)] = cookie[Home(r)] /\ job'[Page(r)] = job[Page(r)]
    BY <1>1, <1>7, SlotsAre
  <2> QED  BY <1>5, <2>1, PageKeptOn
<1> QED  BY <1>4, <1>6, <1>7 DEF IInv, Minded

LEMMA OutIs ==
  ASSUME IInv, NEW p \in Pages
  PROVE  /\ job[Out(p)] \in Jobs /\ job[Out(p)].kind # "refresh" /\ job[Out(p)].answer # "rotated"
         /\ Out(p) \in Slots /\ Out(p) \notin Asking
         /\ \A r \in Pages : Out(p) # Page(r) /\ Out(p) # Left(r)
<1>1. Out(p) \in Slots /\ Out(p) \notin Asking /\ \A r \in Pages : Page(r) \in Asking /\ Left(r) \in Asking
  BY SlotsAre
<1> QED  BY <1>1, Now DEF IInv, Served, KindsFit, Standing, RefreshStands

LEMMA PageIs ==
  ASSUME IInv, NEW p \in Pages
  PROVE  /\ Home(p) \in Browsers /\ page[p] \in Places /\ PageKept(p) /\ Kept(Home(p))
         /\ cookie[Home(p)] \in Maybe
         /\ cookie[Home(p)] # None => cookie[Home(p)] \in DOMAIN token /\ token[cookie[Home(p)]].of \in DOMAIN session
BY SlotsAre, CookieIs DEF IInv, Shapes, Minded

\* A page that asks for nothing turns.
LEMMA Turn ==
  ASSUME IInv, UNCHANGED <<session, current, token, cookie, job, cause>>, NEW p \in Pages, NEW a \in {"out", "waiting"},
         page' = [page EXCEPT ![p].at = a], page[p].at # "asking",
         a = "out" => cookie[Home(p)] = None
  PROVE  IInv'
<1> DEFINE w == [page[p] EXCEPT !.at = a]
<1>1. TablesStand /\ cause' = cause
  BY DEF TablesStand
<1>2. page[p] \in Places /\ PageKept(p) /\ Home(p) \in Browsers /\ Kept(Home(p)) /\ cookie[Home(p)] \in Maybe
  BY PageIs
<1>3. w \in Places /\ w.at = a /\ w.of = page[p].of
  BY <1>2 DEF Places
<1>4. page' = [page EXCEPT ![p] = w]
  OBVIOUS
<1> HIDE DEF w
<1>5. Change(p, Out(p), job[Out(p)], w, cookie[Home(p)])
  BY <1>2, <1>4, OutIs DEF Change, IInv, Shapes
<1>6. /\ \A i \in Slots : job'[i] = job[i]
      /\ \A r \in Pages : page'[r] = IF r = p THEN w ELSE page[r]
  <2>1. Changed(p, Out(p), job[Out(p)], w, cookie[Home(p)])
    BY <1>2, <1>3, <1>5, OutIs, ChangeIs
  <2> QED  BY <2>1 DEF Changed
<1>7. Grown(session, token, cause, session', token', cause') /\ \A c \in Browsers : Undisturbed(c)
  BY <1>1 DEF TablesStand, Grown, Undisturbed
<1>8. Kept(Home(p))'
  <2>1. \A i \in Refreshes(Home(p)) : Like(job[i], job'[i])
    BY DEF Like
  <2> QED  BY <1>2, <1>7, <2>1, KeptOn
<1>9. ASSUME NEW r \in Pages
      PROVE  PageKept(r)'
  <2>1. CASE r = p
    BY <1>2, <1>3, <1>6, <2>1 DEF PageKept, Page, Home
  <2>2. CASE r # p
    BY <1>6, <1>7, <2>2, PageKeptOn
  <2> QED  BY <2>1, <2>2
<1>10. Apart'
  BY <1>7, ApartOn
<1>11. Standing(job[Out(p)], session, token, cause')
  BY <1>1, OutIs, StillStanding DEF TablesStand
<1> QED  BY <1>1, <1>2, <1>3, <1>5, <1>8, <1>9, <1>10, <1>11, OutIs, PageStep

LEMMA OpenStep ==
  ASSUME IInv, NEW p \in Pages, Open(p)
  PROVE  IInv'
BY Turn DEF Open

LEMMA RefusedStep ==
  ASSUME IInv, NEW p \in Pages, Refused(p)
  PROVE  IInv'
BY Turn DEF Refused

LEMMA AskStep ==
  ASSUME IInv, NEW p \in Pages, Ask(p)
  PROVE  IInv'
<1> DEFINE b == Home(p)
           t == cookie[b]
           q == Begin(t)
           w == [page[p] EXCEPT !.at = "asking"]
<1>1. /\ page[p] \in Places /\ PageKept(p) /\ b \in Browsers /\ CookieKept(b) /\ RefreshesKept(b) /\ t \in Maybe
      /\ t # None => t \in DOMAIN token /\ token[t].of \in DOMAIN session
  BY PageIs DEF Kept
<1>2. page[p].at \in {"in", "waiting"} /\ job[Page(p)].pc = "idle" /\ UNCHANGED <<session, current, token, cookie>>
  BY DEF Ask
<1>3. CASE t = None
  BY <1>2, <1>3, Turn DEF Ask
<1>4. CASE t # None
  <2>1. /\ page' = [page EXCEPT ![p] = w] /\ job' = [job EXCEPT ![Page(p)] = q]
        /\ cause' = IF SentAlready(p) THEN cause \cup {token[t].of} ELSE cause
    BY <1>4 DEF Ask, Set
  <2>2. TablesStand
    BY <1>2, <2>1 DEF TablesStand
  <2>3. /\ q \in Jobs /\ q.kind = "refresh" /\ q.pc = "select" /\ q.answer = None /\ q.token = t
        /\ Standing(q, session, token, cause')
    <3>1. token \in Seq(Tokens)
      BY DEF IInv, Shapes, Tables
    <3> QED  BY <1>1, <1>4, <3>1, BeginStands
  <2>4. w \in Places /\ w.at = "asking" /\ w.of = page[p].of
    BY <1>1 DEF Places
  <2>5. Page(p) \in Refreshes(b) /\ Page(p) \in Asking /\ Page(p) \in Slots
    BY SlotsAre
  <2>6. b = Home(p) /\ t = cookie[b]
    OBVIOUS
  <2> HIDE DEF q, w, b, t
  <2>7. Change(p, Page(p), q, w, t)
    BY <1>1, <1>2, <2>1, <2>6 DEF Change, IInv, Shapes
  <2>8. /\ \A i \in Slots : job'[i] = IF i = Page(p) THEN q ELSE job[i]
        /\ \A r \in Pages : page'[r] = IF r = p THEN w ELSE page[r]
    <3>1. Changed(p, Page(p), q, w, t)
      BY <1>1, <2>3, <2>4, <2>7, ChangeIs
    <3> QED  BY <3>1 DEF Changed
  <2>9. \A i \in Refreshes(b) : i \in Slots /\ job'[i] = IF i = Page(p) THEN q ELSE job[i]
    BY <1>1, <2>8, SlotsAre
  <2>10. job[Page(p)].answer # "rotated" /\ ~Spends(job[Page(p)])
    BY <1>1, <1>2, <2>5, RefreshIs DEF Spends
  <2>11. SentAlready(p) <=> \E i \in Refreshes(b) \ {Page(p)} : Spends(job[i]) /\ job[i].token = t
    BY <2>6 DEF SentAlready
  <2>12. CookieKept(b)'
    <3>1. CASE token[t].of \in cause \/ token[t].state = "issued"
      BY <1>1, <1>2, <1>4, <2>1, <2>6, <3>1 DEF CookieKept, Refreshes
    <3>2. CASE \E i \in Refreshes(b) : job[i].answer = "rotated" /\ job[i].token = t
      <4>1. PICK i \in Refreshes(b) : job[i].answer = "rotated" /\ job[i].token = t
        BY <3>2
      <4>2. job'[i] = job[i]
        BY <2>9, <2>10, <4>1
      <4> QED  BY <1>1, <1>2, <1>4, <2>6, <4>1, <4>2 DEF CookieKept, Refreshes
    <3> QED  BY <1>1, <1>4, <2>6, <3>1, <3>2 DEF CookieKept
  <2>13. RefreshesKept(b)'
    <3> SUFFICES ASSUME NEW j \in Refreshes(b), Spends(job'[j]), token[job'[j].token].of \notin cause'
                 PROVE  /\ t = job'[j].token
                        /\ job'[j].answer = "rotated" => token[job'[j].next].state = "issued"
                        /\ \A i \in Refreshes(b) : i # j /\ Spends(job'[i]) => job'[i].token # job'[j].token
      BY <1>2, <2>6 DEF RefreshesKept, Refreshes, Spends
    <3>1. cause \subseteq cause'
      BY <2>1
    <3>2. CASE j = Page(p)
      <4>1. job'[j] = q /\ ~SentAlready(p)
        BY <2>1, <2>3, <2>9, <3>2
      <4> QED  BY <2>3, <2>9, <2>11, <3>2, <4>1, NoneAssumption
    <3>3. CASE j # Page(p)
      <4>1. job'[j] = job[j] /\ token[job[j].token].of \notin cause
        BY <2>9, <3>1, <3>3
      <4>2. /\ t = job[j].token
            /\ job[j].answer = "rotated" => token[job[j].next].state = "issued"
            /\ \A i \in Refreshes(b) : i # j /\ Spends(job[i]) => job[i].token # job[j].token
        BY <1>1, <2>6, <4>1 DEF RefreshesKept
      <4>3. SentAlready(p)
        BY <2>11, <3>3, <4>1, <4>2
      <4> QED  BY <2>1, <4>1, <4>2, <4>3
    <3> QED  BY <3>2, <3>3
  <2>14. Apart' /\ Grown(session, token, cause, session', token', cause')
    <3>1. Grown(session, token, cause, session', token', cause')
      BY <2>2 DEF TablesStand, Grown
    <3> QED  BY <1>2, <3>1, ApartOn
  <2>15. ASSUME NEW r \in Pages
         PROVE  PageKept(r)'
    <3>1. CASE r = p
      BY <1>1, <1>2, <2>1, <2>3, <2>4, <2>5, <2>6, <2>8, <3>1 DEF PageKept, Page, Home
    <3>2. CASE r # p
      <4>1. page'[r] = page[r] /\ job'[Page(r)] = job[Page(r)] /\ cookie'[Home(r)] = cookie[Home(r)]
        BY <1>2, <2>8, <3>2, SlotsAre
      <4> QED  BY <2>14, <4>1, PageKeptOn
    <3> QED  BY <3>1, <3>2
  <2>16. Kept(Home(p))'
    BY <2>6, <2>12, <2>13 DEF Kept
  <2>17. q.answer # "rotated" /\ q.kind \in {"none", "refresh"}
    BY <2>3, NoneAssumption
  <2> QED  BY <1>1, <2>2, <2>3, <2>4, <2>5, <2>7, <2>14, <2>15, <2>16, <2>17, PageStep
<1> QED  BY <1>3, <1>4

\* The session of a token that came back as a reuse is over, and had a cause.
LEMMA ReuseHadCause ==
  ASSUME IInv, NEW j \in Slots, job[j].answer = "reuse"
  PROVE  token[job[j].token].of \in cause
BY Now DEF Standing, RefreshStands, IInv, Minded, Quiet

\* What is not ended of a browser is of its cookie's session.
Displaced(b, K) ==
  /\ \A i \in Refreshes(b) : Spends(job[i]) => token[job[i].token].of \in K
  /\ \A p \in Pages : Home(p) = b /\ page[p].of # None => page[p].of \in K

LEMMA OverwrittenAll ==
  ASSUME IInv, NEW b \in Browsers, NEW K, cause \subseteq K, cookie[b] # None => token[cookie[b]].of \in K
  PROVE  Displaced(b, K)
<1>1. ASSUME NEW i \in Refreshes(b), Spends(job[i]), token[job[i].token].of \notin cause
      PROVE  token[job[i].token].of \in K
  <2>1. cookie[b] = job[i].token /\ job[i].token # None
    BY <1>1, RefreshIs DEF IInv, Minded, Kept, RefreshesKept, Spends
  <2> QED  BY <2>1
<1>2. ASSUME NEW p \in Pages, Home(p) = b, page[p].of # None, page[p].of \notin cause
      PROVE  page[p].of \in K
  BY <1>2 DEF IInv, Minded, PageKept
<1> QED  BY <1>1, <1>2 DEF Displaced

\* An answer that arrives: what was the cookie's is still, or was displaced.
StaysWith(b) ==
  cookie[b] # None /\ token[cookie[b]].of \notin cause' => cookie'[b] # None /\ token[cookie'[b]].of = token[cookie[b]].of

Arrived(b, j) ==
  /\ Kept(b)' /\ Apart' /\ StaysWith(b) /\ cause \subseteq cause'
  /\ job[j].answer \in {"rotated", "reuse", "failed"}
  /\ CookieAfter(b, j) \in Maybe
  /\ job[j].answer = "rotated" => cookie'[b] # None /\ token[cookie'[b]].of = token[job[j].token].of
  /\ job[j].answer = "reuse" => token[job[j].token].of \in cause

LEMMA ArriveKeeps ==
  ASSUME IInv, NEW b \in Browsers, NEW j \in Refreshes(b), Arrive(b, j), job[j].pc = "done",
         UNCHANGED <<session, current, token>>
  PROVE  Arrived(b, j)
<1> DEFINE a == job[j].answer
           s == token[job[j].token].of
           k == CookieAfter(b, j)
<1>1. /\ job' = [job EXCEPT ![j] = Idle] /\ cookie' = [cookie EXCEPT ![b] = k]
      /\ cause' = IF a = "failed" THEN cause ELSE cause \cup (Overwritten(b) \ {s})
  BY DEF Arrive, Set
<1>2. /\ j \in Slots /\ job[j] \in Jobs /\ Refreshing(job[j], token) /\ cookie[b] \in Maybe
      /\ job[j].token \in DOMAIN token /\ job[j].token # None
      /\ cookie[b] # None => cookie[b] \in DOMAIN token
  BY RefreshIs, CookieIs
<1>3. a \in {"rotated", "reuse", "failed"}
  <2>1. job[j].kind \in {"none", "refresh"}
    BY SlotsAre DEF IInv, Served, KindsFit
  <2> QED  BY <1>2, <2>1, Now DEF Standing, RefreshStands
<1>4. CookieKept(b) /\ RefreshesKept(b)
  BY DEF IInv, Minded, Kept
<1>5. a = "reuse" => s \in cause
  BY <1>2, ReuseHadCause
<1>6. /\ a = "rotated" => k = job[j].next
      /\ a = "reuse" => k = None
      /\ a = "failed" => k = cookie[b]
  BY DEF CookieAfter
<1>7. k \in Maybe
  BY <1>2, <1>3, <1>6 DEF Jobs, Maybe
<1>8. a = "rotated" => /\ job[j].next \in DOMAIN token /\ job[j].next # None /\ token[job[j].next].of = s
                       /\ Spends(job[j])
  <2>1. \A t \in DOMAIN token : t # None
    BY NoneAssumption DEF IInv, Shapes, Tables
  <2> QED  BY <1>2, <2>1, RefreshIs DEF Refreshing
<1>9. \A c \in Browsers : cookie'[c] = IF c = b THEN k ELSE cookie[c]
  BY <1>1 DEF IInv, Shapes
<1>10. \A i \in Refreshes(b) : job'[i] = IF i = j THEN Idle ELSE job[i]
  BY <1>1, <1>2, SlotsAre DEF IInv, Shapes
<1>11. a # "failed" => cookie[b] = None \/ token[cookie[b]].of \in cause' \/ token[cookie[b]].of = s
  BY <1>1 DEF Overwritten
<1>12. cause \subseteq cause'
  BY <1>1
<1>13. ~Spends(Idle) /\ Idle.answer # "rotated"
  BY IdleStands, NoneAssumption DEF Spends
<1>14. a = "rotated" /\ s \notin cause => /\ cookie[b] = job[j].token /\ token[job[j].next].state = "issued"
                                          /\ \A i \in Refreshes(b) : i # j /\ Spends(job[i]) => job[i].token # cookie[b]
  BY <1>4, <1>8 DEF RefreshesKept
<1>15. a = job[j].answer /\ s = token[job[j].token].of /\ k = CookieAfter(b, j)
  OBVIOUS
<1> HIDE DEF a, s, k
<1>16. CookieKept(b)'
  <2> SUFFICES ASSUME k # None
               PROVE  /\ k \in DOMAIN token
                      /\ \/ token[k].of \in cause'
                         \/ token[k].state = "issued"
                         \/ \E i \in Refreshes(b) : job'[i].answer = "rotated" /\ job'[i].token = k
    BY <1>9 DEF CookieKept, Refreshes
  <2>1. CASE a = "rotated"
    BY <1>6, <1>8, <1>12, <1>14, <2>1
  <2>2. CASE a = "failed"
    <3>1. CASE token[k].of \in cause \/ token[k].state = "issued"
      BY <1>2, <1>6, <1>12, <2>2, <3>1
    <3>2. CASE \E i \in Refreshes(b) : job[i].answer = "rotated" /\ job[i].token = k
      BY <1>2, <1>6, <1>10, <1>15, <2>2, <3>2
    <3> QED  BY <1>4, <1>6, <2>2, <3>1, <3>2 DEF CookieKept
  <2> QED  BY <1>3, <1>6, <2>1, <2>2
<1>17. RefreshesKept(b)'
  <2> SUFFICES ASSUME NEW i \in Refreshes(b), Spends(job'[i]), token[job'[i].token].of \notin cause'
               PROVE  /\ k = job'[i].token
                      /\ job'[i].answer = "rotated" => token[job'[i].next].state = "issued"
                      /\ \A h \in Refreshes(b) : h # i /\ Spends(job'[h]) => job'[h].token # job'[i].token
    BY <1>9 DEF RefreshesKept, Refreshes, Spends
  <2>1. i # j /\ job'[i] = job[i] /\ token[job[i].token].of \notin cause
    BY <1>10, <1>12, <1>13
  <2>2. /\ cookie[b] = job[i].token /\ job[i].token # None
        /\ job[i].answer = "rotated" => token[job[i].next].state = "issued"
        /\ \A h \in Refreshes(b) : h # i /\ Spends(job[h]) => job[h].token # job[i].token
    BY <1>4, <2>1, RefreshIs DEF RefreshesKept, Spends
  <2>3. a = "failed"
    <3>1. a # "failed" => s \notin cause
      BY <1>11, <2>1, <2>2
    <3> QED  BY <1>3, <1>5, <1>14, <2>1, <2>2, <3>1
  <2>4. \A h \in Refreshes(b) : Spends(job'[h]) => job'[h] = job[h]
    BY <1>10, <1>13
  <2> QED  BY <1>6, <2>1, <2>2, <2>3, <2>4
<1>18. StaysWith(b)
  BY <1>3, <1>5, <1>6, <1>8, <1>9, <1>11, <1>12 DEF StaysWith
<1>19. Apart'
  <2>1. \A c \in Browsers : cookie'[c] # None /\ token[cookie'[c]].of \notin cause'
          => cookie[c] # None /\ token[cookie[c]].of = token[cookie'[c]].of
    <3> SUFFICES ASSUME cookie'[b] # None, token[cookie'[b]].of \notin cause'
                 PROVE  cookie[b] # None /\ token[cookie[b]].of = token[cookie'[b]].of
      BY <1>9
    <3> QED  BY <1>2, <1>3, <1>6, <1>8, <1>9, <1>12, <1>14, <1>15
  <2> QED  BY <1>12, <2>1 DEF IInv, Minded, Apart
<1>20. a = "rotated" => cookie'[b] # None /\ token[cookie'[b]].of = s
  BY <1>6, <1>8, <1>9
<1> QED  BY <1>3, <1>5, <1>7, <1>12, <1>15, <1>16, <1>17, <1>18, <1>19, <1>20 DEF Arrived, Kept

\* The other pages of the browser whose cookie is still of the same session.
LEMMA OthersStay ==
  ASSUME IInv, NEW p \in Pages, StaysWith(Home(p)), cause \subseteq cause', page'[p] = page[p],
         job'[Page(p)].pc = "idle" <=> job[Page(p)].pc = "idle", UNCHANGED <<session, current, token>>
  PROVE  PageKept(p)'
BY PageIs DEF PageKept, StaysWith, Page, Home

LEMMA AnsweredStep ==
  ASSUME IInv, NEW p \in Pages, Answered(p)
  PROVE  IInv'
<1> DEFINE b == Home(p)
           j == Page(p)
           q == job[j]
           w == [page[p] EXCEPT !.at = PageAfter(q.answer), !.of = IF q.answer = "rotated" THEN token[q.token].of ELSE page[p].of]
           k == CookieAfter(b, j)
<1>1. /\ q.pc = "done" /\ Arrive(b, j) /\ page' = [page EXCEPT ![p] = w] /\ UNCHANGED <<session, current, token>>
  BY DEF Answered
<1>2. b \in Browsers /\ j \in Refreshes(b) /\ j \in Asking /\ page[p] \in Places /\ PageKept(p) /\ j \in Slots
  BY SlotsAre, PageIs
<1>3. Arrived(b, j)
  BY <1>1, <1>2, ArriveKeeps
<1>4. q.token \in DOMAIN token
  BY <1>1, <1>2, RefreshIs
<1>5. token[q.token].of \in DOMAIN session /\ token[q.token].of \in Nat
  BY <1>4, TokensAre
<1>6. PageAfter(q.answer) = CASE q.answer = "rotated" -> "in" [] q.answer = "reuse" -> "out" [] q.answer = "failed" -> "waiting"
  BY DEF PageAfter
<1>7. /\ w \in Places /\ w.at = PageAfter(q.answer) /\ PageAfter(q.answer) \in {"in", "out", "waiting"}
      /\ w.of = IF q.answer = "rotated" THEN token[q.token].of ELSE page[p].of
  <2>1. PageAfter(q.answer) \in {"in", "out", "waiting"}
    BY <1>3, <1>6 DEF Arrived
  <2> QED  BY <1>2, <1>5, <2>1 DEF Places, Maybe
<1>8. Change(p, j, Idle, w, k) /\ TablesStand /\ k \in Maybe
  BY <1>1, <1>3 DEF Change, Arrive, Set, TablesStand, Arrived
<1>9. q = job[j] /\ j = Page(p) /\ b = Home(p)
  OBVIOUS
<1> HIDE DEF q, w, k, b, j
<1>10. Changed(p, j, Idle, w, k)
  BY <1>7, <1>8, IdleStands, ChangeIs
<1>11. ASSUME NEW r \in Pages, Home(r) = b
       PROVE  PageKept(r)'
  <2>1. CASE r # p
    <3>1. page'[r] = page[r] /\ job'[Page(r)] = job[Page(r)]
      BY <1>9, <1>10, <2>1, SlotsAre DEF Changed
    <3> QED  BY <1>1, <1>3, <1>11, <3>1, OthersStay DEF Arrived
  <2>2. CASE r = p
    <3>1. page'[p] = w /\ job'[Page(p)].pc = "idle"
      BY <1>2, <1>9, <1>10, IdleStands DEF Changed
    <3>2. w.at # "asking" /\ (w.at = "in" => w.of # None) /\ (w.of # None => w.of \in DOMAIN session)
      <4>1. CASE q.answer = "rotated"
        BY <1>5, <1>6, <1>7, <4>1, NoneAssumption
      <4>2. CASE q.answer # "rotated"
        <5>1. w.of = page[p].of /\ w.at \in {"out", "waiting"}
          BY <1>3, <1>6, <1>7, <1>9, <4>2 DEF Arrived
        <5> QED  BY <1>2, <5>1 DEF PageKept
      <4> QED  BY <4>1, <4>2
    <3>3. ASSUME w.of # None, w.of \notin cause'
          PROVE  w.at # "out" /\ cookie'[b] # None /\ token[cookie'[b]].of = w.of
      <4>1. CASE q.answer = "rotated"
        BY <1>3, <1>6, <1>7, <1>9, <4>1 DEF Arrived
      <4>2. CASE q.answer # "rotated"
        <5>1. /\ w.of = page[p].of /\ page[p].of \notin cause
              /\ cookie[b] # None /\ token[cookie[b]].of = page[p].of
          BY <1>2, <1>3, <1>7, <1>9, <3>3, <4>2 DEF PageKept, Arrived
        <5>2. cookie'[b] # None /\ token[cookie'[b]].of = w.of
          BY <1>3, <3>3, <5>1 DEF Arrived, StaysWith
        <5>3. w.at # "out"
          <6>1. q.answer = "reuse" => token[q.token].of \in cause /\ cookie'[b] = None
            BY <1>3, <1>8, <1>9, <1>10, <1>2 DEF Arrived, Changed, CookieAfter, k
          <6> QED  BY <1>3, <1>6, <1>7, <1>9, <4>2, <5>2, <6>1 DEF Arrived
        <5> QED  BY <5>2, <5>3
      <4> QED  BY <4>1, <4>2
    <3>4. PageKept(p)'
      BY <1>1, <1>9, <3>1, <3>2, <3>3 DEF PageKept, Page, Home
    <3> QED  BY <2>2, <3>4
  <2> QED  BY <2>1, <2>2
<1>12. Kept(Home(p))' /\ Apart'
  BY <1>3, <1>9 DEF Arrived
<1>13. IF j \in Asking THEN Idle.kind \in {"none", "refresh"} ELSE Idle.kind # "refresh"
  BY <1>2, IdleStands
<1>14. Idle.answer # "rotated" /\ Idle \in Jobs /\ Standing(Idle, session, token, cause')
  BY ONLY IdleStands, NoneAssumption
<1> QED  BY <1>7, <1>8, <1>9, <1>11, <1>12, <1>13, <1>14, PageStep

LEMMA LeftAnsweredStep ==
  ASSUME IInv, NEW p \in Pages, LeftAnswered(p)
  PROVE  IInv'
<1> DEFINE b == Home(p)
           j == Left(p)
           k == CookieAfter(b, j)
<1>1. /\ job[j].pc = "done" /\ Arrive(b, j) /\ UNCHANGED <<session, current, token, page>>
  BY DEF LeftAnswered
<1>2. b \in Browsers /\ j \in Refreshes(b) /\ j \in Asking /\ page[p] \in Places /\ j \in Slots
  BY SlotsAre, PageIs
<1>3. Arrived(b, j)
  BY <1>1, <1>2, ArriveKeeps
<1>4. Change(p, j, Idle, page[p], k) /\ TablesStand /\ k \in Maybe
  BY <1>1, <1>3 DEF Change, Arrive, Set, TablesStand, Arrived, IInv, Shapes
<1>5. j = Left(p) /\ b = Home(p)
  OBVIOUS
<1> HIDE DEF k, b, j
<1>6. Changed(p, j, Idle, page[p], k)
  BY <1>2, <1>4, IdleStands, ChangeIs
<1>7. ASSUME NEW r \in Pages, Home(r) = b
      PROVE  PageKept(r)'
  <2>1. page'[r] = page[r] /\ job'[Page(r)] = job[Page(r)]
    BY <1>1, <1>5, <1>6, SlotsAre DEF Changed
  <2> QED  BY <1>1, <1>3, <1>7, <2>1, OthersStay DEF Arrived
<1>8. Kept(Home(p))' /\ Apart'
  BY <1>3, <1>5 DEF Arrived
<1>9. IF j \in Asking THEN Idle.kind \in {"none", "refresh"} ELSE Idle.kind # "refresh"
  BY <1>2, IdleStands
<1>10. Idle.answer # "rotated" /\ Idle \in Jobs /\ Standing(Idle, session, token, cause')
  BY ONLY IdleStands, NoneAssumption
<1> QED  BY <1>2, <1>4, <1>5, <1>7, <1>8, <1>9, <1>10, PageStep

\* A browser without its cookie: what it had is displaced.
LEMMA Cleared ==
  ASSUME IInv, TablesStand, NEW p \in Pages, NEW j \in {Page(p), Out(p)}, NEW w \in Places,
         Change(p, j, Idle, w, None), Overwritten(Home(p)) \subseteq cause',
         w.of = page[p].of, w.at # "in", w.at = "asking" <=> j = Out(p) /\ page[p].at = "asking"
  PROVE  IInv'
<1> DEFINE b == Home(p)
<1>1. /\ b \in Browsers /\ PageKept(p) /\ j \in Slots /\ (j = Page(p) => j \in Asking)
      /\ Page(p) # Out(p) /\ None \in Maybe
  BY SlotsAre, PageIs DEF Maybe
<1>2. Idle \in Jobs /\ Idle.kind = "none" /\ Idle.pc = "idle" /\ Idle.answer # "rotated" /\ ~Spends(Idle)
      /\ Standing(Idle, session, token, cause')
  BY IdleStands, NoneAssumption DEF Spends
<1>3. cause \subseteq cause' /\ UNCHANGED <<session, current, token>>
  BY DEF TablesStand
<1>4. Displaced(b, cause')
  <2>1. cookie[b] # None => token[cookie[b]].of \in cause'
    BY DEF Overwritten
  <2> QED  BY <1>1, <1>3, <2>1, OverwrittenAll
<1>5. Changed(p, j, Idle, w, None)
  BY <1>1, <1>2, ChangeIs
<1>6. b = Home(p)
  OBVIOUS
<1> HIDE DEF b, Idle
<1>7. \A i \in Refreshes(b) : Spends(job'[i]) => job'[i] = job[i]
  BY <1>1, <1>2, <1>5, SlotsAre DEF Changed
<1>8. Kept(b)'
  <2>1. CookieKept(b)'
    BY <1>1, <1>5, <1>6 DEF CookieKept, Changed
  <2>2. RefreshesKept(b)'
    <3>1. \A i \in Refreshes(b) : Spends(job'[i]) => token'[job'[i].token].of \in cause'
      BY <1>3, <1>4, <1>7 DEF Displaced
    <3> QED  BY <3>1 DEF RefreshesKept, Refreshes, Spends
  <2> QED  BY <2>1, <2>2 DEF Kept
<1>9. Apart'
  <2>1. \A c \in Browsers : cookie'[c] # None => cookie[c] = cookie'[c]
    BY <1>5 DEF Changed
  <2> QED  BY <1>3, <2>1 DEF IInv, Minded, Apart
<1>10. ASSUME NEW r \in Pages, Home(r) = b
       PROVE  PageKept(r)'
  <2>1. page[r].of # None => page[r].of \in cause'
    BY <1>4, <1>10 DEF Displaced
  <2>2. /\ page'[r].of = page[r].of
        /\ page'[r].at = "in" => page'[r].of # None
        /\ page'[r].at = "asking" <=> job'[Page(r)].pc # "idle"
        /\ page[r].of # None => page[r].of \in DOMAIN session
    <3>1. PageKept(r) /\ Page(r) \in Slots /\ (r # p => Page(r) # j)
      <4>1. Out(p) # Page(r)
        BY OutIs
      <4> QED  BY <4>1, PageIs, SlotsAre
    <3>2. CASE r = p
      BY <1>1, <1>2, <1>5, <3>1, <3>2 DEF PageKept, Changed
    <3>3. CASE r # p
      BY <1>5, <3>1, <3>3 DEF PageKept, Changed
    <3> QED  BY <3>2, <3>3
  <2> QED  BY <1>3, <2>1, <2>2 DEF PageKept, Page, Home
<1>11. IF j \in Asking THEN Idle.kind \in {"none", "refresh"} ELSE Idle.kind # "refresh"
  BY <1>2
<1> QED  BY <1>1, <1>2, <1>6, <1>8, <1>9, <1>10, <1>11, PageStep

LEMMA LostStep ==
  ASSUME IInv, NEW p \in Pages, Lost(p)
  PROVE  IInv'
<1> DEFINE b == Home(p)
           j == Page(p)
           its == IF job[j].answer = "failed" THEN {} ELSE {token[job[j].token].of}
           w == [page[p] EXCEPT !.at = "waiting"]
           u == [page[p] EXCEPT !.at = "out"]
<1>1. /\ UNCHANGED <<session, current, token>> /\ job' = [job EXCEPT ![j] = Idle]
      /\ \/ page' = [page EXCEPT ![p] = w] /\ cause' = cause \cup its /\ UNCHANGED cookie
         \/ /\ page' = [page EXCEPT ![p] = u] /\ cookie' = [cookie EXCEPT ![b] = None]
            /\ cause' = cause \cup its \cup Overwritten(b)
  BY DEF Lost, Set
<1>2. TablesStand
  BY <1>1 DEF TablesStand
<1>3. /\ b \in Browsers /\ j \in Refreshes(b) /\ j \in Asking /\ j \in Slots /\ page[p] \in Places /\ PageKept(p)
      /\ CookieKept(b) /\ RefreshesKept(b) /\ cookie[b] \in Maybe /\ j # Out(p)
      /\ \A r \in Pages : r # p => Page(r) # j
  BY SlotsAre, PageIs, OutIs DEF Kept
<1>4. /\ w \in Places /\ w.at = "waiting" /\ w.of = page[p].of
      /\ u \in Places /\ u.at = "out" /\ u.of = page[p].of
  BY <1>3 DEF Places
<1>5. Idle \in Jobs /\ Idle.kind = "none" /\ Idle.pc = "idle" /\ Idle.answer # "rotated" /\ ~Spends(Idle)
      /\ Standing(Idle, session, token, cause')
  BY IdleStands, NoneAssumption DEF Spends
<1>6. b = Home(p) /\ j = Page(p) /\ (job[j].answer = "rotated" => token[job[j].token].of \in its)
  OBVIOUS
<1> HIDE DEF w, u, b, j, its, Idle
<1>7. CASE cookie' = [cookie EXCEPT ![b] = None] /\ page' = [page EXCEPT ![p] = u] /\ Overwritten(b) \subseteq cause'
  <2>1. Change(p, j, Idle, u, None)
    BY <1>1, <1>6, <1>7 DEF Change
  <2> QED  BY <1>2, <1>3, <1>4, <1>6, <1>7, <2>1, Cleared
<1>8. CASE page' = [page EXCEPT ![p] = w] /\ cause' = cause \cup its /\ UNCHANGED cookie
  <2>1. Change(p, j, Idle, w, cookie[b])
    BY <1>1, <1>3, <1>6, <1>8 DEF Change, IInv, Shapes
  <2>2. Changed(p, j, Idle, w, cookie[b])
    BY <1>3, <1>4, <1>5, <2>1, ChangeIs
  <2>3. \A i \in Refreshes(b) : job'[i] = IF i = j THEN Idle ELSE job[i]
    BY <1>3, <2>2, SlotsAre DEF Changed
  <2>4. Grown(session, token, cause, session', token', cause')
    BY <1>2 DEF TablesStand, Grown
  <2>5. CookieKept(b)'
    <3> SUFFICES ASSUME cookie[b] # None
                 PROVE  /\ cookie[b] \in DOMAIN token
                        /\ \/ token[cookie[b]].of \in cause'
                           \/ token[cookie[b]].state = "issued"
                           \/ \E i \in Refreshes(b) : job'[i].answer = "rotated" /\ job'[i].token = cookie[b]
      BY <1>1, <1>8 DEF CookieKept, Refreshes
    <3>1. CASE \E i \in Refreshes(b) : job[i].answer = "rotated" /\ job[i].token = cookie[b]
      <4>1. PICK i \in Refreshes(b) : job[i].answer = "rotated" /\ job[i].token = cookie[b]
        BY <3>1
      <4>2. CASE i = j
        BY <1>3, <1>6, <1>8, <4>1, <4>2 DEF CookieKept
      <4>3. CASE i # j
        BY <1>3, <2>3, <4>1, <4>3 DEF CookieKept
      <4> QED  BY <4>2, <4>3
    <3> QED  BY <1>3, <1>8, <3>1 DEF CookieKept
  <2>6. RefreshesKept(b)'
    <3> SUFFICES ASSUME NEW i \in Refreshes(b), Spends(job'[i]), token[job'[i].token].of \notin cause'
                 PROVE  /\ cookie[b] = job'[i].token
                        /\ job'[i].answer = "rotated" => token[job'[i].next].state = "issued"
                        /\ \A h \in Refreshes(b) : h # i /\ Spends(job'[h]) => job'[h].token # job'[i].token
      BY <1>1, <1>8 DEF RefreshesKept, Refreshes, Spends
    <3>1. job'[i] = job[i] /\ token[job[i].token].of \notin cause
      BY <1>5, <1>8, <2>3
    <3>2. \A h \in Refreshes(b) : Spends(job'[h]) => job'[h] = job[h]
      BY <1>5, <2>3
    <3> QED  BY <1>3, <3>1, <3>2 DEF RefreshesKept
  <2>7. ASSUME NEW r \in Pages
        PROVE  PageKept(r)'
    <3>1. CASE r = p
      <4>1. page'[p] = w /\ job'[j] = Idle /\ cookie'[b] = cookie[b]
        BY <1>3, <1>8, <2>2, <2>3 DEF Changed
      <4> QED  BY <1>1, <1>3, <1>4, <1>5, <1>6, <1>8, <3>1, <4>1 DEF PageKept, Page, Home
    <3>2. CASE r # p
      <4>1. page'[r] = page[r] /\ job'[Page(r)] = job[Page(r)] /\ cookie'[Home(r)] = cookie[Home(r)]
        BY <1>3, <1>8, <2>2, <3>2, SlotsAre DEF Changed
      <4> QED  BY <2>4, <4>1, PageKeptOn
    <3> QED  BY <3>1, <3>2
  <2>8. Apart'
    BY <1>8, <2>4, ApartOn
  <2>9. Kept(Home(p))'
    BY <1>6, <2>5, <2>6 DEF Kept
  <2>10. IF j \in Asking THEN Idle.kind \in {"none", "refresh"} ELSE Idle.kind # "refresh"
    BY <1>5
  <2> QED  BY <1>2, <1>3, <1>4, <1>5, <2>1, <2>7, <2>8, <2>9, <2>10, PageStep
<1> QED  BY <1>1, <1>7, <1>8

\* The page that is left hands its refresh on.
LEMMA LeaveStep ==
  ASSUME IInv, NEW p \in Pages, Leave(p)
  PROVE  IInv'
<1> DEFINE b == Home(p)
           j == Page(p)
           l == Left(p)
           w == [page[p] EXCEPT !.at = "waiting"]
<1>1. /\ UNCHANGED <<session, current, token, cookie, cause>> /\ page' = [page EXCEPT ![p] = w]
      /\ job' = [job EXCEPT ![l] = job[j], ![j] = Idle] /\ job[l].pc = "idle"
  BY DEF Leave
<1>2. TablesStand /\ Grown(session, token, cause, session', token', cause') /\ \A c \in Browsers : Undisturbed(c)
  BY <1>1 DEF TablesStand, Grown, Undisturbed
<1>3. /\ b \in Browsers /\ page[p] \in Places /\ PageKept(p) /\ CookieKept(b) /\ RefreshesKept(b)
      /\ j \in Refreshes(b) /\ l \in Refreshes(b) /\ j \in Asking /\ l \in Asking /\ j \in Slots /\ l \in Slots /\ j # l
      /\ \A r \in Pages : r # p => Page(r) # j /\ Page(r) # l
  BY SlotsAre, PageIs DEF Kept
<1>4. w \in Places /\ w.at = "waiting" /\ w.of = page[p].of
  BY <1>3 DEF Places
<1>5. Idle \in Jobs /\ Idle.kind = "none" /\ Idle.pc = "idle" /\ Idle.answer # "rotated" /\ ~Spends(Idle)
      /\ Standing(Idle, session, token, cause')
  BY IdleStands, NoneAssumption DEF Spends
<1>6. b = Home(p) /\ j = Page(p) /\ l = Left(p)
  OBVIOUS
<1> HIDE DEF w, b, j, l, Idle
<1>7. \A i \in Slots : job'[i] = IF i = j THEN Idle ELSE IF i = l THEN job[j] ELSE job[i]
  BY <1>1, <1>3 DEF IInv, Shapes
<1>8. /\ job' \in [Slots -> Jobs] /\ page' \in [Pages -> Places] /\ page'[p] = w
      /\ \A r \in Pages : r # p => page'[r] = page[r]
  BY <1>1, <1>3, <1>4, <1>5 DEF IInv, Shapes
<1>9. Shapes' /\ LineageAgrees' /\ Quiet'
  BY <1>1, <1>8 DEF IInv, Shapes, LineageAgrees, Live, Minded, Quiet
<1>10. Served'
  <2>1. KindsFit'
    BY <1>3, <1>5, <1>7 DEF IInv, Served, KindsFit
  <2>2. OneTrade'
    BY <1>3, <1>5, <1>7 DEF IInv, Served, OneTrade
  <2>3. \A i \in Slots : Standing(job'[i], session', token', cause')
    BY <1>1, <1>2, <1>3, <1>5, <1>7, StillStanding
  <2> QED  BY <2>1, <2>2, <2>3 DEF Served
<1>11. \A i \in Refreshes(b) : i \in Slots /\ job'[i] = IF i = j THEN Idle ELSE IF i = l THEN job[j] ELSE job[i]
  BY <1>3, <1>7, SlotsAre
<1>12. CookieKept(b)'
  <2> SUFFICES ASSUME cookie[b] # None
               PROVE  /\ cookie[b] \in DOMAIN token
                      /\ \/ token[cookie[b]].of \in cause
                         \/ token[cookie[b]].state = "issued"
                         \/ \E i \in Refreshes(b) : job'[i].answer = "rotated" /\ job'[i].token = cookie[b]
    BY <1>1 DEF CookieKept, Refreshes
  <2>1. CASE \E i \in Refreshes(b) : job[i].answer = "rotated" /\ job[i].token = cookie[b]
    <3>1. PICK i \in Refreshes(b) : job[i].answer = "rotated" /\ job[i].token = cookie[b]
      BY <2>1
    <3>2. i # l
      BY <1>1, <1>3, <3>1, RefreshIs DEF Refreshing
    <3>3. CASE i = j
      BY <1>3, <1>11, <3>1, <3>3 DEF CookieKept
    <3>4. CASE i # j
      BY <1>3, <1>11, <3>1, <3>2, <3>4 DEF CookieKept
    <3> QED  BY <3>3, <3>4
  <2> QED  BY <1>3, <2>1 DEF CookieKept
<1>13. token' = token /\ cookie' = cookie /\ cause' = cause
  BY <1>1
<1>14. RefreshesKept(b)'
  <2> SUFFICES ASSUME NEW i \in Refreshes(b), Spends(job'[i]), token[job'[i].token].of \notin cause
               PROVE  /\ cookie[b] = job'[i].token
                      /\ job'[i].answer = "rotated" => token[job'[i].next].state = "issued"
                      /\ \A h \in Refreshes(b) : h # i /\ Spends(job'[h]) => job'[h].token # job'[i].token
    BY <1>13 DEF RefreshesKept, Refreshes, Spends
  <2>1. \A h \in Refreshes(b) : Spends(job'[h]) =>
           h # j /\ \E g \in Refreshes(b) : g = (IF h = l THEN j ELSE h) /\ job'[h] = job[g]
    BY <1>3, <1>5, <1>11
  <2>2. PICK g \in Refreshes(b) : g = (IF i = l THEN j ELSE i) /\ job'[i] = job[g]
    BY <2>1
  <2>3. /\ cookie[b] = job[g].token
        /\ job[g].answer = "rotated" => token[job[g].next].state = "issued"
        /\ \A h \in Refreshes(b) : h # g /\ Spends(job[h]) => job[h].token # job[g].token
    BY <1>3, <2>2 DEF RefreshesKept
  <2>4. ASSUME NEW h \in Refreshes(b), h # i, Spends(job'[h])
        PROVE  job'[h].token # job'[i].token
    <3>1. PICK f \in Refreshes(b) : f = (IF h = l THEN j ELSE h) /\ job'[h] = job[f]
      BY <2>1, <2>4
    <3>2. f # g
      BY <2>1, <2>2, <2>4, <3>1
    <3> QED  BY <2>2, <2>3, <2>4, <3>1, <3>2
  <2> QED  BY <2>2, <2>3, <2>4
<1>15. ASSUME NEW c \in Browsers
       PROVE  Kept(c)'
  <2>1. CASE c = b
    BY <1>12, <1>14, <2>1 DEF Kept
  <2>2. CASE c # b
    <3>1. \A i \in Refreshes(c) : job'[i] = job[i]
      BY <1>3, <1>7, <2>2, SlotsAre
    <3>2. \A i \in Refreshes(c) : Like(job[i], job'[i])
      BY <3>1 DEF Like
    <3> QED  BY <1>1, <1>2, <3>2, KeptOn
  <2> QED  BY <2>1, <2>2
<1>16. ASSUME NEW r \in Pages
       PROVE  PageKept(r)'
  <2>1. CASE r = p
    <3>1. job'[j] = Idle
      BY <1>3, <1>7
    <3> QED  BY <1>1, <1>3, <1>4, <1>5, <1>6, <1>8, <2>1, <3>1 DEF PageKept, Page, Home
  <2>2. CASE r # p
    <3>1. page'[r] = page[r] /\ job'[Page(r)] = job[Page(r)]
      BY <1>3, <1>7, <1>8, <2>2, SlotsAre
    <3> QED  BY <1>1, <1>2, <3>1, PageKeptOn
  <2> QED  BY <2>1, <2>2
<1>17. Apart'
  BY <1>1, <1>2, ApartOn
<1> QED  BY <1>9, <1>10, <1>15, <1>16, <1>17 DEF IInv, Minded

LEMMA LoggedOutStep ==
  ASSUME IInv, NEW p \in Pages, LoggedOut(p)
  PROVE  IInv'
<1> DEFINE b == Home(p)
           w == [page[p] EXCEPT !.at = IF page[p].at = "in" THEN "out" ELSE page[p].at]
<1>1. /\ UNCHANGED <<session, current, token>> /\ job' = [job EXCEPT ![Out(p)] = Idle]
      /\ IF job[Out(p)].kind = "one"
         THEN /\ page' = [page EXCEPT ![p] = w] /\ cookie' = [cookie EXCEPT ![b] = None]
              /\ cause' = cause \cup Overwritten(b)
         ELSE UNCHANGED <<cookie, page, cause>>
  BY DEF LoggedOut, Set
<1>2. TablesStand
  BY <1>1 DEF TablesStand
<1>3. CASE job[Out(p)].kind = "one"
  <2>1. w \in Places /\ w.of = page[p].of /\ w.at = IF page[p].at = "in" THEN "out" ELSE page[p].at
    BY PageIs DEF Places
  <2>2. b = Home(p)
    OBVIOUS
  <2> HIDE DEF w, b
  <2>3. Change(p, Out(p), Idle, w, None)
    BY <1>1, <1>3, <2>2 DEF Change
  <2> QED  BY <1>1, <1>2, <1>3, <2>1, <2>2, <2>3, Cleared
<1>4. CASE job[Out(p)].kind # "one"
  <2>1. Idle \in Jobs /\ Idle.kind # "refresh" /\ Idle.answer # "rotated" /\ Standing(Idle, session, token, cause')
    BY IdleStands, NoneAssumption
  <2> HIDE DEF Idle
  <2> QED  BY <1>1, <1>2, <1>4, <2>1, OutIs, Aside
<1> QED  BY <1>3, <1>4

\* Somebody asks for the end of the sessions of X: not through a job of a page.
LEMMA AskedStep ==
  ASSUME IInv, NEW j \in Slots \ Asking,
         NEW kind \in {"one", "all"}, NEW X \in SUBSET DOMAIN session,
         job[j].pc = "idle", Asked(j, kind, X), cause' = cause \cup X,
         UNCHANGED <<session, current, token, cookie, page>>
  PROVE  IInv'
<1> DEFINE l == {s \in X : Live(s)}
           r == Revocation(j, X)
           q == [r EXCEPT !.kind = kind]
<1>1. job[j] \in Jobs /\ job[j].answer = None
  BY Now DEF Standing, RefreshStands
<1>2. X \in SUBSET Nat /\ l \in SUBSET Nat /\ l \subseteq X
  BY Now
<1>3. job' = [job EXCEPT ![j] = q] /\ TablesStand
  BY DEF Asked, Set, TablesStand
<1>4. r = [job[j] EXCEPT !.pc = "sessions", !.scope = X, !.held = {}, !.todo = l, !.aim = l]
  BY DEF Revocation
<1>5. \A s \in l : s \in X
  OBVIOUS
<1> HIDE DEF l, r
<1>6. /\ r \in Jobs /\ r.pc = "sessions" /\ r.answer = None
      /\ r.scope = X /\ r.aim = l /\ r.todo = l /\ r.held = {}
  BY <1>1, <1>2, <1>4 DEF Jobs
<1>7. /\ q \in Jobs /\ q.pc = "sessions" /\ q.answer = None /\ q.kind = kind
      /\ q.scope = X /\ q.aim = l /\ q.todo = l /\ q.held = {}
  BY <1>6 DEF Jobs
<1> HIDE DEF q
<1>8. Standing(q, session, token, cause')
  BY <1>2, <1>7, NoneAssumption DEF Standing, RefreshStands, RevocationStands
<1>9. q.kind # "refresh" /\ q.answer # "rotated"
  BY <1>7, NoneAssumption
<1> QED  BY <1>3, <1>7, <1>8, <1>9, Aside

LEMMA LogOutStep ==
  ASSUME IInv, NEW p \in Pages, NEW kind \in {"one", "all"}, LogOut(p, kind)
  PROVE  IInv'
<1> DEFINE s == page[p].of
           X == IF kind = "one" THEN {s} ELSE DOMAIN session
           q == [Idle EXCEPT !.kind = kind, !.pc = "done", !.answer = "failed"]
<1>1. /\ job[Out(p)].pc = "idle" /\ cause' = cause \cup X /\ UNCHANGED <<session, current, token, cookie, page>>
      /\ Asked(Out(p), kind, X) \/ Set(Out(p), q)
  BY DEF LogOut
<1>2. s \in DOMAIN session
  BY PageIs DEF LogOut, PageKept
<1>3. X \in SUBSET DOMAIN session
  BY <1>2
<1>4. Out(p) \in Slots \ Asking
  BY SlotsAre
<1>5. CASE Asked(Out(p), kind, X)
  <2> HIDE DEF s, X, q
  <2> QED  BY <1>1, <1>3, <1>4, <1>5, AskedStep
<1>6. CASE Set(Out(p), q)
  <2>1. job' = [job EXCEPT ![Out(p)] = q] /\ TablesStand
    BY <1>1, <1>6 DEF Set, TablesStand
  <2>2. q \in Jobs /\ q.kind = kind /\ q.pc = "done" /\ q.answer = "failed" /\ q.scope = {} /\ q.aim = {}
    BY DEF Idle, Jobs, Maybe
  <2> HIDE DEF q
  <2>3. Standing(q, session, token, cause')
    BY <2>2, NoneAssumption DEF Standing, RefreshStands, RevocationStands
  <2> QED  BY <1>1, <1>4, <2>1, <2>2, <2>3, Aside
<1> QED  BY <1>1, <1>5, <1>6

LEMMA ResetPasswordStep ==
  ASSUME IInv, ResetPassword
  PROVE  IInv'
BY SlotsAre, AskedStep DEF ResetPassword

LEMMA LogInStep ==
  ASSUME IInv, NEW p \in Pages, LogIn(p)
  PROVE  IInv'
<1> DEFINE s == Len(session) + 1
           t == Len(token) + 1
           w == [at |-> "in", of |-> s]
           b == Home(p)
           j == <<None, "reset">>
<1>1. /\ session' = Append(session, "active") /\ current' = Append(current, t)
      /\ token' = Append(token, [of |-> s, state |-> "issued"])
      /\ cookie' = [cookie EXCEPT ![b] = t] /\ page' = [page EXCEPT ![p] = w]
      /\ cause' = cause \cup Overwritten(b) /\ UNCHANGED job /\ page[p].at = "out"
  BY DEF LogIn
<1>2. session \in Seq(SessionStates) /\ current \in Seq(Nat) /\ Len(current) = Len(session) /\ token \in Seq(Tokens)
  BY DEF IInv, Shapes, Tables
<1>3. s \in Nat /\ t \in Nat /\ s \notin DOMAIN session /\ t \notin DOMAIN token
  BY <1>2
<1>4. /\ DOMAIN session' = DOMAIN session \cup {s} /\ DOMAIN token' = DOMAIN token \cup {t}
      /\ session'[s] = "active" /\ current'[s] = t /\ token'[t] = [of |-> s, state |-> "issued"]
      /\ \A x \in DOMAIN session : session'[x] = session[x] /\ current'[x] = current[x]
      /\ \A x \in DOMAIN token : token'[x] = token[x]
  BY <1>1, <1>2
<1>5. Tables(session', current', token')
  <2>1. session' \in Seq(SessionStates) /\ current' \in Seq(Nat) /\ Len(current') = Len(session')
    BY <1>1, <1>2, <1>3 DEF SessionStates
  <2>2. [of |-> s, state |-> "issued"] \in Tokens
    BY <1>3 DEF Tokens
  <2>3. token' \in Seq(Tokens)
    BY <1>1, <1>2, <2>2
  <2>4. \A x \in DOMAIN token' : token'[x].of \in DOMAIN session'
    BY <1>4, Now, SlotsAre
  <2> QED  BY <2>1, <2>3, <2>4 DEF Tables
<1>6. /\ w \in Places /\ w.at = "in" /\ w.of = s
      /\ b \in Browsers /\ PageKept(p)
  BY <1>3, PageIs DEF Places, Maybe
<1>7. /\ cookie' \in [Browsers -> Maybe] /\ page' \in [Pages -> Places]
      /\ \A c \in Browsers : cookie'[c] = IF c = b THEN t ELSE cookie[c]
      /\ \A r \in Pages : page'[r] = IF r = p THEN w ELSE page[r]
  BY <1>1, <1>3, <1>6 DEF IInv, Shapes, Maybe
<1>8. b = Home(p)
  OBVIOUS
<1> HIDE DEF s, t, w, b
<1>9. Grown(session, token, cause, session', token', cause')
  BY <1>1, <1>4 DEF Grown
<1>10. ASSUME NEW k \in Slots
       PROVE  Unissued(job[k], token, token')
  BY <1>3, <1>4, Now DEF Unissued, Standing, RevocationStands
<1>11. Shapes' /\ Served'
  <2>1. j \in Slots /\ job' = [job EXCEPT ![j] = job[j]]
    BY <1>1, SlotsAre DEF IInv, Shapes
  <2>2. job[j] \in Jobs /\ Standing(job[j], session', token', cause')
    <3>1. job[j] \in Jobs /\ Standing(job[j], session, token, cause) /\ \A x \in DOMAIN token : token[x].of \in DOMAIN session
      BY <2>1, Now
    <3>2. Unissued(job[j], token, token')
      BY <2>1, <1>10
    <3> HIDE DEF j
    <3> QED  BY <1>9, <3>1, <3>2, StandsOn
  <2>3. OneTrade'
    BY <1>1 DEF IInv, Served, OneTrade
  <2> HIDE DEF j
  <2> QED  BY <1>5, <1>7, <1>9, <1>10, <2>1, <2>2, <2>3, OthersStand
<1>12. LineageAgrees'
  <2>1. ASSUME NEW x \in DOMAIN token', token'[x].state = "issued"
        PROVE  session'[token'[x].of] \in {"active", "expired"} /\ current'[token'[x].of] = x
    <3>1. CASE x = t
      BY <1>4, <3>1
    <3>2. CASE x # t
      <4>1. x \in DOMAIN token /\ token'[x] = token[x] /\ token[x].of \in DOMAIN session
        BY <1>4, <2>1, <3>2, TokensAre
      <4> QED  BY <1>4, <2>1, <4>1 DEF IInv, LineageAgrees, Live
    <3> QED  BY <3>1, <3>2
  <2> QED  BY <2>1 DEF LineageAgrees, Live
<1>13. t # None /\ s # None
  BY <1>3, NoneAssumption
<1>14. Quiet'
  BY <1>1, <1>4 DEF IInv, Minded, Quiet
<1>15. Displaced(b, cause')
  <2>1. cookie[b] # None => token[cookie[b]].of \in cause'
    BY <1>1 DEF Overwritten
  <2> QED  BY <1>1, <1>6, <2>1, OverwrittenAll
<1>16. \A c \in Browsers : cookie[c] # None => cookie[c] \in DOMAIN token /\ token[cookie[c]].of \in DOMAIN session
  BY CookieIs
<1>17. ASSUME NEW c \in Browsers
       PROVE  Kept(c)'
  <2>1. CASE c # b
    <3>1. Undisturbed(c) /\ \A i \in Refreshes(c) : Like(job[i], job'[i])
      BY <1>1, <1>4 DEF Undisturbed, Like
    <3> QED  BY <1>7, <1>9, <2>1, <3>1, KeptOn
  <2>2. CASE c = b
    <3>1. CookieKept(b)'
      BY <1>4, <1>6, <1>7 DEF CookieKept
    <3>2. \A i \in Refreshes(b) : Spends(job[i]) => token'[job[i].token].of \in cause'
      <4>1. \A i \in Refreshes(b) : Spends(job[i]) => job[i].token \in DOMAIN token
        BY <1>6, RefreshIs DEF Spends
      <4> QED  BY <1>4, <1>15, <4>1 DEF Displaced
    <3>3. RefreshesKept(b)'
      <4>1. job' = job
        BY <1>1
      <4> QED  BY <3>2, <4>1 DEF RefreshesKept, Refreshes, Spends
    <3> QED  BY <2>2, <3>1, <3>3 DEF Kept
  <2> QED  BY <2>1, <2>2
<1>18. ASSUME NEW r \in Pages
       PROVE  PageKept(r)'
  <2>1. PageKept(r) /\ job'[Page(r)] = job[Page(r)]
    BY <1>1, PageIs
  <2>2. CASE r = p
    <3>1. page'[p] = w /\ cookie'[b] = t /\ job'[Page(p)].pc = "idle"
      <4>1. job[Page(p)].pc = "idle"
        BY <1>1, <1>6 DEF PageKept
      <4> QED  BY <1>6, <1>7, <2>1, <2>2, <4>1
    <3> QED  BY <1>4, <1>6, <1>8, <1>13, <2>2, <3>1 DEF PageKept, Page, Home
  <2>3. CASE r # p /\ Home(r) = b
    <3>1. page'[r] = page[r] /\ (page[r].of # None => page[r].of \in cause')
      BY <1>7, <1>15, <2>3 DEF Displaced
    <3> QED  BY <1>4, <2>1, <3>1 DEF PageKept, Page, Home
  <2>4. CASE r # p /\ Home(r) # b
    <3>1. page'[r] = page[r] /\ cookie'[Home(r)] = cookie[Home(r)]
      BY <1>7, <2>4, PageIs
    <3> QED  BY <1>9, <2>1, <3>1, PageKeptOn
  <2> QED  BY <2>2, <2>3, <2>4
<1>19. Apart'
  <2>1. \A c \in Browsers : c # b /\ cookie'[c] # None =>
           /\ cookie'[c] = cookie[c] /\ token'[cookie'[c]].of = token[cookie[c]].of
           /\ token[cookie[c]].of # s
    BY <1>3, <1>4, <1>7, <1>16
  <2>2. token'[cookie'[b]].of = s
    BY <1>4, <1>6, <1>7
  <2>3. cause \subseteq cause'
    BY <1>1
  <2>4. ASSUME NEW c \in Browsers, NEW d \in Browsers, c # d, cookie'[c] # None, cookie'[d] # None,
               token'[cookie'[c]].of = token'[cookie'[d]].of
        PROVE  token'[cookie'[c]].of \in cause'
    <3>1. c # b /\ d # b
      BY <2>1, <2>2, <2>4
    <3> QED  BY <2>1, <2>3, <2>4, <3>1 DEF IInv, Minded, Apart
  <2> QED  BY <2>4 DEF Apart
<1> QED  BY <1>11, <1>12, <1>14, <1>17, <1>18, <1>19 DEF IInv, Minded

LEMMA ExpireStep ==
  ASSUME IInv, NEW x \in DOMAIN session, Expire(x)
  PROVE  IInv'
<1> DEFINE j == <<None, "reset">>
<1>1. /\ session[x] = "active" /\ session' = [session EXCEPT ![x] = "expired"] /\ cause' = cause \cup {x}
      /\ UNCHANGED <<current, token, cookie, page, job>>
  BY DEF Expire
<1>2. DOMAIN session' = DOMAIN session /\ \A s \in DOMAIN session : session'[s] = IF s = x THEN "expired" ELSE session[s]
  BY <1>1
<1>3. Tables(session', current', token')
  <2>1. session \in Seq(SessionStates) /\ "expired" \in SessionStates
    BY DEF IInv, Shapes, Tables, SessionStates
  <2>2. session' \in Seq(SessionStates) /\ Len(session') = Len(session)
    BY <1>1, <2>1
  <2> QED  BY <1>1, <2>2, <1>2 DEF IInv, Shapes, Tables
<1>4. Grown(session, token, cause, session', token', cause')
  BY <1>1, <1>2 DEF Grown
<1>5. \A k \in Slots : Unissued(job[k], token, token')
  BY <1>1 DEF Unissued
<1>6. Shapes' /\ Served'
  <2>1. j \in Slots /\ job' = [job EXCEPT ![j] = job[j]]
    BY <1>1, SlotsAre DEF IInv, Shapes
  <2>2. job[j] \in Jobs /\ Standing(job[j], session', token', cause')
    <3>1. job[j] \in Jobs /\ Standing(job[j], session, token, cause) /\ \A t \in DOMAIN token : token[t].of \in DOMAIN session
      BY <2>1, Now
    <3>2. Unissued(job[j], token, token')
      BY <2>1, <1>5
    <3> HIDE DEF j
    <3> QED  BY <1>4, <3>1, <3>2, StandsOn
  <2>3. OneTrade' /\ cookie' \in [Browsers -> Maybe] /\ page' \in [Pages -> Places]
    BY <1>1 DEF IInv, Shapes, Served, OneTrade
  <2> HIDE DEF j
  <2> QED  BY <1>3, <1>4, <1>5, <2>1, <2>2, <2>3, OthersStand
<1>7. LineageAgrees'
  BY <1>1, <1>2, TokensAre DEF IInv, LineageAgrees, Live
<1>8. Quiet'
  BY <1>1, <1>2 DEF IInv, Minded, Quiet
<1>9. ASSUME NEW c \in Browsers
      PROVE  Kept(c)'
  <2>1. Undisturbed(c) /\ cookie'[c] = cookie[c] /\ \A i \in Refreshes(c) : Like(job[i], job'[i])
    BY <1>1 DEF Undisturbed, Like
  <2> QED  BY <1>4, <2>1, KeptOn
<1>10. ASSUME NEW r \in Pages
       PROVE  PageKept(r)'
  BY <1>1, <1>4, PageKeptOn
<1>11. Apart'
  BY <1>1, <1>4, ApartOn
<1> QED  BY <1>6, <1>7, <1>8, <1>9, <1>10, <1>11 DEF IInv, Minded

-----------------------------------------------------------------------------
(* The theorems *)

LEMMA Started == Init => IInv
<1> SUFFICES ASSUME Init
             PROVE  IInv
  OBVIOUS
<1> DEFINE first == CHOOSE p \in Pages : TRUE
<1>1. /\ session = <<"active">> /\ current = <<1>> /\ token = <<[of |-> 1, state |-> "issued"]>>
      /\ job = [j \in Slots |-> Idle] /\ cause = {}
      /\ cookie = [b \in Browsers |-> IF b = Home(first) THEN 1 ELSE None]
      /\ page = [p \in Pages |-> IF p = first THEN [at |-> "in", of |-> 1] ELSE [at |-> "out", of |-> None]]
  BY DEF Init
<1> HIDE DEF first
<1>2. /\ DOMAIN session = {1} /\ DOMAIN token = {1} /\ token[1].of = 1 /\ token[1].state = "issued" /\ session[1] = "active"
      /\ current[1] = 1
  BY <1>1
<1>3. Tables(session, current, token)
  <2>1. "active" \in SessionStates /\ [of |-> 1, state |-> "issued"] \in Tokens
    BY DEF SessionStates, Tokens
  <2>2. session \in Seq(SessionStates) /\ current \in Seq(Nat) /\ token \in Seq(Tokens) /\ Len(current) = Len(session)
    BY <1>1, <2>1
  <2> QED  BY <1>2, <2>2 DEF Tables
<1>4. \A j \in Slots : job[j] = Idle
  BY <1>1
<1>5. job \in [Slots -> Jobs] /\ cookie \in [Browsers -> Maybe] /\ page \in [Pages -> Places]
  <2>1. job \in [Slots -> Jobs]
    BY <1>1, IdleStands
  <2>2. cookie \in [Browsers -> Maybe] /\ page \in [Pages -> Places]
    BY <1>1 DEF Places, Maybe
  <2> QED  BY <2>1, <2>2
<1>6. Served
  <2>1. KindsFit
    BY <1>4, IdleStands, SlotsAre DEF KindsFit
  <2> QED  BY <1>4, <2>1, IdleStands, NoneAssumption DEF Served, OneTrade
<1>7. LineageAgrees
  BY <1>2 DEF LineageAgrees, Live
<1>8. ASSUME NEW b \in Browsers
      PROVE  Kept(b)
  <2>1. cookie[b] # None => cookie[b] = 1
    BY <1>1
  <2>2. \A i \in Refreshes(b) : ~Spends(job[i])
    BY <1>4, IdleStands, SlotsAre DEF Spends
  <2> QED  BY <1>2, <2>1, <2>2 DEF Kept, CookieKept, RefreshesKept
<1>9. ASSUME NEW p \in Pages
      PROVE  PageKept(p)
  <2>1. job[Page(p)].pc = "idle" /\ Home(p) \in Browsers
    BY <1>4, IdleStands, SlotsAre
  <2>2. CASE p = first
    <3>1. page[p].at = "in" /\ page[p].of = 1 /\ cookie[Home(p)] = 1
      BY <1>1, <2>1, <2>2
    <3> QED  BY <1>2, <2>1, <3>1, NoneAssumption DEF PageKept
  <2>3. CASE p # first
    <3>1. page[p].at = "out" /\ page[p].of = None
      BY <1>1, <2>3
    <3> QED  BY <2>1, <3>1 DEF PageKept
  <2> QED  BY <2>2, <2>3
<1>10. Apart /\ Quiet
  <2>1. \A b, c \in Browsers : b # c => cookie[b] = None \/ cookie[c] = None
    BY <1>1
  <2> QED  BY <1>2, <2>1 DEF Apart, Quiet
<1> QED  BY <1>3, <1>5, <1>6, <1>7, <1>8, <1>9, <1>10 DEF IInv, Shapes, Minded

LEMMA Stepped == IInv /\ [Next]_vars => IInv'
<1> SUFFICES ASSUME IInv, [Next]_vars
             PROVE  IInv'
  OBVIOUS
<1>1. ASSUME NEW j \in Slots, Serve(j) \/ Die(j)
      PROVE  IInv'
  BY <1>1, TakeTokenStep, RotateStep, LockRowStep, NextStatementStep, CommitStep, VictimStep, DieStep DEF Serve
<1>2. ASSUME NEW p \in Pages, Show(p) \/ Open(p) \/ Ask(p) \/ Refused(p) \/ Lost(p) \/ Leave(p) \/ LogIn(p)
      PROVE  IInv'
  BY <1>2, AnsweredStep, LeftAnsweredStep, LoggedOutStep, OpenStep, AskStep, RefusedStep, LostStep, LeaveStep, LogInStep
     DEF Show
<1>3. ASSUME NEW p \in Pages, NEW kind \in {"one", "all"}, LogOut(p, kind)
      PROVE  IInv'
  BY <1>3, LogOutStep
<1>4. CASE UNCHANGED vars
  <2>1. UNCHANGED <<session, current, token, cookie, page, job, cause>>
    BY <1>4 DEF vars
  <2>2. \A k \in Slots : Standing(job'[k], session, token, cause')
    BY <2>1 DEF IInv, Served
  <2> QED  BY <2>1, <2>2, StandsStill DEF TablesStand, IInv, Shapes, Served, KindsFit, OneTrade, Like
<1> QED  BY <1>1, <1>2, <1>3, <1>4, ResetPasswordStep, ExpireStep DEF Next

\* The inductive invariant of the sessions (auth.service.ts, client.ts and the
\* refresh route): what a request has locked it still knows when it commits,
\* and a session without a cause to end has its one live token in the cookie,
\* or in the answer to the one refresh, of all its pages, that was sent it.
THEOREM SessionsHold == Spec => []IInv
BY Started, Stepped, PTL DEF Spec

\* A token that may still be traded belongs to a session that was not revoked
\* and is the one that session names (refresh, revokeSession, logoutAll).
THEOREM OneLiveToken == Spec => []LineageAgrees
<1>1. IInv => LineageAgrees
  BY DEF IInv
<1> QED  BY <1>1, SessionsHold, PTL

\* No token is traded twice, and who is told that sessions are over finds them
\* over (the revocation of a reuse, logout, logoutAll, resetPassword).
THEOREM ToldTheTruth == Spec => []AnswersAreTrue
<1>1. IInv => AnswersAreTrue
  BY DEF IInv, Served, OneTrade, Standing, RefreshStands, RevocationStands, AnswersAreTrue
<1> QED  BY <1>1, SessionsHold, PTL

\* However many tabs share the cookie, no rate limit, outage, deadlock victim,
\* retry or page that is opened ends a session or signs a page out, unless the
\* session has a cause; that its token was sent twice, by two pages that know
\* nothing of each other, is one (refreshSession and its refreshing, POST of the
\* refresh route, refresh).
THEOREM NoneEndsUncaused == Spec => []EndsForCause
<1>1. IInv => EndsForCause
  BY DEF IInv, Minded, Quiet, PageKept, EndsForCause
<1> QED  BY <1>1, SessionsHold, PTL

=============================================================================
