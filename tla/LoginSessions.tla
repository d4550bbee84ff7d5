---------------------------- MODULE LoginSessions ----------------------------
(***************************************************************************)
(* Sessions and their refresh tokens (auth.service.ts), driven by browsers *)
(* through the web server (app/api/auth/refresh/route.ts, lib/client.ts).  *)
(* A refresh consumes the token it is given and issues its successor; a    *)
(* token that comes back ends its session, in a transaction of its own.    *)
(* Logout, logout everywhere and a password reset lock the sessions first  *)
(* and their tokens second, a refresh its token first: PostgreSQL aborts   *)
(* one of two transactions that wait for each other.                       *)
(*                                                                         *)
(* The pages of a browser, its tabs, share one refresh cookie and nothing  *)
(* else: each shares a refresh among its own callers only.  A request is a *)
(* job in one of the slots of its page: the page's own refresh, one left   *)
(* in flight by the page that was there before, and a logout.              *)
(* One user; passwords, rate-limit counters and the audit rows are left    *)
(* out, and so is the family, which names exactly one session.             *)
(***************************************************************************)
EXTENDS Integers, FiniteSets, Sequences, FiniteSetsExt

CONSTANTS
  Browsers,
  Tabs,
  MaxSessions,  \* sessions ever opened
  MaxTokens,    \* pages are opened and ask by themselves while fewer tokens were issued
  MaxFaults,    \* refusals, deaths, lost answers and closed pages
  MaxEnds,      \* logouts and resets ever asked for
  None

\* What is absent is no token, no session and no answer.
ASSUME NoneAssumption == None \notin Nat /\ None \notin {"rotated", "reuse", "revoked", "failed"}

VARIABLES
  session,      \* sequence of "active", "expired" (still stored as active) or "revoked"
  current,      \* sessions.refresh_token_hash
  token,        \* session_refresh_tokens: [of, state]
  cookie,       \* browser |-> its refresh cookie
  page,         \* page |-> [at, of]: of is the access token's session
  job,          \* slot |-> its request
  faults,
  ends,
  cause         \* history: the sessions somebody or something has a reason to end

vars == <<session, current, token, cookie, page, job, faults, ends, cause>>

Pages == Browsers \X Tabs
Home(p) == p[1]

Slots == (Pages \X {"page", "left", "out"}) \cup {<<None, "reset">>}

Live(s) == session[s] \in {"active", "expired"}

Idle == [kind |-> "none", pc |-> "idle", token |-> None, scope |-> {}, aim |-> {},
         todo |-> {}, held |-> {}, answer |-> None, next |-> None]

Page(p) == <<p, "page">>
Left(p) == <<p, "left">>
Out(p)  == <<p, "out">>

\* The refreshes of a browser's pages.
Refreshes(b) == {j \in Pages \X {"page", "left"} : Home(j[1]) = b}

\* One user is signed in at one page.
Init ==
  /\ session = <<"active">>
  /\ current = <<1>>
  /\ token = <<[of |-> 1, state |-> "issued"]>>
  /\ LET first == CHOOSE p \in Pages : TRUE
     IN /\ cookie = [b \in Browsers |-> IF b = Home(first) THEN 1 ELSE None]
        /\ page = [p \in Pages |-> IF p = first THEN [at |-> "in", of |-> 1] ELSE [at |-> "out", of |-> None]]
  /\ job = [j \in Slots |-> Idle]
  /\ faults = 0 /\ ends = 0
  /\ cause = {}

-----------------------------------------------------------------------------
(* Row locks *)

Free(j, row) == \A k \in Slots \ {j} : row \notin job[k].held

\* A mutated form: a refresh locks its token only.
WantedTokenOnly(j) ==
  CASE job[j].pc = "select" -> <<"token", job[j].token>>
    [] job[j].pc = "sessions" /\ job[j].todo # {} -> <<"session", Min(job[j].todo)>>
    [] job[j].pc = "tokens" /\ job[j].todo # {} -> <<"token", Min(job[j].todo)>>
    [] OTHER -> None

\* The row a job is about to lock.
Wanted(j) ==
  CASE job[j].pc = "select" -> <<"token", job[j].token>>
    [] job[j].pc = "join" -> <<"session", token[job[j].token].of>>
    [] job[j].pc = "sessions" /\ job[j].todo # {} -> <<"session", Min(job[j].todo)>>
    [] job[j].pc = "tokens" /\ job[j].todo # {} -> <<"token", Min(job[j].todo)>>
    [] OTHER -> None

\* Every one of R waits for a row that another of them holds.
Waiting == {j \in Slots : Wanted(j) # None /\ ~Free(j, Wanted(j))}
Cycle(R) == \A j \in R : \E k \in R \ {j} : Wanted(j) \in job[k].held

Set(j, q) == job' = [job EXCEPT ![j] = q]
Ended(j, a) == [job[j] EXCEPT !.pc = "done", !.answer = a, !.held = {}, !.todo = {}]

-----------------------------------------------------------------------------
(* Refresh *)

Begin(t) == [Idle EXCEPT !.kind = "refresh", !.pc = "select", !.token = t]

\* SELECT ... FOR UPDATE OF l, s locks the token and then its session.
TakeToken(j) ==
  /\ job[j].pc = "select"
  /\ Free(j, Wanted(j))
  /\ Set(j, [job[j] EXCEPT !.pc = "join", !.held = {Wanted(j)}])
  /\ UNCHANGED <<session, current, token, cookie, page, faults, ends, cause>>

\* A mutated form: any token of a live session is traded.
MayRotateAgain(t) == session[token[t].of] = "active"

\* Decided on the locked rows.  The revocation of a reuse is a second transaction.
MayRotate(t) == token[t].state = "issued" /\ session[token[t].of] = "active"

Revocation(j, scope) ==
  [job[j] EXCEPT !.pc = "sessions", !.scope = scope, !.held = {},
                 !.todo = {s \in scope : Live(s)}, !.aim = {s \in scope : Live(s)}]

Rotate(j) ==
  LET t == job[j].token
      s == token[t].of
      n == Len(token) + 1
  IN /\ job[j].pc = "join"
     /\ Free(j, Wanted(j))
     /\ IF MayRotate(t)
        THEN /\ token' = Append([token EXCEPT ![t].state = "consumed"], [of |-> s, state |-> "issued"])
             /\ current' = [current EXCEPT ![s] = n]
             /\ Set(j, [Ended(j, "rotated") EXCEPT !.next = n])
        ELSE /\ Set(j, Revocation(j, {s}))
             /\ UNCHANGED <<token, current>>
     /\ UNCHANGED <<session, cookie, page, faults, ends, cause>>

-----------------------------------------------------------------------------
(* Revocation: of one session, or of all the user's.  Two UPDATE statements, *)
(* each over the rows it finds when it starts, rechecked once locked: the    *)
(* second also finds the tokens of a session opened since the first.         *)

StillMatches(j) ==
  LET x == Min(job[j].todo) IN
  IF job[j].pc = "sessions" THEN Live(x) ELSE token[x].state = "issued"

LockRow(j) ==
  /\ job[j].pc \in {"sessions", "tokens"} /\ job[j].todo # {}
  /\ Free(j, Wanted(j))
  /\ Set(j, [job[j] EXCEPT !.todo = @ \ {Min(@)},
                           !.held = IF StillMatches(j) THEN @ \cup {Wanted(j)} ELSE @])
  /\ UNCHANGED <<session, current, token, cookie, page, faults, ends, cause>>

Reach(j) == IF job[j].kind = "all" THEN DOMAIN session ELSE job[j].scope

NextStatement(j) ==
  /\ job[j].pc = "sessions" /\ job[j].todo = {}
  /\ Set(j, [job[j] EXCEPT !.pc = "tokens", !.scope = Reach(j),
                           !.todo = {t \in DOMAIN token : token[t].state = "issued" /\ token[t].of \in Reach(j)}])
  /\ UNCHANGED <<session, current, token, cookie, page, faults, ends, cause>>

Commit(j) ==
  /\ job[j].pc = "tokens" /\ job[j].todo = {}
  /\ session' = [s \in DOMAIN session |-> IF <<"session", s>> \in job[j].held THEN "revoked" ELSE session[s]]
  /\ token' = [t \in DOMAIN token |->
                 IF <<"token", t>> \in job[j].held THEN [token[t] EXCEPT !.state = "revoked"] ELSE token[t]]
  /\ Set(j, Ended(j, IF job[j].kind = "refresh" THEN "reuse" ELSE "revoked"))
  /\ cause' = IF job[j].kind = "all" THEN cause \cup job[j].scope ELSE cause
  /\ UNCHANGED <<current, cookie, page, faults, ends>>

\* The deadlock detector's victim, and a transaction that dies by itself.
Victim(j) ==
  /\ j \in Waiting /\ \E R \in SUBSET Waiting : j \in R /\ Cycle(R)
  /\ Set(j, Ended(j, "failed"))
  /\ UNCHANGED <<session, current, token, cookie, page, faults, ends, cause>>

Die(j) ==
  /\ job[j].pc \notin {"idle", "done"}
  /\ faults < MaxFaults /\ faults' = faults + 1
  /\ Set(j, Ended(j, "failed"))
  /\ UNCHANGED <<session, current, token, cookie, page, ends, cause>>

-----------------------------------------------------------------------------
(* The browser and the web server *)

\* A refresh that may still trade its token, or has traded it.
Spends(q) == q.pc # "idle" /\ q.answer # "failed"

\* Somebody else of this browser has sent the cookie that p would send.
SentAlready(p) ==
  \E j \in Refreshes(Home(p)) \ {Page(p)} : Spends(job[j]) /\ job[j].token = cookie[Home(p)]

\* A page of a browser that has a session: another tab, or the page reloaded.
Open(p) ==
  /\ page[p].at = "out" /\ cookie[Home(p)] # None
  /\ Len(token) < MaxTokens
  /\ page' = [page EXCEPT ![p].at = "waiting"]
  /\ UNCHANGED <<session, current, token, cookie, job, faults, ends, cause>>

\* The page's one refresh (refreshing ??= ...): of a page without an access
\* token, or whose access token was refused.  What the other pages are doing
\* it does not know.
Ask(p) ==
  /\ page[p].at = "waiting" \/ (page[p].at = "in" /\ Len(token) < MaxTokens)
  /\ job[Page(p)].pc = "idle"
  /\ IF cookie[Home(p)] = None
     THEN /\ page' = [page EXCEPT ![p].at = "out"]
          /\ UNCHANGED <<job, cause>>
     ELSE /\ page' = [page EXCEPT ![p].at = "asking"]
          /\ Set(Page(p), Begin(cookie[Home(p)]))
          /\ cause' = IF SentAlready(p) THEN cause \cup {token[cookie[Home(p)]].of} ELSE cause
  /\ UNCHANGED <<session, current, token, cookie, faults, ends>>

\* 429, 5xx or no connection: the cookie is kept and the page tries again.
Refused(p) ==
  /\ page[p].at = "in" /\ cookie[Home(p)] # None
  /\ faults < MaxFaults /\ faults' = faults + 1
  /\ page' = [page EXCEPT ![p].at = "waiting"]
  /\ UNCHANGED <<session, current, token, cookie, job, ends, cause>>

\* What an answer does to the cookie: the rotation, the end, or nothing.
CookieAfter(b, j) ==
  CASE job[j].answer = "rotated" -> job[j].next
    [] job[j].answer = "reuse" -> None
    [] job[j].answer = "failed" -> cookie[b]

\* Two mutated forms: a failed refresh signs the page out; it leaves the page's one
\* refresh pending.
PageAfterOut(answer) == CASE answer = "rotated" -> "in" [] answer \in {"reuse", "failed"} -> "out"
PageAfterPending(answer) == CASE answer = "rotated" -> "in" [] answer = "reuse" -> "out" [] answer = "failed" -> "asking"

PageAfter(answer) == CASE answer = "rotated" -> "in" [] answer = "reuse" -> "out" [] answer = "failed" -> "waiting"

\* The session whose cookie is overwritten.
Overwritten(b) == IF cookie[b] = None THEN {} ELSE {token[cookie[b]].of}

\* An answer overwrites the cookie, whichever session's it is by now.
Arrive(b, j) ==
  /\ cookie' = [cookie EXCEPT ![b] = CookieAfter(b, j)]
  /\ cause' = IF job[j].answer = "failed" THEN cause
              ELSE cause \cup (Overwritten(b) \ {token[job[j].token].of})
  /\ Set(j, Idle)

Answered(p) ==
  LET q == job[Page(p)] IN
  /\ q.pc = "done"
  /\ Arrive(Home(p), Page(p))
  /\ page' = [page EXCEPT ![p].at = PageAfter(q.answer),
                          ![p].of = IF q.answer = "rotated" THEN token[q.token].of ELSE @]
  /\ UNCHANGED <<session, current, token, faults, ends>>

\* The answer never came back, or broke off after its status: then the cookie
\* goes, because its token is known to be consumed.
Lost(p) ==
  LET q == job[Page(p)]
      its == IF q.answer = "failed" THEN {} ELSE {token[q.token].of}
  IN /\ q.pc = "done"
     /\ faults < MaxFaults /\ faults' = faults + 1
     /\ \/ /\ page' = [page EXCEPT ![p].at = "waiting"]
           /\ cause' = cause \cup its
           /\ UNCHANGED cookie
        \/ /\ q.answer = "rotated"
           /\ page' = [page EXCEPT ![p].at = "out"]
           /\ cookie' = [cookie EXCEPT ![Home(p)] = None]
           /\ cause' = cause \cup its \cup Overwritten(Home(p))
     /\ Set(Page(p), Idle)
     /\ UNCHANGED <<session, current, token, ends>>

\* The page is left while its refresh is in flight; the browser completes it
\* (keepalive) and the next page asks for itself.
Leave(p) ==
  /\ job[Page(p)].pc # "idle" /\ job[Left(p)].pc = "idle"
  /\ faults < MaxFaults /\ faults' = faults + 1
  /\ job' = [job EXCEPT ![Left(p)] = job[Page(p)], ![Page(p)] = Idle]
  /\ page' = [page EXCEPT ![p].at = "waiting"]
  /\ UNCHANGED <<session, current, token, cookie, ends, cause>>

LeftAnswered(p) ==
  /\ job[Left(p)].pc = "done"
  /\ Arrive(Home(p), Left(p))
  /\ UNCHANGED <<session, current, token, page, faults, ends>>

LogIn(p) ==
  LET s == Len(session) + 1
      t == Len(token) + 1
  IN /\ page[p].at = "out"
     /\ s <= MaxSessions
     /\ session' = Append(session, "active")
     /\ current' = Append(current, t)
     /\ token' = Append(token, [of |-> s, state |-> "issued"])
     /\ cookie' = [cookie EXCEPT ![Home(p)] = t]
     /\ page' = [page EXCEPT ![p] = [at |-> "in", of |-> s]]
     /\ cause' = cause \cup Overwritten(Home(p))
     /\ UNCHANGED <<job, faults, ends>>

\* Logout of this session, or of all, refused to an access token whose session
\* is over (resolvePrincipal); a reset comes from a mail, under no session.
Asked(j, kind, scope) == Set(j, [Revocation(j, scope) EXCEPT !.kind = kind])

\* Without the cookie the web server asks the API for no logout of one session.
LogOut(p, kind) ==
  LET s == page[p].of IN
  /\ page[p].at = "in" /\ job[Out(p)].pc = "idle"
  /\ ends < MaxEnds /\ ends' = ends + 1
  /\ IF session[s] = "active" /\ (kind = "all" \/ cookie[Home(p)] # None)
     THEN Asked(Out(p), kind, IF kind = "one" THEN {s} ELSE DOMAIN session)
     ELSE Set(Out(p), [Idle EXCEPT !.kind = kind, !.pc = "done", !.answer = "failed"])
  /\ cause' = cause \cup (IF kind = "one" THEN {s} ELSE DOMAIN session)
  /\ UNCHANGED <<session, current, token, cookie, page, faults>>

\* The web server drops the cookies whatever the logout's answer was.
LoggedOut(p) ==
  /\ job[Out(p)].pc = "done"
  /\ Set(Out(p), Idle)
  /\ IF job[Out(p)].kind = "one"
     THEN /\ cookie' = [cookie EXCEPT ![Home(p)] = None]
          /\ page' = [page EXCEPT ![p].at = IF @ = "in" THEN "out" ELSE @]
          /\ cause' = cause \cup Overwritten(Home(p))
     ELSE UNCHANGED <<cookie, page, cause>>
  /\ UNCHANGED <<session, current, token, faults, ends>>

ResetPassword ==
  /\ job[<<None, "reset">>].pc = "idle"
  /\ ends < MaxEnds /\ ends' = ends + 1
  /\ Asked(<<None, "reset">>, "all", DOMAIN session)
  /\ cause' = cause \cup DOMAIN session
  /\ UNCHANGED <<session, current, token, cookie, page, faults>>

Expire(s) ==
  /\ session[s] = "active"
  /\ faults < MaxFaults /\ faults' = faults + 1
  /\ \A j \in Slots : <<"session", s>> \notin job[j].held
  /\ session' = [session EXCEPT ![s] = "expired"]
  /\ cause' = cause \cup {s}
  /\ UNCHANGED <<current, token, cookie, page, job, ends>>

-----------------------------------------------------------------------------
Serve(j) == TakeToken(j) \/ Rotate(j) \/ LockRow(j) \/ NextStatement(j) \/ Commit(j) \/ Victim(j)
Show(p) == Answered(p) \/ LeftAnswered(p) \/ LoggedOut(p)

Next ==
  \/ \E j \in Slots : Serve(j) \/ Die(j)
  \/ \E p \in Pages : Show(p) \/ Open(p) \/ Ask(p) \/ Refused(p) \/ Lost(p) \/ Leave(p) \/ LogIn(p)
  \/ \E p \in Pages, kind \in {"one", "all"} : LogOut(p, kind)
  \/ ResetPassword
  \/ \E s \in DOMAIN session : Expire(s)

Spec == Init /\ [][Next]_vars

\* The API serves what it was sent, the browser takes the answers it gets and
\* a page whose refresh may be tried again tries it (the pause ends).  Of the
\* deadlocks a page's refreshes keep meeting they are the victim of some: the
\* victim is who has waited longest, whatever it is doing.  And a revocation
\* gets a token that keeps being released: who waits for a row gets it before
\* those who come later, even the next attempts of the page next to it.
FairSpec ==
  /\ Spec
  /\ \A j \in Slots : WF_vars(Serve(j))
  /\ \A p \in Pages : /\ WF_vars(Show(p)) /\ WF_vars(page[p].at = "waiting" /\ Ask(p))
                      /\ SF_vars(job[Page(p)].pc = "join" /\ Victim(Page(p)))
                      /\ SF_vars(job[Page(p)].pc = "tokens" /\ LockRow(Page(p)))

-----------------------------------------------------------------------------
(* Properties *)

\* Tokens and sessions are two tables written by transactions that meet in
\* between: a token that may still be traded belongs to a session that was not
\* revoked and is the one token that session names.
LineageAgrees ==
  \A t \in DOMAIN token : token[t].state = "issued" => Live(token[t].of) /\ current[token[t].of] = t

\* No token is traded twice.  A reuse is reported only once its session is
\* over (the revocation commits before the error is thrown), and who is told
\* that sessions were revoked finds all of them revoked that were live when he
\* asked, whatever refreshes were in flight.
AnswersAreTrue ==
  \A j \in Slots :
    LET q == job[j]
    IN /\ q.answer = "rotated" => \A k \in Slots \ {j} : job[k].answer = "rotated" => job[k].token # q.token
       /\ q.answer \in {"reuse", "revoked"} => \A s \in q.aim : session[s] = "revoked"
       /\ q.answer = "reuse" => session[token[q.token].of] = "revoked"

\* A rate limit, an outage, a victim of a deadlock, a retry or a page opened
\* or reloaded never ends a session or signs a page out.  That takes a logout,
\* a reset or the expiry, an answer lost after the rotation, another session's
\* token put over the cookie (by a login or a late answer), or a token sent
\* twice: a page shares its refresh among its own callers, so a second tab, or
\* the page that follows one left, sends the cookie a refresh is under way with.
EndsForCause ==
  /\ \A s \in DOMAIN session : session[s] = "revoked" => s \in cause
  /\ \A p \in Pages : page[p].at = "out" /\ page[p].of # None => page[p].of \in cause

\* A page that refreshes its session gets an answer: deadlocks are broken, and
\* the retries end.
PagesSettle == \A p \in Pages : page[p].at \in {"asking", "waiting"} ~> page[p].at \in {"in", "out"}
=============================================================================
