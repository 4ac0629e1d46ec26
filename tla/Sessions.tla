------------------------------ MODULE Sessions ------------------------------
(***************************************************************************)
(* Signing in and staying signed in: login with its lock-out counter,      *)
(* refresh-token rotation and logout of apps/api/src/modules/auth, and the *)
(* browser tabs that use them: the axios interceptor of                    *)
(* apps/web/src/lib/api.ts, the persisted auth store, the login page and   *)
(* the dashboard's sign-out button.                                        *)
(*                                                                         *)
(* There is one account and one browser, whose tabs share the refresh      *)
(* cookie and localStorage and nothing else.  Refresh tokens are numbered  *)
(* as they are issued, and one can be used while its row is in `sessions'. *)
(* An access token is fresh or it is not: a quarter of an hour makes every *)
(* one of them old.                                                        *)
(***************************************************************************)
EXTENDS Naturals, FiniteSets

CONSTANTS
    Tab,          \* tabs of the browser
    Call,         \* requests that can be in flight
    Owner,        \* the tab that makes each of them
    MaxAttempts,  \* RATE_LIMIT_MAX
    MaxIssued     \* bound on the tokens issued

ASSUME OwnerAssumption == Owner \in [Call -> Tab] /\ IsFiniteSet(Call)
ASSUME TabAssumption == Tab \intersect {"not", "loggedOut", "expired", "lost"} = {}
ASSUME AttemptsAssumption == MaxAttempts \in Nat \ {0}
ASSUME IssuedAssumption == MaxIssued \in Nat

VARIABLES
    \* PostgreSQL and Redis:
    sessions,   \* refresh tokens that have a row
    attempts,   \* the lock-out counter of the account
    issued,     \* refresh tokens issued so far
    \* the browser:
    cookie,     \* the refresh cookie, 0 if none
    stored,     \* the access token in localStorage: "none", "old" or "fresh"
    tab,        \* each tab: its page, whether its access token is fresh, and
                \* the flag `refreshing' of api.ts
    call,       \* the requests
    \* History variables:
    ended       \* how each refresh token ended: it expired, was signed out, was
                \* rotated by a tab, or by one that never got the successor

server  == <<sessions, attempts, issued>>
browser == <<cookie, stored, tab>>
vars == <<sessions, attempts, issued, cookie, stored, tab, call, ended>>

Issue == 1..MaxIssued

\* A request carries a fresh access token or none, `uses' is the refresh token
\* it carries and `made' the one its answer brings.  A call is `again' when the
\* interceptor repeats it, `adrift' when the page that made it is gone.
NoCall == [kind |-> "api", phase |-> "idle", fresh |-> FALSE, uses |-> 0,
           made |-> 0, again |-> FALSE, adrift |-> FALSE]

Busy(c) == call[c].phase # "idle"

Init ==
    /\ sessions = {} /\ attempts = 0 /\ issued = 0
    /\ cookie = 0 /\ stored = "none"
    /\ tab = [t \in Tab |-> [page |-> "login", fresh |-> FALSE,
                            refreshing |-> FALSE]]
    /\ call = [c \in Call |-> NoCall]
    /\ ended = [k \in Issue |-> "not"]

At(c, phase) == call[c].phase = phase
Becomes(c, phase) == call' = [call EXCEPT ![c].phase = phase]
Over(c) == call' = [call EXCEPT ![c] = NoCall]
Mine(c) == tab[Owner[c]]

-----------------------------------------------------------------------------
(* The pages.                                                              *)

\* A call in flight issues one token at most, so no call starts that the
\* bound might leave without an answer.
Start(c, request) ==
    /\ ~Busy(c)
    /\ issued + Cardinality({d \in Call : Busy(d)}) < MaxIssued
    /\ call' = [call EXCEPT ![c] = request]
    /\ UNCHANGED <<server, browser, ended>>

\* Any query or mutation of the dashboard, with the tab's access token.
Ask(c) ==
    /\ Mine(c).page = "dashboard"
    /\ Start(c, [NoCall EXCEPT !.phase = "sent", !.fresh = Mine(c).fresh])

\* The login form; its button waits for the answer.
Submit(c) ==
    /\ Mine(c).page = "login"
    /\ \A d \in Call : Owner[d] = Owner[c] /\ Busy(d) /\ ~call[d].adrift =>
           call[d].kind # "login"
    /\ Start(c, [NoCall EXCEPT !.kind = "login", !.phase = "sent"])

\* The button "Sign out"; the request carries the cookie.
SignOut(c) ==
    /\ Mine(c).page = "dashboard"
    /\ Start(c, [NoCall EXCEPT !.kind = "logout", !.phase = "sent", !.uses = cookie])

\* The server has work to do for the call, whoever waits for it.
AtServer(c) == \/ call[c].phase \in {"refresh", "rotate", "verifying", "opening"}
               \/ At(c, "sent") /\ call[c].kind # "api"

\* The answers to these calls are lost with the tokens they bring.
LostBy(calls) ==
    ended' = [k \in Issue |-> IF \E c \in calls : At(c, "rotated") /\ call[c].uses = k
                              THEN "lost" ELSE ended[k]]

\* DashboardLayout turns away whoever has no stored token; a tab that is
\* leaving for /login loads nothing else.
Admits(t, page) ==
    IF tab[t].page = "leaving" THEN page = "login"
    ELSE page = "dashboard" => stored # "none"

\* A page is loaded: the store is read back from localStorage, and the calls
\* of the page that was there go on without it.
Load(t, page) ==
    /\ Admits(t, page)
    /\ tab' = [tab EXCEPT ![t] =
                   [page |-> page, fresh |-> stored = "fresh", refreshing |-> FALSE]]
    /\ call' = [c \in Call |->
           IF Owner[c] # t THEN call[c]
           ELSE IF AtServer(c) THEN [call[c] EXCEPT !.adrift = TRUE] ELSE NoCall]
    /\ LostBy({c \in Call : Owner[c] = t})
    /\ UNCHANGED <<server, cookie, stored>>

-----------------------------------------------------------------------------
(* An authenticated route, and the interceptor.                            *)

\* authenticate: jwtVerify answers 401 for a token that is missing or expired.
Authenticate(c) ==
    /\ At(c, "sent") /\ call[c].kind = "api"
    /\ IF call[c].fresh \/ call[c].again THEN Over(c) ELSE Becomes(c, "denied")
    /\ UNCHANGED <<server, browser, ended>>

Refresh(c) ==
    /\ call' = [call EXCEPT ![c].phase = "refresh", ![c].uses = cookie]
    /\ tab' = [tab EXCEPT ![Owner[c]].refreshing = TRUE]

\* A 401 arrives: the first one of the tab refreshes, those that find a
\* refresh under way are rejected.  A repeated call is made without the
\* interceptor.
Intercept(c) ==
    /\ At(c, "denied")
    /\ IF call[c].adrift \/ call[c].again \/ Mine(c).refreshing
       THEN Over(c) /\ UNCHANGED tab
       ELSE Refresh(c)
    /\ UNCHANGED <<server, cookie, stored, ended>>

\* Mutant of Refreshed: the route of the refresh sets no cookie.
RefreshedWithoutCookie(c) ==
    /\ At(c, "rotated") /\ ~call[c].adrift
    /\ tab' = [tab EXCEPT ![Owner[c]].fresh = TRUE, ![Owner[c]].refreshing = FALSE]
    /\ call' = [call EXCEPT ![c].phase = "sent", ![c].again = TRUE,
                            ![c].uses = 0, ![c].made = 0]
    /\ UNCHANGED <<server, cookie, stored, ended>>

\* The new tokens arrive.  The call is repeated, but its promise is not
\* awaited, so that `refreshing' ends here.
Refreshed(c) ==
    /\ At(c, "rotated") /\ ~call[c].adrift
    /\ cookie' = call[c].made
    /\ tab' = [tab EXCEPT ![Owner[c]].fresh = TRUE, ![Owner[c]].refreshing = FALSE]
    /\ call' = [call EXCEPT ![c].phase = "sent", ![c].again = TRUE,
                            ![c].uses = 0, ![c].made = 0]
    /\ UNCHANGED <<server, stored, ended>>

\* Mutant of Thrown: a refusal is not caught.
ThrownByFailure(c) ==
    /\ call[c].phase \in {"refresh", "rotate", "rotated"}
    /\ LostBy({c})
    /\ Over(c)
    /\ tab' = IF call[c].adrift THEN tab
              ELSE [tab EXCEPT ![Owner[c]] =
                    [page |-> "leaving", fresh |-> FALSE, refreshing |-> FALSE]]
    /\ UNCHANGED <<server, cookie, stored>>

\* The refresh is refused, fails, or its answer is lost: the tab forgets its
\* token and leaves for /login.
Thrown(c) ==
    /\ call[c].phase \in {"refresh", "rotate", "rotated", "refused"}
    /\ LostBy({c})
    /\ Over(c)
    /\ tab' = IF call[c].adrift THEN tab
              ELSE [tab EXCEPT ![Owner[c]] =
                    [page |-> "leaving", fresh |-> FALSE, refreshing |-> FALSE]]
    /\ UNCHANGED <<server, cookie, stored>>

-----------------------------------------------------------------------------
(* authService.refresh().                                                  *)

FindSession(c) ==
    /\ At(c, "refresh")
    /\ Becomes(c, IF call[c].uses \in sessions THEN "rotate" ELSE "refused")
    /\ UNCHANGED <<server, browser, ended>>

\* One transaction; that its DELETE found the row is not checked, so two
\* refreshes that both found it both get a session.
Rotate(c) ==
    /\ At(c, "rotate")
    /\ issued' = issued + 1
    /\ sessions' = (sessions \ {call[c].uses}) \union {issued + 1}
    /\ ended' = [ended EXCEPT ![call[c].uses] =
           IF call[c].adrift THEN "lost"
           ELSE IF call[c].uses \in sessions THEN Owner[c] ELSE @]
    /\ call' = [call EXCEPT ![c].phase = "rotated", ![c].made = issued + 1]
    /\ UNCHANGED <<attempts, browser>>

-----------------------------------------------------------------------------
(* authService.login() and the login page.                                 *)

\* Mutant of CheckLockout: one attempt too many.
CheckLockoutLate(c) ==
    /\ At(c, "sent") /\ call[c].kind = "login"
    /\ IF attempts > MaxAttempts THEN Over(c) ELSE Becomes(c, "verifying")
    /\ UNCHANGED <<server, browser, ended>>

\* The counter is read here and incremented only after the password check.
CheckLockout(c) ==
    /\ At(c, "sent") /\ call[c].kind = "login"
    /\ IF attempts >= MaxAttempts THEN Over(c) ELSE Becomes(c, "verifying")
    /\ UNCHANGED <<server, browser, ended>>

WrongPassword(c) ==
    /\ At(c, "verifying")
    /\ attempts' = attempts + 1
    /\ Becomes(c, "denied")
    /\ UNCHANGED <<sessions, issued, browser, ended>>

\* A login that is repeated was denied before, with the same password.
RightPassword(c) ==
    /\ At(c, "verifying") /\ ~call[c].again
    /\ attempts' = 0
    /\ Becomes(c, "opening")
    /\ UNCHANGED <<sessions, issued, browser, ended>>

\* Mutant of OpenSession: the token that was issued last is used again.
OpenSessionAgain(c) ==
    /\ At(c, "opening")
    /\ sessions' = sessions \union {issued}
    /\ call' = [call EXCEPT ![c].phase = "opened", ![c].made = issued]
    /\ UNCHANGED <<attempts, issued, browser, ended>>

\* The new session's row.
OpenSession(c) ==
    /\ At(c, "opening")
    /\ issued' = issued + 1
    /\ sessions' = sessions \union {issued + 1}
    /\ call' = [call EXCEPT ![c].phase = "opened", ![c].made = issued + 1]
    /\ UNCHANGED <<attempts, browser, ended>>

\* The answer arrives: setAuth, and the dashboard opens.
SignedIn(c) ==
    /\ At(c, "opened")
    /\ Over(c)
    /\ IF call[c].adrift THEN UNCHANGED browser
       ELSE /\ cookie' = call[c].made
            /\ stored' = "fresh"
            /\ tab' = [tab EXCEPT ![Owner[c]].fresh = TRUE,
                   ![Owner[c]].page = IF @ = "leaving" THEN @ ELSE "dashboard"]
    /\ UNCHANGED <<server, ended>>

-----------------------------------------------------------------------------
(* authService.logout() and the sign-out button.                           *)

\* The DELETE; when it fails the error is logged and the answer is the same.
DeleteSession(c) ==
    /\ At(c, "sent") /\ call[c].kind = "logout"
    /\ Becomes(c, "signedOut")
    /\ \E done \in BOOLEAN :
           LET gone == IF done THEN sessions \intersect {call[c].uses} ELSE {}
           IN  /\ sessions' = sessions \ gone
               /\ ended' = [k \in Issue |-> IF k \in gone THEN "loggedOut"
                                                          ELSE ended[k]]
    /\ UNCHANGED <<attempts, issued, browser>>

\* The answer clears the cookie; clearAuth() runs with or without it.
SignedOut(c) ==
    /\ call[c].kind = "logout" /\ call[c].phase \in {"sent", "signedOut"}
    /\ Over(c)
    /\ IF call[c].adrift THEN UNCHANGED browser
       ELSE /\ cookie' = 0 \/ cookie' = cookie
            /\ At(c, "sent") => cookie' = cookie
            /\ stored' = "none"
            /\ tab' = [tab EXCEPT ![Owner[c]].fresh = FALSE,
                   ![Owner[c]].page = IF @ = "leaving" THEN @ ELSE "login"]
    /\ UNCHANGED <<server, ended>>

-----------------------------------------------------------------------------
(* Failures and time.                                                      *)

\* A request or its answer is lost, or its handler answers 500.
Fail(c) ==
    /\ call[c].phase \in {"sent", "verifying", "opening", "opened"}
    /\ call[c].kind # "logout"
    /\ Over(c)
    /\ UNCHANGED <<server, browser, ended>>

\* A quarter of an hour without a new access token.
AccessExpires ==
    /\ stored' = IF stored = "fresh" THEN "old" ELSE stored
    /\ tab' = [t \in Tab |-> [tab[t] EXCEPT !.fresh = FALSE]]
    /\ call' = [c \in Call |-> [call[c] EXCEPT !.fresh = FALSE]]
    /\ UNCHANGED <<server, cookie, ended>>

\* A week after its issue: the oldest refresh token ends, and its cookie.  No
\* request and no access token lasts that long.
SessionExpires ==
    /\ \A c \in Call : ~Busy(c)
    /\ stored # "fresh" /\ \A t \in Tab : ~tab[t].fresh
    /\ \E k \in sessions :
           /\ \A j \in sessions : k <= j
           /\ sessions' = sessions \ {k}
           /\ ended' = [ended EXCEPT ![k] = "expired"]
           /\ cookie' = IF cookie = k THEN 0 ELSE cookie
    /\ UNCHANGED <<attempts, issued, stored, tab, call>>

\* The counter's 15 minutes.
WindowEnds ==
    /\ attempts > 0
    /\ attempts' = 0
    /\ UNCHANGED <<sessions, issued, browser, call, ended>>

Proceeds(c) ==
    \/ Authenticate(c) \/ Intercept(c) \/ FindSession(c) \/ Rotate(c)
    \/ Refreshed(c) \/ Thrown(c) \/ CheckLockout(c) \/ WrongPassword(c)
    \/ RightPassword(c) \/ OpenSession(c) \/ SignedIn(c)
    \/ DeleteSession(c) \/ SignedOut(c)

Next ==
    \/ \E c \in Call : \/ Ask(c) \/ Submit(c) \/ SignOut(c)
                       \/ Proceeds(c) \/ Fail(c)
    \/ \E t \in Tab : \E page \in {"login", "dashboard"} : Load(t, page)
    \/ AccessExpires \/ SessionExpires \/ WindowEnds

Spec == Init /\ [][Next]_vars

\* Requests are handled and answered and answers are read; nobody has to ask
\* for anything, nothing has to fail, and no page has to be loaded.
FairSpec == Spec /\ \A c \in Call : WF_vars(Proceeds(c))

-----------------------------------------------------------------------------
(* Properties.                                                             *)

Phase == {"idle", "sent", "denied", "refresh", "rotate", "rotated", "refused",
          "verifying", "opening", "opened", "signedOut"}
Request == [kind : {"api", "login", "logout"}, phase : Phase, fresh : BOOLEAN,
            uses : 0..MaxIssued, made : 0..MaxIssued,
            again : BOOLEAN, adrift : BOOLEAN]

\* Type invariant.
TypeOK ==
    /\ sessions \subseteq 1..issued
    /\ attempts \in Nat
    /\ issued \in 0..MaxIssued
    /\ cookie \in 0..issued /\ stored \in {"none", "old", "fresh"}
    /\ tab \in [Tab -> [page : {"login", "dashboard", "leaving"},
                        fresh : BOOLEAN, refreshing : BOOLEAN]]
    /\ call \in [Call -> Request]
    /\ ended \in [Issue -> Tab \union {"not", "loggedOut", "expired", "lost"}]

Refreshing(c) == ~call[c].adrift
                 /\ call[c].phase \in {"refresh", "rotate", "rotated", "refused"}

\* api.ts's `refreshing' is TRUE while exactly one call of the tab refreshes:
\* it is never left on, which would reject every later 401 of the tab, and
\* never off during a refresh, which would let a second one in (api.ts:20-40).
OneRefreshPerTab ==
    \A t \in Tab :
        LET busy == {c \in Call : Owner[c] = t /\ Refreshing(c)}
        IN  /\ tab[t].refreshing <=> busy # {}
            /\ \A c, d \in busy : c = d

\* A tab whose refresh is refused had a token that expired, was signed out,
\* was rotated from another tab, or whose successor was lost on the way: a tab
\* never ends its own session (auth.service.ts:232-294, api.ts:24-39).  What
\* such a refusal leaves of the other sessions is ReuseEndsAllSessions.
RefusedForCause ==
    \A c \in Call : At(c, "refused") /\ ~call[c].adrift /\ call[c].uses # 0 =>
        ended[call[c].uses] \notin {"not", Owner[c]}

\* The refresh token of call c was used before: a refresh has rotated it.
Reused(c) == call[c].uses # 0 /\ ended[call[c].uses] \in Tab \union {"lost"}

\* What README.md:201 says ("Single-use rotation with replay attack detection
\* (all sessions invalidated on reuse)"): a refresh with a token that was used
\* before leaves no session.  It does not hold: a used token that is not found
\* is answered 401 and nothing else (auth.service.ts:246-250), and one that was
\* found before the other refresh deleted it opens a second session, since the
\* transaction does not look at what its DELETE found (auth.service.ts:271-282).
ReuseEndsAllSessions ==
    [][\A c \in Call : Reused(c) /\ (FindSession(c) \/ Rotate(c)) => sessions' = {}]_vars

\* What README.md:203 says ("5 login attempts per email per 15 minutes"): no
\* more wrong passwords than the limit are checked in a window.  It does not
\* hold: logins that overlap all read the counter before any of them has
\* incremented it (auth.service.ts:149-179).
AttemptsAreLimited == attempts <= MaxAttempts

\* What holds instead: wrong attempts exceed the limit by no more than the
\* logins that were being checked when it was reached (auth.service.ts:149-179).
LockoutOvershoot ==
    attempts + Cardinality({c \in Call : At(c, "verifying")})
        <= MaxAttempts - 1 + Cardinality(Call)

\* Every request ends: the interceptor repeats a call once at most, and each
\* refresh it waits for ends (api.ts:21-44).
CallsSettle == \A c \in Call : Busy(c) ~> ~Busy(c)
=============================================================================
