---------------------------- MODULE AuthSession ----------------------------
(***************************************************************************)
(* The session of the browser application in real mode.  One Nest account  *)
(* is signed in from several tabs.  A tab keeps the access token in module *)
(* memory (services/auth/real/real-auth.tokens.ts); the refresh token is   *)
(* in an httpOnly cookie that all the tabs share and that only the Next    *)
(* route handlers set, read and delete.  Nest rotates on every refresh:    *)
(* it revokes every token of the account and issues a new pair.            *)
(*                                                                         *)
(* An access token and the refresh token issued with it are one number, a  *)
(* "pair", in the order of issue.  The surface cookie (admin / user)       *)
(* travels with the refresh cookie and is part of `cookie'.                *)
(***************************************************************************)
EXTENDS Naturals, FiniteSets

CONSTANTS
  EarlierVisit,  \* does the cookie jar hold the refresh cookie of a visit?
  Tabs,          \* browser tabs; each has its own JS module state
  Calls,         \* concurrent API calls a tab may have in flight
  BootCall,      \* the call to `me' that the boot restore makes
  MaxPair,       \* bound: pairs Nest issues in a behaviour
  MaxAttempts,   \* SET_TOKENS_MAX_ATTEMPTS
  MaxFaults,     \* bound: lost or failed exchanges in a behaviour
  KyBoundsHooks  \* does ky's timeout also bound an afterResponse hook?

ASSUME SessionAssumption ==
  /\ EarlierVisit \subseteq BOOLEAN
  /\ BootCall \notin Calls
  /\ MaxPair \in Nat \ {0}
  /\ MaxAttempts \in Nat \ {0}
  /\ MaxFaults \in Nat
  /\ KyBoundsHooks \in BOOLEAN

None == 0
Pair == 1 .. MaxPair
PairOrNone == 0 .. MaxPair
AllCalls == Calls \cup {BootCall}
SignOuts == {"menu", "handler"}   \* UserAccountMenu, handleUnauthorized

VARIABLES
  issued,     \* Nest: the last pair issued
  valid,      \* Nest: the pairs not revoked
  cookie,     \* jar: the refresh cookie, with its surface
  presence,   \* jar: the readable cookie the edge gate looks at
  mem,        \* _mem: the pair held by the tab
  stale,      \* the access token of _mem is within the expiry skew
  wgen,       \* _writeGeneration
  active,     \* useUserStore.activeUser is set
  boot,       \* runtimeBoot of sessionBoot.ts
  page,       \* the tab shows the application shell or a page outside it
  restoring,  \* restorePromise: what the boot restore is waiting for
  refresh,    \* refreshInFlight: the progress of performRealRefresh
  rotating,   \* browserRotateAccessPromise is set
  login,      \* a sign-in in progress on the login page
  signout,    \* AuthService.logout() in progress, per caller
  handling,   \* handlingUnauthorized
  clears,     \* clear-tokens requests of the tab not answered yet
  call,       \* the API calls of the tab
  ghosts,     \* refresh requests still running in the route after an abort
  faults      \* faults so far

nest == <<issued, valid>>
jar == <<cookie, presence>>
tokens == <<mem, stale, wgen, presence, clears>>
store == <<active, boot>>
vars == <<issued, valid, cookie, presence, mem, stale, wgen, active, boot,
          page, restoring, refresh, rotating, login, signout, handling,
          clears, call, ghosts, faults>>

RefreshPhase ==
  {"idle", "sent", "fresh", "dead", "failed", "hung", "body", "persist",
   "me", "selfwait", "stuck"}
Refresh == [ph : RefreshPhase, pair : PairOrNone, gen : Nat, att : Nat,
            me : BOOLEAN]
Login == [ph : {"idle", "sent", "issued", "persist"}, pair : PairOrNone,
          gen : Nat, att : Nat]
SignOut == [ph : {"idle", "start", "wait", "post", "unauth", "blocked", "body",
                  "done", "stuck"},
            pair : PairOrNone]
Call == [ph : {"idle", "sent", "unauth", "rot", "resent", "stuck"},
         pair : PairOrNone]

RefreshAt(ph, p) == [ph |-> ph, pair |-> p, gen |-> 0, att |-> 0, me |-> FALSE]
NoRefresh == RefreshAt("idle", None)
NoLogin == [ph |-> "idle", pair |-> None, gen |-> 0, att |-> 0]
NoSignOut == [ph |-> "idle", pair |-> None]
NoCall == [ph |-> "idle", pair |-> None]

TypeOK ==
  /\ issued \in PairOrNone
  /\ valid \subseteq Pair
  /\ cookie \in PairOrNone
  /\ presence \in BOOLEAN
  /\ mem \in [Tabs -> PairOrNone]
  /\ stale \in [Tabs -> BOOLEAN]
  /\ wgen \in [Tabs -> Nat]
  /\ active \in [Tabs -> BOOLEAN]
  /\ boot \in [Tabs -> {"null", "authenticated", "unauthenticated", "error"}]
  /\ page \in [Tabs -> {"app", "outside"}]
  /\ restoring \in [Tabs -> {"no", "refresh", "me"}]
  /\ refresh \in [Tabs -> Refresh]
  /\ rotating \in [Tabs -> BOOLEAN]
  /\ login \in [Tabs -> Login]
  /\ signout \in [Tabs -> [SignOuts -> SignOut]]
  /\ handling \in [Tabs -> BOOLEAN]
  /\ clears \in [Tabs -> Nat]
  /\ call \in [Tabs -> [AllCalls -> Call]]
  /\ ghosts \subseteq Pair
  /\ faults \in Nat

(***************************************************************************)
(* Every tab is outside the application.  The jar is fresh, or it has the   *)
(* refresh cookie of an earlier visit, which lives for seven days; the      *)
(* presence cookie ends with the browser unless it restores its tabs.       *)
(***************************************************************************)
Init ==
  /\ \E earlier \in EarlierVisit :
     IF earlier
     THEN issued = 1 /\ valid = {1} /\ cookie = 1 /\ presence \in BOOLEAN
     ELSE issued = 0 /\ valid = {} /\ cookie = None /\ presence = FALSE
  /\ mem = [t \in Tabs |-> None]
  /\ stale = [t \in Tabs |-> FALSE]
  /\ wgen = [t \in Tabs |-> 0]
  /\ active = [t \in Tabs |-> FALSE]
  /\ boot = [t \in Tabs |-> "null"]
  /\ page = [t \in Tabs |-> "outside"]
  /\ restoring = [t \in Tabs |-> "no"]
  /\ refresh = [t \in Tabs |-> NoRefresh]
  /\ rotating = [t \in Tabs |-> FALSE]
  /\ login = [t \in Tabs |-> NoLogin]
  /\ signout = [t \in Tabs |-> [k \in SignOuts |-> NoSignOut]]
  /\ handling = [t \in Tabs |-> FALSE]
  /\ clears = [t \in Tabs |-> 0]
  /\ call = [t \in Tabs |-> [r \in AllCalls |-> NoCall]]
  /\ ghosts = {}
  /\ faults = 0

-----------------------------------------------------------------------------
(* Building blocks: what one function of the code does to the state.       *)

\* clearRealAuthTokens: memory and presence at once, clear-tokens detached
\* (n such requests when the caller clears again).
ClearRealAuthTokens(t, n) ==
  /\ mem' = [mem EXCEPT ![t] = None]
  /\ stale' = [stale EXCEPT ![t] = FALSE]
  /\ presence' = FALSE
  /\ clears' = [clears EXCEPT ![t] = @ + n]
  /\ UNCHANGED wgen

\* writeRealAuthTokens up to its await: the caller stores the generation.
WriteRealAuthTokens(t, p) ==
  /\ mem' = [mem EXCEPT ![t] = p]
  /\ stale' = [stale EXCEPT ![t] = FALSE]
  /\ presence' = TRUE
  /\ wgen' = [wgen EXCEPT ![t] = @ + 1]
  /\ UNCHANGED clears

\* Mutant: the catch rolls back without looking at the generation.
WriteNeverSuperseded(t, gen) == gen \in Nat

\* The test in the catch of writeRealAuthTokens: no other write since.
WriteNotSuperseded(t, gen) == wgen[t] = gen

\* Mutant: the store is emptied, the boot flag is not set.
SignedOutOfStore(t) ==
  /\ active' = [active EXCEPT ![t] = FALSE]
  /\ UNCHANGED boot

\* dispatchSessionToStore, of a session and of null.
SignedIn(t) ==
  /\ active' = [active EXCEPT ![t] = TRUE]
  /\ boot' = [boot EXCEPT ![t] = "authenticated"]
SignedOut(t) ==
  /\ active' = [active EXCEPT ![t] = FALSE]
  /\ boot' = [boot EXCEPT ![t] = "unauthenticated"]

\* readRealAccessToken
Access(t) == IF stale[t] THEN None ELSE mem[t]

\* realRefreshToken: join the refresh in flight, or start one; the browser
\* attaches the cookie of this moment.
JoinRefresh(t) ==
  refresh' = IF refresh[t].ph # "idle" THEN refresh
             ELSE [refresh EXCEPT ![t] = RefreshAt("sent", cookie)]

\* Mutant: every rotation sends a refresh request of its own.
RotateUnshared(t) ==
  /\ rotating' = [rotating EXCEPT ![t] = TRUE]
  /\ refresh' = [refresh EXCEPT ![t] = RefreshAt("sent", cookie)]

\* rotateRealAccessToken: one promise per tab.
RotateRealAccessToken(t) ==
  /\ rotating' = [rotating EXCEPT ![t] = TRUE]
  /\ IF rotating[t] THEN UNCHANGED refresh ELSE JoinRefresh(t)

\* Nest issues a new pair; `kept' are the older pairs that stay valid.
NestIssue(kept) ==
  /\ issued < MaxPair
  /\ issued' = issued + 1
  /\ valid' = kept \cup {issued + 1}

Fault == faults < MaxFaults /\ faults' = faults + 1

Waiting(t) == \E r \in AllCalls : call[t][r].ph = "rot"

\* Mutant: the flag is set before the guard of the public pages returns.
StartHandlerFlagFirst(t) ==
  IF handling[t] THEN UNCHANGED <<handling, signout>>
  ELSE /\ handling' = [handling EXCEPT ![t] = TRUE]
       /\ signout' = IF page[t] = "outside" THEN signout
                     ELSE [signout EXCEPT ![t]["handler"] =
                             [ph |-> "start", pair |-> None]]

\* handleUnauthorized: its guards, then the paint it waits for.
StartHandler(t) ==
  IF handling[t] \/ page[t] = "outside" THEN UNCHANGED <<handling, signout>>
  ELSE /\ handling' = [handling EXCEPT ![t] = TRUE]
       /\ signout' = [signout EXCEPT ![t]["handler"] =
                        [ph |-> "start", pair |-> None]]

\* The promise of the refresh settles with a pair, or with None (a dead
\* session or an error): the rotation ends, the calls that wait for it are
\* sent again or give up, the boot restore that waits for it goes on.
Settle(t, p) ==
  /\ refresh' = [refresh EXCEPT ![t] = NoRefresh]
  /\ rotating' = [rotating EXCEPT ![t] = FALSE]
  /\ call' = [call EXCEPT ![t] = [r \in AllCalls |->
                IF call[t][r].ph # "rot" THEN call[t][r]
                ELSE IF p = None THEN NoCall
                ELSE [ph |-> "resent", pair |-> p]]]
  /\ restoring' = [restoring EXCEPT ![t] =
       IF @ = "refresh" \/ (p = None /\ call[t][BootCall].ph = "rot")
       THEN "no" ELSE @]
  /\ IF p = None /\ Waiting(t) THEN StartHandler(t)
     ELSE UNCHANGED <<handling, signout>>

SettleWithSession(t, p) == SignedIn(t) /\ Settle(t, p)

\* The boot call waits for the rotation and its 401 starts no handler: the
\* restore has no session and clears.
BootGivesUp(t) ==
  call[t][BootCall].ph = "rot" /\ (handling[t] \/ page[t] = "outside")

\* markSessionDead; refreshRealSession clears once more for the restore.
SettleDead(t) ==
  /\ ClearRealAuthTokens(t, IF restoring[t] = "refresh" \/ BootGivesUp(t)
                            THEN 2 ELSE 1)
  /\ SignedOut(t)
  /\ Settle(t, None)

\* SessionTransientError: the rotation yields null, so a waiting call signs
\* the tab out; the restore ends in the error screen unless boot is decided.
\* `rollback': the failed write of the refresh also clears.
SettleTransient(t, rollback) ==
  /\ Settle(t, None)
  /\ IF rollback \/ BootGivesUp(t)
     THEN ClearRealAuthTokens(t, IF rollback /\ BootGivesUp(t) THEN 2 ELSE 1)
     ELSE UNCHANGED tokens
  /\ IF BootGivesUp(t) \/ (Waiting(t) /\ ~handling[t] /\ page[t] = "outside")
     THEN SignedOut(t)
     ELSE /\ boot' = [boot EXCEPT ![t] =
                        IF restoring[t] = "refresh" /\ @ = "null"
                        THEN "error" ELSE @]
          /\ UNCHANGED active

\* A refresh request that the route goes on serving for nobody.
Orphan(t) ==
  IF refresh[t].ph = "sent" /\ refresh[t].pair # None
  THEN {refresh[t].pair} ELSE {}

\* A document load: the module state of the tab and what it had in flight
\* are gone; the route handler still finishes a refresh it has received.
ResetTab(t) ==
  /\ mem' = [mem EXCEPT ![t] = None]
  /\ stale' = [stale EXCEPT ![t] = FALSE]
  /\ wgen' = [wgen EXCEPT ![t] = 0]
  /\ active' = [active EXCEPT ![t] = FALSE]
  /\ boot' = [boot EXCEPT ![t] = "null"]
  /\ restoring' = [restoring EXCEPT ![t] = "no"]
  /\ refresh' = [refresh EXCEPT ![t] = NoRefresh]
  /\ rotating' = [rotating EXCEPT ![t] = FALSE]
  /\ login' = [login EXCEPT ![t] = NoLogin]
  /\ signout' = [signout EXCEPT ![t] = [k \in SignOuts |-> NoSignOut]]
  /\ handling' = [handling EXCEPT ![t] = FALSE]
  /\ clears' = [clears EXCEPT ![t] = 0]
  /\ call' = [call EXCEPT ![t] = [r \in AllCalls |-> NoCall]]
  /\ ghosts' = ghosts \cup Orphan(t)

-----------------------------------------------------------------------------
(* Signing in: the login page, applyNestLoginResponse.                     *)

LoginSubmit(t) ==
  /\ page[t] = "outside" /\ login[t].ph = "idle"
  /\ login' = [login EXCEPT ![t].ph = "sent"]
  /\ UNCHANGED <<nest, jar, mem, stale, wgen, store, page, restoring, refresh,
                 rotating, signout, handling, clears, call, ghosts, faults>>

\* Nest accepts the credentials; the tokens issued before stay valid.
NestLogin(t) ==
  /\ login[t].ph = "sent"
  /\ NestIssue(valid)
  /\ login' = [login EXCEPT ![t] =
                 [ph |-> "issued", pair |-> issued + 1, gen |-> 0, att |-> 0]]
  /\ UNCHANGED <<jar, mem, stale, wgen, store, page, restoring, refresh,
                 rotating, signout, handling, clears, call, ghosts, faults>>

LoginFails(t) ==
  /\ login[t].ph \in {"sent", "issued"}
  /\ Fault
  /\ login' = [login EXCEPT ![t] = NoLogin]
  /\ UNCHANGED <<nest, jar, mem, stale, wgen, store, page, restoring, refresh,
                 rotating, signout, handling, clears, call, ghosts>>

LoginReceive(t) ==
  /\ login[t].ph = "issued"
  /\ WriteRealAuthTokens(t, login[t].pair)
  /\ login' = [login EXCEPT ![t].ph = "persist", ![t].gen = wgen[t] + 1,
                            ![t].att = 1]
  /\ UNCHANGED <<nest, cookie, store, page, restoring, refresh, rotating,
                 signout, handling, call, ghosts, faults>>

\* The edge gate lets the tab into the app only with the presence cookie.
LoginPersisted(t) ==
  /\ login[t].ph = "persist"
  /\ cookie' = login[t].pair
  /\ SignedIn(t)
  /\ login' = [login EXCEPT ![t] = NoLogin]
  /\ page' = [page EXCEPT ![t] = IF presence THEN "app" ELSE "outside"]
  /\ UNCHANGED <<nest, tokens, restoring, refresh, rotating, signout,
                 handling, call, ghosts, faults>>

LoginPersistRetry(t) ==
  /\ login[t].ph = "persist" /\ login[t].att < MaxAttempts
  /\ Fault
  /\ login' = [login EXCEPT ![t].att = @ + 1]
  /\ UNCHANGED <<nest, jar, mem, stale, wgen, store, page, restoring, refresh,
                 rotating, signout, handling, clears, call, ghosts>>

\* The last attempt failed, or set-tokens answered 4xx.
LoginPersistFails(t) ==
  /\ login[t].ph = "persist"
  /\ Fault
  /\ IF WriteNotSuperseded(t, login[t].gen) THEN ClearRealAuthTokens(t, 1)
     ELSE UNCHANGED tokens
  /\ login' = [login EXCEPT ![t] = NoLogin]
  /\ UNCHANGED <<nest, cookie, store, page, restoring, refresh, rotating,
                 signout, handling, call, ghosts>>

-----------------------------------------------------------------------------
(* performRealRefresh and POST /api/auth/refresh.                          *)

\* The route forwards the cookie; Nest rotates; `me' may not be attached.
RouteRotates(t) ==
  /\ refresh[t].ph = "sent" /\ refresh[t].pair \in valid
  /\ NestIssue({})
  /\ \/ refresh' = [refresh EXCEPT ![t].ph = "fresh", ![t].pair = issued + 1,
                                   ![t].me = TRUE]
        /\ UNCHANGED faults
     \/ refresh' = [refresh EXCEPT ![t].ph = "fresh", ![t].pair = issued + 1]
        /\ Fault
  /\ UNCHANGED <<jar, mem, stale, wgen, store, page, restoring, rotating, login,
                 signout, handling, clears, call, ghosts>>

\* No cookie, or Nest answers 401 to a revoked token.
RouteRefuses(t) ==
  /\ refresh[t].ph = "sent" /\ refresh[t].pair \notin valid
  /\ refresh' = [refresh EXCEPT ![t].ph = "dead"]
  /\ UNCHANGED <<nest, jar, mem, stale, wgen, store, page, restoring, rotating,
                 login, signout, handling, clears, call, ghosts, faults>>

\* The route cannot reach Nest, or Nest answers with another error.
RouteFails(t) ==
  /\ refresh[t].ph = "sent"
  /\ Fault
  /\ refresh' = [refresh EXCEPT ![t].ph = "failed"]
  /\ UNCHANGED <<nest, jar, mem, stale, wgen, store, page, restoring, rotating,
                 login, signout, handling, clears, call, ghosts>>

\* A connection hangs before the headers have arrived: the request is still
\* being served, or its answer is lost with the cookies it carried.
RefreshHangs(t) ==
  /\ refresh[t].ph \in {"sent", "fresh", "dead", "failed"}
  /\ Fault
  /\ refresh' = [refresh EXCEPT ![t] = RefreshAt("hung", None)]
  /\ ghosts' = ghosts \cup Orphan(t)
  /\ UNCHANGED <<nest, jar, mem, stale, wgen, store, page, restoring, rotating,
                 login, signout, handling, clears, call>>

GhostRotates(p) ==
  /\ p \in ghosts
  /\ ghosts' = ghosts \ {p}
  /\ IF p \in valid THEN NestIssue({}) ELSE UNCHANGED nest
  /\ UNCHANGED <<jar, mem, stale, wgen, store, page, restoring, refresh,
                 rotating, login, signout, handling, clears, call, faults>>

\* Mutant: the refresh request has no timeout.
RefreshGivesUpOnError(t) ==
  /\ refresh[t].ph = "failed"
  /\ SettleTransient(t, FALSE)
  /\ UNCHANGED <<nest, cookie, page, login, ghosts, faults>>

\* REFRESH_TIMEOUT_MS, or a 5xx: the presence cookie stays.
RefreshGivesUp(t) ==
  /\ refresh[t].ph \in {"hung", "failed"}
  /\ SettleTransient(t, FALSE)
  /\ UNCHANGED <<nest, cookie, page, login, ghosts, faults>>

\* 401: the answer deletes the cookies, the tab forgets the session.
RefreshDead(t) ==
  /\ refresh[t].ph = "dead"
  /\ cookie' = None
  /\ SettleDead(t)
  /\ UNCHANGED <<nest, page, login, ghosts, faults>>

\* The headers of a 200 arrive, with the cookies; the timer is cleared.
RefreshHeaders(t) ==
  /\ refresh[t].ph = "fresh"
  /\ cookie' = refresh[t].pair
  /\ refresh' = [refresh EXCEPT ![t].ph = "body"]
  /\ UNCHANGED <<nest, presence, tokens, store, page, restoring, rotating, login,
                 signout, handling, call, ghosts, faults>>

\* The connection hangs after the headers: nothing bounds `await res.json()',
\* nor the reading of the fallback's `me'.
RefreshBodyHangs(t) ==
  /\ refresh[t].ph \in {"body", "me"}
  /\ Fault
  /\ refresh' = [refresh EXCEPT ![t].ph = "stuck"]
  /\ UNCHANGED <<nest, jar, mem, stale, wgen, store, page, restoring, rotating,
                 login, signout, handling, clears, call, ghosts>>

\* The connection breaks in the body, or the body is not JSON.
RefreshBodyLost(t) ==
  /\ refresh[t].ph = "body"
  /\ Fault
  /\ SettleTransient(t, FALSE)
  /\ UNCHANGED <<nest, cookie, page, login, ghosts>>

\* The body has been read: writeRealAuthTokens.
RefreshReceive(t) ==
  /\ refresh[t].ph = "body"
  /\ WriteRealAuthTokens(t, refresh[t].pair)
  /\ refresh' = [refresh EXCEPT ![t].ph = "persist", ![t].gen = wgen[t] + 1,
                                ![t].att = 1]
  /\ UNCHANGED <<nest, cookie, store, page, restoring, rotating, login, signout,
                 handling, call, ghosts, faults>>

RefreshPersisted(t) ==
  /\ refresh[t].ph = "persist"
  /\ cookie' = refresh[t].pair
  /\ IF refresh[t].me THEN SettleWithSession(t, refresh[t].pair)
     ELSE /\ refresh' = [refresh EXCEPT ![t].ph = "me"]
          /\ UNCHANGED <<store, rotating, call, restoring, handling, signout>>
  /\ UNCHANGED <<nest, tokens, page, login, ghosts, faults>>

RefreshPersistRetry(t) ==
  /\ refresh[t].ph = "persist" /\ refresh[t].att < MaxAttempts
  /\ Fault
  /\ refresh' = [refresh EXCEPT ![t].att = @ + 1]
  /\ UNCHANGED <<nest, jar, mem, stale, wgen, store, page, restoring, rotating,
                 login, signout, handling, clears, call, ghosts>>

RefreshPersistFails(t) ==
  /\ refresh[t].ph = "persist"
  /\ Fault
  /\ SettleTransient(t, WriteNotSuperseded(t, refresh[t].gen))
  /\ UNCHANGED <<nest, cookie, page, login, ghosts>>

\* The fallback of performRealRefresh: the route sent no user, so the tab
\* asks `me' itself, through the API client and its 401 hook.
RefreshAsksMe(t) ==
  /\ refresh[t].ph = "me"
  /\ \/ /\ mem[t] = None                    \* no surface: realFetchSession is null
        /\ SettleDead(t)
     \/ /\ mem[t] # None /\ refresh[t].pair \in valid
        /\ SettleWithSession(t, refresh[t].pair)
        /\ UNCHANGED tokens
     \/ /\ mem[t] # None /\ refresh[t].pair \notin valid
        /\ refresh' = [refresh EXCEPT ![t].ph = "selfwait"]
        /\ rotating' = [rotating EXCEPT ![t] = TRUE]
        /\ UNCHANGED <<tokens, store, call, restoring, handling, signout>>
  /\ UNCHANGED <<nest, cookie, page, login, ghosts, faults>>

RefreshMeLost(t) ==
  /\ refresh[t].ph = "me"
  /\ Fault
  /\ SettleTransient(t, FALSE)
  /\ UNCHANGED <<nest, cookie, page, login, ghosts>>

\* That `me' was retried by ky before it met the 401: a 403 for the caller.
\* (The trouble that cost the route its `me' goes on: no further fault.)
RefreshMeForbidden(t) ==
  /\ refresh[t].ph = "me" /\ mem[t] # None /\ refresh[t].pair \notin valid
  /\ SettleDead(t)
  /\ UNCHANGED <<nest, cookie, page, login, ghosts, faults>>

\* The refresh waits for the rotation that waits for the refresh; only a
\* timeout of ky around the hook would end it.
SelfWaitTimeout(t) ==
  /\ KyBoundsHooks
  /\ refresh[t].ph = "selfwait"
  /\ SettleTransient(t, FALSE)
  /\ UNCHANGED <<nest, cookie, page, login, ghosts, faults>>

-----------------------------------------------------------------------------
(* Signing out: AuthService.logout and realSignOut, for the menu and for   *)
(* handleUnauthorized.                                                     *)

MenuSignOut(t) ==
  /\ page[t] = "app" /\ boot[t] = "authenticated" /\ active[t]
  /\ signout[t]["menu"].ph = "idle"
  /\ signout' = [signout EXCEPT ![t]["menu"].ph = "start"]
  /\ UNCHANGED <<nest, jar, mem, stale, wgen, store, page, restoring, refresh,
                 rotating, login, handling, clears, call, ghosts, faults>>

\* After the paint: the handler first empties the store; without a surface
\* in memory there is no POST.
SignOutStart(t, k) ==
  /\ signout[t][k].ph = "start"
  /\ signout' = [signout EXCEPT ![t][k].ph =
                   IF mem[t] = None THEN "done" ELSE "wait"]
  /\ IF k = "handler" THEN SignedOut(t) ELSE UNCHANGED store
  /\ UNCHANGED <<nest, jar, mem, stale, wgen, page, restoring, refresh,
                 rotating, login, handling, clears, call, ghosts, faults>>

\* resolveBearerToken joins a rotation in flight before the POST leaves.
SignOutPost(t, k) ==
  /\ signout[t][k].ph = "wait" /\ ~rotating[t]
  /\ signout' = [signout EXCEPT ![t][k] = [ph |-> "post", pair |-> Access(t)]]
  /\ UNCHANGED <<nest, jar, mem, stale, wgen, store, page, restoring, refresh,
                 rotating, login, handling, clears, call, ghosts, faults>>

\* Nest revokes the account's tokens, or does not know the bearer (401).
NestSignOut(t, k) ==
  /\ signout[t][k].ph = "post"
  /\ LET known == signout[t][k].pair \in valid IN
     /\ valid' = IF known THEN {} ELSE valid
     /\ signout' = [signout EXCEPT ![t][k].ph = IF known THEN "done"
                                                ELSE "unauth"]
  /\ UNCHANGED <<issued, jar, mem, stale, wgen, store, page, restoring,
                 refresh, rotating, login, handling, clears, call, ghosts,
                 faults>>

\* The answer to the POST is lost, or is an error, with a body to read; the
\* error is swallowed.  (A sign-out that Nest grants is a 204.)
SignOutLost(t, k) ==
  /\ signout[t][k].ph = "post"
  /\ Fault
  /\ \E ph \in {"done", "body"} :
       signout' = [signout EXCEPT ![t][k].ph = ph]
  /\ UNCHANGED <<nest, jar, mem, stale, wgen, store, page, restoring, refresh,
                 rotating, login, handling, clears, call, ghosts>>

\* mapHttpError has the body of the error; or that body hangs for ever.
SignOutErrorRead(t, k) ==
  /\ signout[t][k].ph = "body"
  /\ signout' = [signout EXCEPT ![t][k].ph = "done"]
  /\ UNCHANGED <<nest, jar, mem, stale, wgen, store, page, restoring, refresh,
                 rotating, login, handling, clears, call, ghosts, faults>>

SignOutBodyHangs(t, k) ==
  /\ signout[t][k].ph = "body"
  /\ Fault
  /\ signout' = [signout EXCEPT ![t][k].ph = "stuck"]
  /\ UNCHANGED <<nest, jar, mem, stale, wgen, store, page, restoring, refresh,
                 rotating, login, handling, clears, call, ghosts>>

\* Mutant: the handler forgets that it is running.
SignOut401Reenters(t, k) ==
  /\ signout[t][k].ph = "unauth"
  /\ handling' = [handling EXCEPT ![t] = TRUE]
  /\ signout' = [signout EXCEPT ![t][k].ph = "blocked",
                                ![t]["handler"].ph = "start"]
  /\ UNCHANGED <<nest, jar, mem, stale, wgen, store, page, restoring, refresh,
                 rotating, login, clears, call, ghosts, faults>>

\* A 401 on the logout path is not refreshed (shouldSkipTokenRefresh): the
\* hook runs the handler, which signs out once more unless it is running.
SignOut401(t, k) ==
  /\ signout[t][k].ph = "unauth"
  /\ IF handling[t] \/ page[t] = "outside"
     THEN /\ signout' = [signout EXCEPT ![t][k].ph = "body"]
          /\ IF handling[t] THEN UNCHANGED store ELSE SignedOut(t)
          /\ UNCHANGED handling
     ELSE /\ handling' = [handling EXCEPT ![t] = TRUE]
          /\ signout' = [signout EXCEPT ![t][k].ph = "blocked",
                                        ![t]["handler"].ph = "start"]
          /\ UNCHANGED store
  /\ UNCHANGED <<nest, jar, mem, stale, wgen, page, restoring, refresh,
                 rotating, login, clears, call, ghosts, faults>>

\* The finally of realSignOut; then the menu leaves the app by a soft
\* navigation, with the module state of the tab kept.
MenuSignedOut(t) ==
  /\ signout[t]["menu"].ph = "done"
  /\ ClearRealAuthTokens(t, 1)
  /\ SignedOut(t)
  /\ signout' = [signout EXCEPT ![t]["menu"] = NoSignOut]
  /\ page' = [page EXCEPT ![t] = "outside"]
  /\ UNCHANGED <<nest, cookie, restoring, refresh, rotating, login, handling,
                 call, ghosts, faults>>

\* handleUnauthorized ends in location.assign: a document load that drops
\* the clear-tokens request, unless the tab has left the app already.
HandlerSignedOut(t) ==
  /\ signout[t]["handler"].ph = "done"
  /\ presence' = FALSE
  /\ IF page[t] = "app"
     THEN ResetTab(t) /\ page' = [page EXCEPT ![t] = "outside"]
     ELSE /\ ClearRealAuthTokens(t, 1)
          /\ SignedOut(t)
          /\ signout' = [signout EXCEPT ![t] = [k \in SignOuts |->
                  IF k = "handler" THEN NoSignOut
                  ELSE IF signout[t][k].ph = "blocked"
                       THEN [signout[t][k] EXCEPT !.ph = "body"]
                       ELSE signout[t][k]]]
          /\ handling' = [handling EXCEPT ![t] = FALSE]
          /\ UNCHANGED <<page, restoring, refresh, rotating, login, call,
                         ghosts>>
  /\ UNCHANGED <<nest, cookie, faults>>

\* Mutant: an answer is also seen when no request is open.
ClearTokensUnasked(t) ==
  /\ clears' = [clears EXCEPT ![t] = @ - 1]
  /\ cookie' = None
  /\ UNCHANGED <<nest, presence, mem, stale, wgen, store, page, restoring,
                 refresh, rotating, login, signout, handling, call, ghosts,
                 faults>>

\* clear-tokens is answered: the browser drops the refresh cookie of the
\* moment, whoever set it; or the request fails and nobody notices.
ClearTokensAnswered(t) ==
  /\ clears[t] > 0
  /\ clears' = [clears EXCEPT ![t] = @ - 1]
  /\ \/ cookie' = None /\ UNCHANGED faults
     \/ cookie' = cookie /\ Fault
  /\ UNCHANGED <<nest, presence, mem, stale, wgen, store, page, restoring,
                 refresh, rotating, login, signout, handling, call, ghosts>>

-----------------------------------------------------------------------------
(* API calls and their 401 hook.                                           *)

\* request: the bearer is the token in memory; it joins a rotation first.
StartCall(t, r) ==
  /\ page[t] = "app" /\ boot[t] = "authenticated" /\ active[t]
  /\ call[t][r].ph = "idle" /\ ~rotating[t]
  /\ call' = [call EXCEPT ![t][r] = [ph |-> "sent", pair |-> Access(t)]]
  /\ UNCHANGED <<nest, jar, mem, stale, wgen, store, page, restoring, refresh,
                 rotating, login, signout, handling, clears, ghosts, faults>>

\* The boot call has its result: dispatch, sign out, or the error screen.
BootResult(t, r, result) ==
  IF r # BootCall THEN UNCHANGED <<tokens, store, restoring>>
  ELSE /\ restoring' = [restoring EXCEPT ![t] = "no"]
       /\ CASE result = "ok" -> SignedIn(t) /\ UNCHANGED tokens
            [] result = "forbidden" -> ClearRealAuthTokens(t, 1) /\ SignedOut(t)
            [] result = "lost" ->
                 /\ boot' = [boot EXCEPT ![t] = IF @ = "null" THEN "error" ELSE @]
                 /\ UNCHANGED <<active, tokens>>

\* Nest accepts the bearer, at the first or the second try.
CallAnswered(t, r) ==
  /\ call[t][r].ph \in {"sent", "resent"} /\ call[t][r].pair \in valid
  /\ call' = [call EXCEPT ![t][r] = NoCall]
  /\ BootResult(t, r, "ok")
  /\ UNCHANGED <<nest, cookie, page, refresh, rotating, login, signout,
                 handling, ghosts, faults>>

CallRefused(t, r) ==
  /\ call[t][r].ph = "sent" /\ call[t][r].pair \notin valid
  /\ call' = [call EXCEPT ![t][r] = [ph |-> "unauth", pair |-> None]]
  /\ UNCHANGED <<nest, jar, mem, stale, wgen, store, page, restoring, refresh,
                 rotating, login, signout, handling, clears, ghosts, faults>>

\* afterResponse, first 401: rotate, or join the rotation of another call.
CallRotates(t, r) ==
  /\ call[t][r].ph = "unauth"
  /\ call' = [call EXCEPT ![t][r].ph = "rot"]
  /\ RotateRealAccessToken(t)
  /\ UNCHANGED <<nest, jar, mem, stale, wgen, store, page, restoring, login,
                 signout, handling, clears, ghosts, faults>>

\* afterResponse, 401 of the retry: an error of the call, not of the session.
CallForbidden(t, r) ==
  /\ call[t][r].ph = "resent" /\ call[t][r].pair \notin valid
  /\ call' = [call EXCEPT ![t][r] = NoCall]
  /\ BootResult(t, r, "forbidden")
  /\ UNCHANGED <<nest, cookie, page, refresh, rotating, login, signout,
                 handling, ghosts, faults>>

\* ky sends a GET once more after a 5xx or a broken connection; that was the
\* retry, so a 401 that follows is not refreshed any more.
CallRetried(t, r) ==
  /\ call[t][r].ph = "sent"
  /\ Fault
  /\ call' = [call EXCEPT ![t][r].ph = "resent"]
  /\ UNCHANGED <<nest, jar, mem, stale, wgen, store, page, restoring, refresh,
                 rotating, login, signout, handling, clears, ghosts>>

CallLost(t, r) ==
  /\ call[t][r].ph \in {"sent", "resent"}
  /\ Fault
  /\ call' = [call EXCEPT ![t][r] = NoCall]
  /\ BootResult(t, r, "lost")
  /\ UNCHANGED <<nest, cookie, page, refresh, rotating, login, signout,
                 handling, ghosts>>

\* The headers have come, which ends ky's timer, and the body hangs.
CallBodyHangs(t, r) ==
  /\ call[t][r].ph \in {"sent", "resent"}
  /\ Fault
  /\ call' = [call EXCEPT ![t][r].ph = "stuck"]
  /\ UNCHANGED <<nest, jar, mem, stale, wgen, store, page, restoring, refresh,
                 rotating, login, signout, handling, clears, ghosts>>

-----------------------------------------------------------------------------
(* The guard of the app, the boot restore, keep-alive, time, navigation.   *)

\* ensureAuthRestore(restoreBootSession), also by the retry of the error
\* screen: `me' with the token in memory, else a refresh.
RestoreStart(t) ==
  /\ page[t] = "app" /\ boot[t] \in {"null", "error"} /\ restoring[t] = "no"
  /\ boot' = [boot EXCEPT ![t] = "null"]
  /\ IF Access(t) # None
     THEN /\ restoring' = [restoring EXCEPT ![t] = "me"]
          /\ call' = [call EXCEPT ![t][BootCall] =
                        [ph |-> "sent", pair |-> Access(t)]]
          /\ UNCHANGED refresh
     ELSE /\ restoring' = [restoring EXCEPT ![t] = "refresh"]
          /\ JoinRefresh(t)
          /\ UNCHANGED call
  /\ UNCHANGED <<nest, jar, mem, stale, wgen, active, page, rotating, login,
                 signout, handling, clears, ghosts, faults>>

\* SessionKeepAlive: shouldWarmAccessToken, on focus or by its timer (during
\* a slow sign-out too: the leaving loader hides the app for 8 s at most).
KeepAlive(t) ==
  /\ page[t] = "app" /\ boot[t] = "authenticated" /\ active[t]
  /\ Access(t) = None /\ ~rotating[t]
  /\ RotateRealAccessToken(t)
  /\ UNCHANGED <<nest, jar, mem, stale, wgen, store, page, restoring, login,
                 signout, handling, clears, call, ghosts, faults>>

\* The clock passes tokenExpires minus the skew (bound: while pairs last).
AccessExpires(t) ==
  /\ mem[t] # None /\ ~stale[t] /\ issued < MaxPair
  /\ stale' = [stale EXCEPT ![t] = TRUE]
  /\ UNCHANGED <<nest, jar, mem, wgen, store, page, restoring, refresh,
                 rotating, login, signout, handling, clears, call, ghosts,
                 faults>>

\* UnauthenticatedRedirect; AUTH_TRANSITION_FAILSAFE_MS after its start a
\* sign-out does not hold it back any more.
GuardRedirects(t) ==
  /\ page[t] = "app" /\ boot[t] = "unauthenticated"
  /\ page' = [page EXCEPT ![t] = "outside"]
  /\ UNCHANGED <<nest, jar, mem, stale, wgen, store, restoring, refresh,
                 rotating, login, signout, handling, clears, call, ghosts,
                 faults>>

\* A soft navigation to the app (or to a login page the edge redirects).
OpenApp(t) ==
  /\ page[t] = "outside" /\ presence
  /\ page' = [page EXCEPT ![t] = "app"]
  /\ UNCHANGED <<nest, jar, mem, stale, wgen, store, restoring, refresh,
                 rotating, login, signout, handling, clears, call, ghosts,
                 faults>>

\* Reload, or a new tab in the place of an old one.
Reload(t) ==
  /\ ResetTab(t)
  /\ page' = [page EXCEPT ![t] = IF presence THEN "app" ELSE "outside"]
  /\ UNCHANGED <<nest, jar, faults>>

-----------------------------------------------------------------------------

LoginNext(t) ==
  \/ LoginSubmit(t) \/ NestLogin(t) \/ LoginFails(t) \/ LoginReceive(t)
  \/ LoginPersisted(t) \/ LoginPersistRetry(t) \/ LoginPersistFails(t)

RefreshNext(t) ==
  \/ RouteRotates(t) \/ RouteRefuses(t) \/ RouteFails(t) \/ RefreshHangs(t)
  \/ RefreshGivesUp(t) \/ RefreshDead(t) \/ RefreshHeaders(t)
  \/ RefreshBodyHangs(t) \/ RefreshBodyLost(t) \/ RefreshReceive(t)
  \/ RefreshPersisted(t) \/ RefreshPersistRetry(t) \/ RefreshPersistFails(t)
  \/ RefreshAsksMe(t) \/ RefreshMeLost(t) \/ RefreshMeForbidden(t)
  \/ SelfWaitTimeout(t)

SignOutNext(t) ==
  \/ MenuSignOut(t) \/ MenuSignedOut(t) \/ HandlerSignedOut(t)
  \/ ClearTokensAnswered(t)
  \/ \E k \in SignOuts :
       \/ SignOutStart(t, k) \/ SignOutPost(t, k) \/ NestSignOut(t, k)
       \/ SignOutLost(t, k) \/ SignOut401(t, k) \/ SignOutErrorRead(t, k)
       \/ SignOutBodyHangs(t, k)

CallNext(t) ==
  \/ \E r \in Calls : StartCall(t, r)
  \/ \E r \in AllCalls :
       \/ CallAnswered(t, r) \/ CallRefused(t, r) \/ CallRotates(t, r)
       \/ CallForbidden(t, r) \/ CallRetried(t, r) \/ CallLost(t, r)
       \/ CallBodyHangs(t, r)

GuardNext(t) ==
  \/ RestoreStart(t) \/ KeepAlive(t) \/ AccessExpires(t)
  \/ GuardRedirects(t) \/ OpenApp(t) \/ Reload(t)

Next ==
  \/ \E t \in Tabs : LoginNext(t) \/ RefreshNext(t) \/ SignOutNext(t)
                     \/ CallNext(t) \/ GuardNext(t)
  \/ \E p \in Pair : GhostRotates(p)

Spec == Init /\ [][Next]_vars

-----------------------------------------------------------------------------
(* Fairness: the event loop runs every continuation that can run, and every *)
(* request is answered or abandoned at its timeout as long as its headers   *)
(* have not come.  A body that hangs ("stuck") and, unless KyBoundsHooks, a  *)
(* refresh that waits for itself ("selfwait") are ended by nothing.  Faults, *)
(* the clock and what the user does are not fair.                           *)

RefreshSteps(t) ==
  \/ RouteRotates(t) \/ RouteRefuses(t) \/ RefreshHeaders(t)
  \/ RefreshReceive(t) \/ RefreshDead(t)
  \/ RefreshGivesUp(t) \/ RefreshPersisted(t) \/ RefreshAsksMe(t)
  \/ SelfWaitTimeout(t)

SignOutSteps(t, k) ==
  \/ SignOutStart(t, k) \/ SignOutPost(t, k) \/ NestSignOut(t, k)
  \/ SignOut401(t, k) \/ SignOutErrorRead(t, k)
  \/ k = "menu" /\ MenuSignedOut(t)
  \/ k = "handler" /\ HandlerSignedOut(t)

CallSteps(t, r) ==
  \/ CallAnswered(t, r) \/ CallRefused(t, r) \/ CallRotates(t, r)
  \/ CallForbidden(t, r)

Fairness ==
  \A t \in Tabs :
    /\ WF_vars(RefreshSteps(t))
    /\ \A k \in SignOuts : WF_vars(SignOutSteps(t, k))
    /\ \A r \in AllCalls : WF_vars(CallSteps(t, r))

FairSpec == Spec /\ Fairness

(* A working day: nobody signs out or reloads, a tab signs in once and opens *)
(* the app when the sign-in is over.  Calls, expiry, keep-alive and restores *)
(* happen as they please, and nothing is lost.                               *)
WorkNext ==
  \E t \in Tabs :
    \/ issued = 0 /\ LoginSubmit(t)
    \/ NestLogin(t) \/ LoginReceive(t) \/ LoginPersisted(t)
    \/ RefreshSteps(t)
    \/ SignOutStart(t, "handler") \/ SignOutPost(t, "handler")
    \/ NestSignOut(t, "handler") \/ SignOut401(t, "handler")
    \/ SignOutErrorRead(t, "handler")
    \/ HandlerSignedOut(t) \/ ClearTokensAnswered(t)
    \/ \E r \in Calls : StartCall(t, r)
    \/ \E r \in AllCalls : CallSteps(t, r)
    \/ RestoreStart(t) \/ KeepAlive(t) \/ AccessExpires(t)
    \/ GuardRedirects(t)
    \/ (\A u \in Tabs : login[u].ph = "idle") /\ OpenApp(t)

WorkSpec == Init /\ [][WorkNext]_vars

-----------------------------------------------------------------------------
(* Properties.                                                              *)

\* The store and the boot flag of a tab never disagree about the session,
\* whichever of login, refresh, 401 handler, restore and sign-out wrote last:
\* the guard shows the app exactly when there is a user to show it to.
StoreMatchesBoot == \A t \in Tabs : active[t] <=> boot[t] = "authenticated"

\* A set-tokens that fails erases nothing but the tokens its own write put in
\* memory: a pair that another write stored meanwhile survives the rollback
\* (the generation test of writeRealAuthTokens).
RollbackSparesNewerTokens ==
  [][\A t \in Tabs :
       /\ LoginPersistFails(t) => mem[t] \in {login[t].pair, mem'[t]}
       /\ RefreshPersistFails(t) /\ ~BootGivesUp(t)
            => mem[t] \in {refresh[t].pair, mem'[t]}]_vars

\* While a tab is alone and its user only works, its session never dies:
\* however many calls meet a 401, with keep-alive and restore at the same
\* time, no refresh is refused and no 401 signs the tab out.
WorkingSessionSurvives ==
  \A t \in Tabs :
    /\ refresh[t].ph = "dead" => refresh[t].pair = None
    /\ ~handling[t]

\* Whoever waits in a tab waits for something under way: a call for the
\* rotation, the rotation and the boot restore for the refresh or for `me',
\* a sign-out that met a 401 for the handler, and the handler's flag is up
\* only while it runs.  However refreshes, calls, sign-outs, timeouts and
\* document loads interleave, no promise is dropped with somebody behind it
\* (the finally blocks of api-token.ts and bridge/session.ts).
NobodyWaitsInVain ==
  \A t \in Tabs :
    /\ \A r \in AllCalls : call[t][r].ph = "rot" => rotating[t]
    /\ rotating[t] \/ restoring[t] = "refresh" => refresh[t].ph # "idle"
    /\ restoring[t] = "me" => call[t][BootCall].ph # "idle"
    /\ signout[t]["menu"].ph = "blocked" => handling[t]
    /\ handling[t] <=> signout[t]["handler"].ph \notin {"idle", "blocked"}

\* The bound on pairs holds a refresh back (the only place where it does).
AtBound(t) ==
  issued = MaxPair /\ refresh[t].ph = "sent" /\ refresh[t].pair \in valid

\* A refresh that nothing ends: its body hangs, or it waits for the rotation
\* that waits for it.
RefreshStuck(t) == refresh[t].ph \in {"stuck", "selfwait"}

\* The boot restore ends, so the guard does not stay pending, except behind a
\* refresh or a `me' whose body hangs and behind a refresh that waits for
\* itself: every other hang, loss and interleaving is ended by a timeout
\* (REFRESH_TIMEOUT_MS, ky) and the finally blocks that release who waits.
RestoreEnds ==
  \A t \in Tabs : restoring[t] # "no" ~>
    \/ restoring[t] = "no"
    \/ RefreshStuck(t) \/ call[t][BootCall].ph = "stuck"
    \/ AtBound(t)

\* A sign-out that has begun ends, also when its own POST meets a 401 and the
\* handler signs out inside the sign-out, unless the body of an error answer
\* to a POST hangs or a rotation it waits for is behind a stuck refresh.
SignOutEnds ==
  \A t \in Tabs : \A k \in SignOuts :
    signout[t][k].ph # "idle" ~>
      \/ signout[t][k].ph = "idle"
      \/ RefreshStuck(t) \/ \E j \in SignOuts : signout[t][j].ph = "stuck"
      \/ AtBound(t)

=============================================================================
