-------------------------- MODULE AuthSessionProofs --------------------------
(***************************************************************************)
(* Proofs about AuthSession, for any set of tabs and calls and any bounds: *)
(* type correctness, the agreement of store and boot flag, that a failed    *)
(* set-tokens spares the tokens of a newer write, and that the session of  *)
(* a tab that is alone survives a working day.                             *)
(***************************************************************************)
EXTENDS AuthSession, TLAPS

(* The conjuncts of TypeOK, grouped as the building blocks change them.    *)
NestOK == issued \in PairOrNone /\ valid \subseteq Pair
TokensOK ==
  /\ mem \in [Tabs -> PairOrNone]
  /\ stale \in [Tabs -> BOOLEAN]
  /\ wgen \in [Tabs -> Nat]
  /\ presence \in BOOLEAN
  /\ clears \in [Tabs -> Nat]
StoreOK ==
  /\ active \in [Tabs -> BOOLEAN]
  /\ boot \in [Tabs -> {"null", "authenticated", "unauthenticated", "error"}]
FlightOK ==
  /\ refresh \in [Tabs -> Refresh]
  /\ rotating \in [Tabs -> BOOLEAN]
  /\ restoring \in [Tabs -> {"no", "refresh", "me"}]
  /\ call \in [Tabs -> [AllCalls -> Call]]
  /\ handling \in [Tabs -> BOOLEAN]
  /\ signout \in [Tabs -> [SignOuts -> SignOut]]
RestOK ==
  /\ cookie \in PairOrNone
  /\ page \in [Tabs -> {"app", "outside"}]
  /\ login \in [Tabs -> Login]
  /\ ghosts \subseteq Pair
  /\ faults \in Nat

(* TypeOK is the conjunction of the groups. *)
LEMMA TypeParts == TypeOK <=> NestOK /\ TokensOK /\ StoreOK /\ FlightOK /\ RestOK
  BY DEF TypeOK, NestOK, TokensOK, StoreOK, FlightOK, RestOK

LEMMA TypePartsNext ==
  NestOK' /\ TokensOK' /\ StoreOK' /\ FlightOK' /\ RestOK' => TypeOK'
  BY DEF TypeOK, NestOK, TokensOK, StoreOK, FlightOK, RestOK

(* The records the building blocks store have their types. *)
LEMMA RecordTypes ==
  /\ None \in PairOrNone
  /\ Pair \subseteq PairOrNone
  /\ PairOrNone \ {None} = Pair
  /\ NoRefresh \in Refresh /\ NoLogin \in Login
  /\ NoSignOut \in SignOut /\ NoCall \in Call
  /\ [ph |-> "start", pair |-> None] \in SignOut
  /\ "menu" \in SignOuts /\ "handler" \in SignOuts
  /\ BootCall \in AllCalls
<1>1. None \in PairOrNone /\ Pair \subseteq PairOrNone
      /\ PairOrNone \ {None} = Pair
  BY SessionAssumption DEF None, Pair, PairOrNone
<1>2. NoRefresh \in Refresh /\ NoLogin \in Login
  BY <1>1 DEF NoRefresh, RefreshAt, Refresh, RefreshPhase, NoLogin, Login
<1>3. /\ NoSignOut \in SignOut /\ NoCall \in Call
      /\ [ph |-> "start", pair |-> None] \in SignOut
  BY <1>1 DEF NoSignOut, SignOut, NoCall, Call
<1> QED BY <1>1, <1>2, <1>3 DEF SignOuts, AllCalls

(* The smallest building blocks keep the types of what they write. *)
LEMMA ClearTypes ==
  ASSUME TokensOK, NEW t \in Tabs, NEW n \in Nat, ClearRealAuthTokens(t, n)
  PROVE  TokensOK'
<1>1. clears[t] + n \in Nat BY DEF TokensOK
<1>2. clears' \in [Tabs -> Nat] BY <1>1 DEF TokensOK, ClearRealAuthTokens
<1> QED BY <1>2, RecordTypes DEF TokensOK, ClearRealAuthTokens

LEMMA WriteTypes ==
  ASSUME TokensOK, NEW t \in Tabs, NEW p \in PairOrNone,
         WriteRealAuthTokens(t, p)
  PROVE  TokensOK'
  BY DEF TokensOK, WriteRealAuthTokens

LEMMA StoreTypes ==
  ASSUME StoreOK, NEW t \in Tabs, SignedIn(t) \/ SignedOut(t)
  PROVE  StoreOK'
  BY DEF StoreOK, SignedIn, SignedOut

LEMMA JoinTypes ==
  ASSUME TypeOK, NEW t \in Tabs, JoinRefresh(t)
  PROVE  refresh' \in [Tabs -> Refresh]
<1>1. RefreshAt("sent", cookie) \in Refresh
  BY RecordTypes DEF TypeOK, RefreshAt, Refresh, RefreshPhase
<1> QED BY <1>1 DEF TypeOK, JoinRefresh

LEMMA IssueTypes ==
  ASSUME NestOK, NEW kept \in SUBSET Pair, NestIssue(kept)
  PROVE  NestOK' /\ issued + 1 \in Pair /\ issued' = issued + 1
  BY SessionAssumption DEF NestOK, NestIssue, Pair, PairOrNone

(* The promise of the refresh settles: everything that waits for it is      *)
(* released with values of the right type.                                  *)
LEMMA SettleTypes ==
  ASSUME FlightOK, NEW t \in Tabs, NEW p \in PairOrNone, Settle(t, p)
  PROVE  FlightOK'
<1>1. refresh' \in [Tabs -> Refresh] /\ rotating' \in [Tabs -> BOOLEAN]
  BY RecordTypes DEF FlightOK, Settle
<1>2. restoring' \in [Tabs -> {"no", "refresh", "me"}]
  BY DEF FlightOK, Settle
<1>3. call' \in [Tabs -> [AllCalls -> Call]]
  <2>1. [ph |-> "resent", pair |-> p] \in Call BY DEF Call
  <2> QED BY RecordTypes, <2>1 DEF FlightOK, Settle
<1>4. handling' \in [Tabs -> BOOLEAN] /\ signout' \in [Tabs -> [SignOuts -> SignOut]]
  <2>1. CASE p = None /\ Waiting(t)
    <3>1. CASE handling[t] \/ page[t] = "outside"
      BY <2>1, <3>1 DEF FlightOK, Settle, StartHandler
    <3>2. CASE ~(handling[t] \/ page[t] = "outside")
      <4>1. handling' = [handling EXCEPT ![t] = TRUE]
        BY <2>1, <3>2 DEF Settle, StartHandler
      <4>2. signout' = [signout EXCEPT ![t]["handler"] =
                          [ph |-> "start", pair |-> None]]
        BY <2>1, <3>2 DEF Settle, StartHandler
      <4> QED BY <4>1, <4>2, RecordTypes DEF FlightOK
    <3> QED BY <3>1, <3>2
  <2>2. CASE ~(p = None /\ Waiting(t))
    BY <2>2 DEF FlightOK, Settle
  <2> QED BY <2>1, <2>2
<1> QED BY <1>1, <1>2, <1>3, <1>4 DEF FlightOK

LEMMA SettleDeadTypes ==
  ASSUME TypeOK, NEW t \in Tabs, SettleDead(t)
  PROVE  TokensOK' /\ StoreOK' /\ FlightOK'
<1>1. TokensOK'
  <2>1. PICK n \in Nat : ClearRealAuthTokens(t, n)
    BY DEF SettleDead
  <2> QED BY <2>1, ClearTypes, TypeParts
<1>2. StoreOK' BY StoreTypes, TypeParts DEF SettleDead
<1>3. FlightOK' BY SettleTypes, RecordTypes, TypeParts DEF SettleDead
<1> QED BY <1>1, <1>2, <1>3

LEMMA SettleTransientTypes ==
  ASSUME TypeOK, NEW t \in Tabs, NEW rb \in BOOLEAN, SettleTransient(t, rb)
  PROVE  TokensOK' /\ StoreOK' /\ FlightOK'
<1>1. TokensOK'
  <2>1. CASE rb \/ BootGivesUp(t)
    <3>1. PICK n \in Nat : ClearRealAuthTokens(t, n)
      BY <2>1 DEF SettleTransient
    <3> QED BY <3>1, ClearTypes, TypeParts
  <2>2. CASE ~(rb \/ BootGivesUp(t))
    BY <2>2, TypeParts DEF SettleTransient, tokens, TokensOK
  <2> QED BY <2>1, <2>2
<1>2. StoreOK'
  <2>1. CASE SignedOut(t) BY <2>1, StoreTypes, TypeParts
  <2>2. CASE ~SignedOut(t)
    BY <2>2, TypeParts DEF SettleTransient, StoreOK
  <2> QED BY <2>1, <2>2
<1>3. FlightOK' BY SettleTypes, RecordTypes, TypeParts DEF SettleTransient
<1> QED BY <1>1, <1>2, <1>3

LEMMA ResetTypes ==
  ASSUME TypeOK, NEW t \in Tabs, ResetTab(t)
  PROVE  /\ mem' \in [Tabs -> PairOrNone] /\ stale' \in [Tabs -> BOOLEAN]
         /\ wgen' \in [Tabs -> Nat] /\ clears' \in [Tabs -> Nat]
         /\ StoreOK' /\ FlightOK'
         /\ login' \in [Tabs -> Login] /\ ghosts' \subseteq Pair
<1>1. Orphan(t) \subseteq Pair
  BY RecordTypes DEF Orphan, TypeOK, Refresh
<1>2. StoreOK' BY DEF TypeOK, ResetTab, StoreOK
<1>3. FlightOK' BY RecordTypes DEF TypeOK, ResetTab, FlightOK
<1>4. /\ mem' \in [Tabs -> PairOrNone] /\ stale' \in [Tabs -> BOOLEAN]
      /\ wgen' \in [Tabs -> Nat] /\ clears' \in [Tabs -> Nat]
  BY RecordTypes DEF TypeOK, ResetTab
<1>5. login' \in [Tabs -> Login] /\ ghosts' \subseteq Pair
  BY RecordTypes, <1>1 DEF TypeOK, ResetTab
<1> QED BY <1>2, <1>3, <1>4, <1>5

(* A change of phase keeps the records of the two flights that most actions move. *)
LEMMA PhaseTypes ==
  ASSUME TypeOK, NEW t \in Tabs
  PROVE  /\ \A ph \in RefreshPhase : [refresh EXCEPT ![t].ph = ph] \in [Tabs -> Refresh]
         /\ \A ph \in {"idle", "sent", "issued", "persist"} :
              [login EXCEPT ![t].ph = ph] \in [Tabs -> Login]
<1>1. refresh \in [Tabs -> Refresh] /\ login \in [Tabs -> Login] BY DEF TypeOK
<1>2. \A r \in Refresh : \A ph \in RefreshPhase : [r EXCEPT !.ph = ph] \in Refresh
  BY DEF Refresh
<1>3. \A l \in Login : \A ph \in {"idle", "sent", "issued", "persist"} :
        [l EXCEPT !.ph = ph] \in Login
  BY DEF Login
<1> QED BY <1>1, <1>2, <1>3

-----------------------------------------------------------------------------
(* Each action keeps TypeOK; the steps follow the groups of Next. *)

LEMMA LoginTypes ==
  ASSUME TypeOK, NEW t \in Tabs, LoginNext(t)
  PROVE  TypeOK'
<1> USE TypeParts, TypePartsNext
<1>1. CASE LoginSubmit(t)
  <2>1. login' \in [Tabs -> Login]
    BY <1>1, PhaseTypes DEF LoginSubmit
  <2> QED BY <1>1, <2>1 DEF LoginSubmit, TypeOK, nest, jar, store
<1>2. CASE NestLogin(t)
  <2>1. NestOK' /\ issued + 1 \in PairOrNone
    BY <1>2, IssueTypes, RecordTypes DEF NestLogin, NestOK
  <2>2. login' \in [Tabs -> Login]
    BY <1>2, <2>1 DEF NestLogin, TypeOK, Login
  <2> QED BY <1>2, <2>1, <2>2 DEF NestLogin, TypeOK, NestOK, jar, store
<1>3. CASE LoginFails(t)
  BY <1>3, RecordTypes DEF LoginFails, Fault, TypeOK, nest, jar, store
<1>4. CASE LoginReceive(t)
  <2>1. login[t].pair \in PairOrNone /\ wgen[t] + 1 \in Nat
    BY DEF TypeOK, Login
  <2>2. TokensOK'
    BY <1>4, <2>1, WriteTypes DEF LoginReceive
  <2>3. login' \in [Tabs -> Login]
    <3>1. login' = [login EXCEPT ![t].ph = "persist",
                                 ![t].gen = wgen[t] + 1, ![t].att = 1]
      BY <1>4 DEF LoginReceive
    <3>2. login \in [Tabs -> Login] BY DEF TypeOK
    <3>3. login[t] \in Login BY <3>2
    <3>4. ASSUME NEW n \in Nat
          PROVE  [login[t] EXCEPT !.ph = "persist", !.gen = n, !.att = 1] \in Login
      BY <3>3 DEF Login
    <3> QED BY <3>1, <3>2, <3>4, <2>1
  <2> QED BY <1>4, <2>2, <2>3 DEF LoginReceive, TypeOK, TokensOK, nest, store
<1>5. CASE LoginPersisted(t)
  <2>1. StoreOK' /\ login[t].pair \in PairOrNone
    BY <1>5, StoreTypes DEF LoginPersisted, TypeOK, Login
  <2>2. login' \in [Tabs -> Login] /\ page' \in [Tabs -> {"app", "outside"}]
    BY <1>5, RecordTypes DEF LoginPersisted, TypeOK
  <2> QED BY <1>5, <2>1, <2>2
          DEF LoginPersisted, TypeOK, StoreOK, nest, tokens
<1>6. CASE LoginPersistRetry(t)
  <2>1. login[t].att + 1 \in Nat BY DEF TypeOK, Login
  <2>2. login' \in [Tabs -> Login]
    <3>1. login' = [login EXCEPT ![t].att = login[t].att + 1]
      BY <1>6 DEF LoginPersistRetry, TypeOK
    <3>2. login \in [Tabs -> Login] BY DEF TypeOK
    <3>3. ASSUME NEW n \in Nat
          PROVE  [login EXCEPT ![t].att = n] \in [Tabs -> Login]
      BY <3>2 DEF Login
    <3> QED BY <3>1, <3>3, <2>1
  <2> QED BY <1>6, <2>2 DEF LoginPersistRetry, Fault, TypeOK, nest, jar, store
<1>7. CASE LoginPersistFails(t)
  <2>1. TokensOK'
    <3>1. CASE WriteNotSuperseded(t, login[t].gen)
      BY <1>7, <3>1, ClearTypes DEF LoginPersistFails
    <3>2. CASE ~WriteNotSuperseded(t, login[t].gen)
      BY <1>7, <3>2 DEF LoginPersistFails, tokens, TokensOK
    <3> QED BY <3>1, <3>2
  <2>2. login' \in [Tabs -> Login] /\ faults' \in Nat
    BY <1>7, RecordTypes DEF LoginPersistFails, Fault, TypeOK
  <2> QED BY <1>7, <2>1, <2>2
          DEF LoginPersistFails, TypeOK, TokensOK, nest, store
<1> QED BY <1>1, <1>2, <1>3, <1>4, <1>5, <1>6, <1>7 DEF LoginNext

LEMMA RefreshTypes ==
  ASSUME TypeOK, NEW t \in Tabs, RefreshNext(t)
  PROVE  TypeOK'
<1> USE TypeParts, TypePartsNext
<1>1. CASE RouteRotates(t)
  <2>1. NestOK' /\ issued + 1 \in PairOrNone
    BY <1>1, IssueTypes, RecordTypes DEF RouteRotates, NestOK
  <2>2. refresh' \in [Tabs -> Refresh]
    <3>1. \/ refresh' = [refresh EXCEPT ![t].ph = "fresh",
                           ![t].pair = issued + 1, ![t].me = TRUE]
          \/ refresh' = [refresh EXCEPT ![t].ph = "fresh",
                           ![t].pair = issued + 1]
      BY <1>1 DEF RouteRotates
    <3>2. refresh \in [Tabs -> Refresh] BY DEF TypeOK
    <3>3. refresh[t] \in Refresh BY <3>2
    <3>4. ASSUME NEW n \in PairOrNone
          PROVE  /\ [refresh[t] EXCEPT !.ph = "fresh", !.pair = n, !.me = TRUE] \in Refresh
                 /\ [refresh[t] EXCEPT !.ph = "fresh", !.pair = n] \in Refresh
      BY <3>3 DEF Refresh, RefreshPhase
    <3> QED BY <2>1, <3>1, <3>2, <3>4
  <2>3. faults' \in Nat BY <1>1 DEF RouteRotates, Fault, TypeOK
  <2>4. UNCHANGED <<cookie, tokens, store, page, restoring, rotating, login,
                    signout, handling, call, ghosts>>
    BY <1>1 DEF RouteRotates, jar, tokens
  <2> QED BY <2>1, <2>2, <2>3, <2>4 DEF TypeOK, NestOK, tokens, store
<1>2. CASE RouteRefuses(t)
  <2>1. refresh' \in [Tabs -> Refresh]
    BY <1>2, PhaseTypes DEF RouteRefuses, RefreshPhase
  <2> QED BY <1>2, <2>1 DEF RouteRefuses, TypeOK, nest, jar, store
<1>3. CASE RouteFails(t)
  <2>1. refresh' \in [Tabs -> Refresh]
    BY <1>3, PhaseTypes DEF RouteFails, RefreshPhase
  <2>2. faults' \in Nat BY <1>3 DEF RouteFails, Fault, TypeOK
  <2>3. UNCHANGED <<nest, cookie, tokens, store, page, restoring, rotating, login,
                    signout, handling, call, ghosts>>
    BY <1>3 DEF RouteFails, jar, tokens
  <2> QED BY <2>1, <2>2, <2>3 DEF TypeOK, nest, tokens, store
<1>4. CASE RefreshHangs(t)
  <2>1. RefreshAt("hung", None) \in Refresh
    BY RecordTypes DEF RefreshAt, Refresh, RefreshPhase
  <2>2. refresh' \in [Tabs -> Refresh]
    BY <1>4, <2>1 DEF RefreshHangs, TypeOK
  <2>3. ghosts' \subseteq Pair
    BY <1>4, RecordTypes DEF RefreshHangs, TypeOK, Orphan, Refresh
  <2> QED BY <1>4, <2>2, <2>3 DEF RefreshHangs, Fault, TypeOK, nest, jar, store
<1>5. CASE RefreshGivesUp(t)
  BY <1>5, SettleTransientTypes DEF RefreshGivesUp, RestOK, NestOK, nest
<1>6. CASE RefreshDead(t)
  BY <1>6, SettleDeadTypes, RecordTypes DEF RefreshDead, RestOK, NestOK, nest
<1>7. CASE RefreshReceive(t)
  <2>1. refresh[t].pair \in PairOrNone /\ wgen[t] + 1 \in Nat
    BY DEF TypeOK, Refresh
  <2>2. TokensOK'
    BY <1>7, <2>1, WriteTypes DEF RefreshReceive
  <2>3. refresh' \in [Tabs -> Refresh]
    <3>1. refresh' = [refresh EXCEPT ![t].ph = "persist",
                                     ![t].gen = wgen[t] + 1, ![t].att = 1]
      BY <1>7 DEF RefreshReceive
    <3>2. refresh \in [Tabs -> Refresh] BY DEF TypeOK
    <3>3. refresh[t] \in Refresh BY <3>2
    <3>4. ASSUME NEW n \in Nat
          PROVE  [refresh[t] EXCEPT !.ph = "persist", !.gen = n, !.att = 1] \in Refresh
      BY <3>3 DEF Refresh, RefreshPhase
    <3> QED BY <3>1, <3>2, <3>4, <2>1
  <2> QED BY <1>7, <2>2, <2>3
          DEF RefreshReceive, TypeOK, TokensOK, nest, store
<1>8. CASE RefreshPersisted(t)
  <2>1. refresh[t].pair \in PairOrNone
    BY DEF TypeOK, Refresh
  <2>2. StoreOK' /\ FlightOK'
    <3>1. CASE refresh[t].me
      BY <1>8, <2>1, <3>1, StoreTypes, SettleTypes
         DEF RefreshPersisted, SettleWithSession
    <3>2. CASE ~refresh[t].me
      <4>1. refresh' = [refresh EXCEPT ![t].ph = "me"]
        BY <1>8, <3>2 DEF RefreshPersisted
      <4>2. refresh \in [Tabs -> Refresh] BY DEF TypeOK
      <4>3. refresh' \in [Tabs -> Refresh]
        BY <4>1, <4>2 DEF Refresh, RefreshPhase
      <4> QED BY <1>8, <3>2, <4>3 DEF RefreshPersisted, StoreOK, FlightOK, store
    <3> QED BY <3>1, <3>2
  <2>3. cookie' \in PairOrNone BY <1>8, <2>1 DEF RefreshPersisted
  <2> QED BY <1>8, <2>2, <2>3
          DEF RefreshPersisted, RestOK, NestOK, TokensOK, nest, tokens
<1>9. CASE RefreshPersistRetry(t)
  <2>1. refresh[t].att + 1 \in Nat BY DEF TypeOK, Refresh
  <2>2. refresh' \in [Tabs -> Refresh]
    <3>1. refresh' = [refresh EXCEPT ![t].att = refresh[t].att + 1]
      BY <1>9 DEF RefreshPersistRetry, TypeOK
    <3>2. refresh \in [Tabs -> Refresh] BY DEF TypeOK
    <3>3. ASSUME NEW n \in Nat
          PROVE  [refresh EXCEPT ![t].att = n] \in [Tabs -> Refresh]
      BY <3>2 DEF Refresh
    <3> QED BY <3>1, <3>3, <2>1
  <2> QED BY <1>9, <2>2 DEF RefreshPersistRetry, Fault, TypeOK, nest, jar, store
<1>10. CASE RefreshPersistFails(t)
  <2>1. WriteNotSuperseded(t, refresh[t].gen) \in BOOLEAN
    BY DEF WriteNotSuperseded
  <2>2. TokensOK' /\ StoreOK' /\ FlightOK'
    BY <1>10, <2>1, SettleTransientTypes DEF RefreshPersistFails
  <2> QED BY <1>10, <2>2
          DEF RefreshPersistFails, Fault, RestOK, NestOK, nest
<1>11. CASE RefreshAsksMe(t)
  <2>1. TokensOK' /\ StoreOK' /\ FlightOK'
    <3>1. CASE mem[t] = None
      BY <1>11, <3>1, SettleDeadTypes DEF RefreshAsksMe
    <3>2. CASE mem[t] # None /\ refresh[t].pair \in valid
      <4>1. refresh[t].pair \in PairOrNone BY DEF TypeOK, Refresh
      <4> QED BY <1>11, <3>2, <4>1, StoreTypes, SettleTypes
              DEF RefreshAsksMe, SettleWithSession, TokensOK, tokens
    <3>3. CASE mem[t] # None /\ refresh[t].pair \notin valid
      <4>1. refresh' = [refresh EXCEPT ![t].ph = "selfwait"]
            /\ rotating' = [rotating EXCEPT ![t] = TRUE]
        BY <1>11, <3>3 DEF RefreshAsksMe
      <4>2. refresh \in [Tabs -> Refresh] BY DEF TypeOK
      <4>3. refresh' \in [Tabs -> Refresh]
        BY <4>1, <4>2 DEF Refresh, RefreshPhase
      <4>4. rotating' \in [Tabs -> BOOLEAN] BY <4>1 DEF TypeOK
      <4> QED BY <1>11, <3>3, <4>3, <4>4
              DEF RefreshAsksMe, TokensOK, StoreOK, FlightOK, tokens, store
    <3> QED BY <3>1, <3>2, <3>3
  <2> QED BY <1>11, <2>1 DEF RefreshAsksMe, RestOK, NestOK, nest
<1>12. CASE RefreshMeLost(t)
  <2>1. TokensOK' /\ StoreOK' /\ FlightOK'
    BY <1>12, SettleTransientTypes DEF RefreshMeLost
  <2>2. faults' \in Nat BY <1>12 DEF RefreshMeLost, Fault, TypeOK
  <2> QED BY <1>12, <2>1, <2>2 DEF RefreshMeLost, RestOK, NestOK, nest
<1>13. CASE SelfWaitTimeout(t)
  BY <1>13, SettleTransientTypes DEF SelfWaitTimeout, RestOK, NestOK, nest
<1>14. CASE RefreshMeForbidden(t)
  <2>1. TokensOK' /\ StoreOK' /\ FlightOK'
    BY <1>14, SettleDeadTypes DEF RefreshMeForbidden
  <2>2. faults' \in Nat BY <1>14 DEF RefreshMeForbidden, Fault, TypeOK
  <2> QED BY <1>14, <2>1, <2>2 DEF RefreshMeForbidden, RestOK, NestOK, nest
<1>15. CASE RefreshHeaders(t)
  <2>1. refresh[t].pair \in PairOrNone BY DEF TypeOK, Refresh
  <2>2. cookie' \in PairOrNone BY <1>15, <2>1 DEF RefreshHeaders
  <2>3. refresh' \in [Tabs -> Refresh]
    BY <1>15, PhaseTypes DEF RefreshHeaders, RefreshPhase
  <2>4. UNCHANGED <<nest, presence, tokens, store, page, restoring, rotating,
                    login, signout, handling, call, ghosts, faults>>
    BY <1>15 DEF RefreshHeaders
  <2> QED BY <2>2, <2>3, <2>4 DEF TypeOK, nest, tokens, store
<1>16. CASE RefreshBodyHangs(t)
  <2>1. refresh' \in [Tabs -> Refresh]
    BY <1>16, PhaseTypes DEF RefreshBodyHangs, RefreshPhase
  <2>2. faults' \in Nat BY <1>16 DEF RefreshBodyHangs, Fault, TypeOK
  <2>3. UNCHANGED <<nest, cookie, tokens, store, page, restoring, rotating, login,
                    signout, handling, call, ghosts>>
    BY <1>16 DEF RefreshBodyHangs, jar, tokens
  <2> QED BY <2>1, <2>2, <2>3 DEF TypeOK, nest, tokens, store
<1>17. CASE RefreshBodyLost(t)
  <2>1. TokensOK' /\ StoreOK' /\ FlightOK'
    BY <1>17, SettleTransientTypes DEF RefreshBodyLost
  <2>2. faults' \in Nat BY <1>17 DEF RefreshBodyLost, Fault, TypeOK
  <2> QED BY <1>17, <2>1, <2>2 DEF RefreshBodyLost, RestOK, NestOK, nest
<1> QED BY <1>1, <1>2, <1>3, <1>4, <1>5, <1>6, <1>7, <1>8, <1>9, <1>10,
           <1>11, <1>12, <1>13, <1>14, <1>15, <1>16, <1>17 DEF RefreshNext

LEMMA SignOutTypes ==
  ASSUME TypeOK, NEW t \in Tabs, SignOutNext(t)
  PROVE  TypeOK'
<1> USE TypeParts, TypePartsNext
<1>1. signout \in [Tabs -> [SignOuts -> SignOut]] BY DEF TypeOK
<1>2. CASE MenuSignOut(t)
  <2>1. signout' = [signout EXCEPT ![t]["menu"].ph = "start"]
    BY <1>2 DEF MenuSignOut
  <2>2. signout' \in [Tabs -> [SignOuts -> SignOut]]
    BY <1>1, <2>1 DEF SignOut, SignOuts
  <2> QED BY <1>2, <2>2 DEF MenuSignOut, TypeOK, nest, jar, store
<1>3. CASE MenuSignedOut(t)
  <2>1. TokensOK' /\ StoreOK'
    BY <1>3, ClearTypes, StoreTypes DEF MenuSignedOut
  <2>2. signout' \in [Tabs -> [SignOuts -> SignOut]]
    BY <1>1, <1>3, RecordTypes DEF MenuSignedOut
  <2>3. page' \in [Tabs -> {"app", "outside"}]
    BY <1>3 DEF MenuSignedOut, TypeOK
  <2> QED BY <1>3, <2>1, <2>2, <2>3 DEF MenuSignedOut, FlightOK, RestOK, NestOK, nest
<1>4. CASE HandlerSignedOut(t)
  <2>1. CASE page[t] = "app"
    <3>1. presence' \in BOOLEAN /\ page' \in [Tabs -> {"app", "outside"}]
      BY <1>4, <2>1 DEF HandlerSignedOut, TypeOK
    <3> QED BY <1>4, <2>1, <3>1, ResetTypes
            DEF HandlerSignedOut, TokensOK, RestOK, NestOK, nest
  <2>2. CASE page[t] # "app"
    <3>1. TokensOK' /\ StoreOK'
      BY <1>4, <2>2, ClearTypes, StoreTypes DEF HandlerSignedOut
    <3>2. ASSUME NEW k \in SignOuts
          PROVE  [signout[t][k] EXCEPT !.ph = "body"] \in SignOut
      BY <1>1 DEF SignOut
    <3>3. signout' \in [Tabs -> [SignOuts -> SignOut]]
      <4> DEFINE left == [k \in SignOuts |->
                  IF k = "handler" THEN NoSignOut
                  ELSE IF signout[t][k].ph = "blocked"
                       THEN [signout[t][k] EXCEPT !.ph = "body"]
                       ELSE signout[t][k]]
      <4>1. signout' = [signout EXCEPT ![t] = left]
        BY <1>4, <2>2 DEF HandlerSignedOut
      <4>2. \A k \in SignOuts : left[k] \in SignOut
        BY <1>1, <3>2, RecordTypes
      <4>3. left \in [SignOuts -> SignOut] BY <4>2
      <4> HIDE DEF left
      <4> QED BY <1>1, <4>1, <4>3
    <3>4. handling' \in [Tabs -> BOOLEAN]
      BY <1>4, <2>2 DEF HandlerSignedOut, TypeOK
    <3> QED BY <1>4, <2>2, <3>1, <3>3, <3>4
            DEF HandlerSignedOut, FlightOK, RestOK, NestOK, nest
  <2> QED BY <2>1, <2>2
<1>5. CASE ClearTokensAnswered(t)
  <2>1. clears' \in [Tabs -> Nat]
    <3>1. clears[t] - 1 \in Nat BY <1>5 DEF ClearTokensAnswered, TypeOK
    <3> QED BY <1>5, <3>1 DEF ClearTokensAnswered, TypeOK
  <2>2. cookie' \in PairOrNone /\ faults' \in Nat
    BY <1>5, RecordTypes DEF ClearTokensAnswered, Fault, TypeOK
  <2> QED BY <1>5, <2>1, <2>2 DEF ClearTokensAnswered, TypeOK, nest, store
<1>6. ASSUME NEW k \in SignOuts,
             \/ SignOutStart(t, k) \/ SignOutPost(t, k) \/ NestSignOut(t, k)
             \/ SignOutLost(t, k) \/ SignOut401(t, k)
             \/ SignOutErrorRead(t, k) \/ SignOutBodyHangs(t, k)
      PROVE  TypeOK'
  <2>1. CASE SignOutStart(t, k)
    <3>1. PICK x \in {"done", "wait"} : signout' = [signout EXCEPT ![t][k].ph = x]
      BY <2>1 DEF SignOutStart
    <3>2. signout' \in [Tabs -> [SignOuts -> SignOut]]
      BY <1>1, <3>1 DEF SignOut
    <3>3. StoreOK'
      <4>1. SignedOut(t) \/ UNCHANGED store BY <2>1 DEF SignOutStart
      <4> QED BY <4>1, StoreTypes DEF store, StoreOK
    <3> QED BY <2>1, <3>2, <3>3 DEF SignOutStart, TypeOK, StoreOK, nest, jar
  <2>2. CASE SignOutPost(t, k)
    <3>1. [ph |-> "post", pair |-> Access(t)] \in SignOut
      BY RecordTypes DEF Access, TypeOK, SignOut
    <3>2. signout' \in [Tabs -> [SignOuts -> SignOut]]
      BY <1>1, <2>2, <3>1 DEF SignOutPost
    <3> QED BY <2>2, <3>2 DEF SignOutPost, TypeOK, nest, jar, store
  <2>3. CASE NestSignOut(t, k)
    <3>1. PICK x \in {"done", "unauth"} : signout' = [signout EXCEPT ![t][k].ph = x]
      BY <2>3 DEF NestSignOut
    <3>2. signout' \in [Tabs -> [SignOuts -> SignOut]]
      BY <1>1, <3>1 DEF SignOut
    <3>3. valid' \subseteq Pair BY <2>3 DEF NestSignOut, TypeOK
    <3> QED BY <2>3, <3>2, <3>3 DEF NestSignOut, TypeOK, jar, store
  <2>4. CASE SignOutLost(t, k)
    <3>1. PICK x \in {"done", "body"} : signout' = [signout EXCEPT ![t][k].ph = x]
      BY <2>4 DEF SignOutLost
    <3>2. signout' \in [Tabs -> [SignOuts -> SignOut]]
      BY <1>1, <3>1 DEF SignOut
    <3> QED BY <2>4, <3>2 DEF SignOutLost, Fault, TypeOK, nest, jar, store
  <2>5. CASE SignOut401(t, k)
    <3>1. CASE handling[t] \/ page[t] = "outside"
      <4>1. signout' = [signout EXCEPT ![t][k].ph = "body"]
            /\ (UNCHANGED store \/ SignedOut(t))
        BY <2>5, <3>1 DEF SignOut401
      <4>2. signout' \in [Tabs -> [SignOuts -> SignOut]]
        BY <1>1, <4>1 DEF SignOut
      <4>3. StoreOK' BY <4>1, StoreTypes DEF store, StoreOK
      <4> QED BY <2>5, <3>1, <4>2, <4>3
              DEF SignOut401, TypeOK, StoreOK, nest, jar
    <3>2. CASE ~(handling[t] \/ page[t] = "outside")
      <4>1. signout' = [signout EXCEPT ![t][k].ph = "blocked",
                                       ![t]["handler"].ph = "start"]
        BY <2>5, <3>2 DEF SignOut401
      <4>2. signout' \in [Tabs -> [SignOuts -> SignOut]]
        BY <1>1, <4>1 DEF SignOut, SignOuts
      <4>3. handling' \in [Tabs -> BOOLEAN]
        BY <2>5, <3>2 DEF SignOut401, TypeOK
      <4> QED BY <2>5, <3>2, <4>2, <4>3 DEF SignOut401, TypeOK, nest, jar, store
    <3> QED BY <3>1, <3>2
  <2>6. CASE SignOutErrorRead(t, k)
    <3>1. signout' = [signout EXCEPT ![t][k].ph = "done"]
      BY <2>6 DEF SignOutErrorRead
    <3>2. signout' \in [Tabs -> [SignOuts -> SignOut]]
      BY <1>1, <3>1 DEF SignOut
    <3> QED BY <2>6, <3>2 DEF SignOutErrorRead, TypeOK, nest, jar, store
  <2>7. CASE SignOutBodyHangs(t, k)
    <3>1. signout' = [signout EXCEPT ![t][k].ph = "stuck"]
      BY <2>7 DEF SignOutBodyHangs
    <3>2. signout' \in [Tabs -> [SignOuts -> SignOut]]
      BY <1>1, <3>1 DEF SignOut
    <3> QED BY <2>7, <3>2 DEF SignOutBodyHangs, Fault, TypeOK, nest, jar, store
  <2> QED BY <1>6, <2>1, <2>2, <2>3, <2>4, <2>5, <2>6, <2>7
<1> QED BY <1>2, <1>3, <1>4, <1>5, <1>6 DEF SignOutNext

LEMMA BootResultTypes ==
  ASSUME TypeOK, NEW t \in Tabs, NEW r \in AllCalls,
         NEW result \in {"ok", "forbidden", "lost"}, BootResult(t, r, result)
  PROVE  /\ TokensOK' /\ StoreOK'
         /\ restoring' \in [Tabs -> {"no", "refresh", "me"}]
<1> USE TypeParts
<1>1. CASE r # BootCall
  BY <1>1 DEF BootResult, tokens, store, TokensOK, StoreOK, FlightOK
<1>2. CASE r = BootCall
  <2>1. restoring' \in [Tabs -> {"no", "refresh", "me"}]
    BY <1>2 DEF BootResult, FlightOK
  <2>2. CASE result = "ok"
    BY <1>2, <2>1, <2>2, StoreTypes DEF BootResult, tokens, TokensOK
  <2>3. CASE result = "forbidden"
    BY <1>2, <2>1, <2>3, StoreTypes, ClearTypes DEF BootResult
  <2>4. CASE result = "lost"
    BY <1>2, <2>1, <2>4 DEF BootResult, tokens, TokensOK, StoreOK
  <2> QED BY <2>2, <2>3, <2>4
<1> QED BY <1>1, <1>2

LEMMA CallTypes ==
  ASSUME TypeOK, NEW t \in Tabs, CallNext(t)
  PROVE  TypeOK'
<1> USE TypeParts, TypePartsNext
<1>1. call \in [Tabs -> [AllCalls -> Call]] BY DEF TypeOK
<1>2. ASSUME NEW r \in Calls, StartCall(t, r)
      PROVE  TypeOK'
  <2>1. [ph |-> "sent", pair |-> Access(t)] \in Call
    BY RecordTypes DEF Access, TypeOK, Call
  <2>2. call' \in [Tabs -> [AllCalls -> Call]]
    BY <1>1, <1>2, <2>1 DEF StartCall, AllCalls
  <2> QED BY <1>2, <2>2 DEF StartCall, TypeOK, nest, jar, store
<1>3. ASSUME NEW r \in AllCalls,
             \/ CallAnswered(t, r) \/ CallRefused(t, r) \/ CallRotates(t, r)
             \/ CallForbidden(t, r) \/ CallRetried(t, r) \/ CallLost(t, r)
             \/ CallBodyHangs(t, r)
      PROVE  TypeOK'
  <2>1. CASE CallAnswered(t, r)
    <3>1. call' \in [Tabs -> [AllCalls -> Call]]
      BY <1>1, <2>1, RecordTypes DEF CallAnswered
    <3> QED BY <2>1, <3>1, BootResultTypes
            DEF CallAnswered, FlightOK, RestOK, NestOK, nest
  <2>2. CASE CallRefused(t, r)
    <3>1. [ph |-> "unauth", pair |-> None] \in Call BY RecordTypes DEF Call
    <3>2. call' \in [Tabs -> [AllCalls -> Call]]
      BY <1>1, <2>2, <3>1 DEF CallRefused
    <3> QED BY <2>2, <3>2 DEF CallRefused, TypeOK, nest, jar, store
  <2>3. CASE CallRotates(t, r)
    <3>1. call' = [call EXCEPT ![t][r].ph = "rot"] BY <2>3 DEF CallRotates
    <3>2. call' \in [Tabs -> [AllCalls -> Call]] BY <1>1, <3>1 DEF Call
    <3>3. refresh' \in [Tabs -> Refresh]
      BY <2>3, JoinTypes DEF CallRotates, RotateRealAccessToken, TypeOK
    <3>4. rotating' \in [Tabs -> BOOLEAN]
      BY <2>3 DEF CallRotates, RotateRealAccessToken, TypeOK
    <3> QED BY <2>3, <3>2, <3>3, <3>4 DEF CallRotates, TypeOK, nest, jar, store
  <2>4. CASE CallForbidden(t, r)
    <3>1. call' \in [Tabs -> [AllCalls -> Call]]
      BY <1>1, <2>4, RecordTypes DEF CallForbidden
    <3> QED BY <2>4, <3>1, BootResultTypes
            DEF CallForbidden, FlightOK, RestOK, NestOK, nest
  <2>5. CASE CallLost(t, r)
    <3>1. call' \in [Tabs -> [AllCalls -> Call]] /\ faults' \in Nat
      BY <1>1, <2>5, RecordTypes DEF CallLost, Fault, TypeOK
    <3> QED BY <2>5, <3>1, BootResultTypes
            DEF CallLost, FlightOK, RestOK, NestOK, nest
  <2>6. CASE CallRetried(t, r)
    <3>1. call' = [call EXCEPT ![t][r].ph = "resent"] BY <2>6 DEF CallRetried
    <3>2. call' \in [Tabs -> [AllCalls -> Call]] BY <1>1, <3>1 DEF Call
    <3>3. faults' \in Nat BY <2>6 DEF CallRetried, Fault, TypeOK
    <3> QED BY <2>6, <3>2, <3>3 DEF CallRetried, TypeOK, nest, jar, store
  <2>7. CASE CallBodyHangs(t, r)
    <3>1. call' = [call EXCEPT ![t][r].ph = "stuck"] BY <2>7 DEF CallBodyHangs
    <3>2. call' \in [Tabs -> [AllCalls -> Call]] BY <1>1, <3>1 DEF Call
    <3>3. faults' \in Nat BY <2>7 DEF CallBodyHangs, Fault, TypeOK
    <3> QED BY <2>7, <3>2, <3>3 DEF CallBodyHangs, TypeOK, nest, jar, store
  <2> QED BY <1>3, <2>1, <2>2, <2>3, <2>4, <2>5, <2>6, <2>7
<1> QED BY <1>2, <1>3 DEF CallNext

LEMMA GuardTypes ==
  ASSUME TypeOK, NEW t \in Tabs, GuardNext(t)
  PROVE  TypeOK'
<1> USE TypeParts, TypePartsNext
<1>1. CASE RestoreStart(t)
  <2>1. boot' \in [Tabs -> {"null", "authenticated", "unauthenticated", "error"}]
        /\ restoring' \in [Tabs -> {"no", "refresh", "me"}]
    BY <1>1 DEF RestoreStart, TypeOK
  <2>2. call' \in [Tabs -> [AllCalls -> Call]]
    <3>1. [ph |-> "sent", pair |-> Access(t)] \in Call
      BY RecordTypes DEF Access, TypeOK, Call
    <3>2. \/ call' = call
          \/ call' = [call EXCEPT ![t][BootCall] =
                        [ph |-> "sent", pair |-> Access(t)]]
      BY <1>1 DEF RestoreStart
    <3>3. call \in [Tabs -> [AllCalls -> Call]] BY DEF TypeOK
    <3> QED BY <3>1, <3>2, <3>3, RecordTypes
  <2>3. refresh' \in [Tabs -> Refresh]
    BY <1>1, JoinTypes DEF RestoreStart, TypeOK
  <2> QED BY <1>1, <2>1, <2>2, <2>3 DEF RestoreStart, TypeOK, nest, jar
<1>2. CASE KeepAlive(t)
  <2>1. refresh' \in [Tabs -> Refresh] /\ rotating' \in [Tabs -> BOOLEAN]
    BY <1>2, JoinTypes DEF KeepAlive, RotateRealAccessToken, TypeOK
  <2> QED BY <1>2, <2>1 DEF KeepAlive, TypeOK, nest, jar, store
<1>3. CASE AccessExpires(t)
  BY <1>3 DEF AccessExpires, TypeOK, nest, jar, store
<1>4. CASE GuardRedirects(t)
  BY <1>4 DEF GuardRedirects, TypeOK, nest, jar, store
<1>5. CASE OpenApp(t)
  BY <1>5 DEF OpenApp, TypeOK, nest, jar, store
<1>6. CASE Reload(t)
  <2>1. page' \in [Tabs -> {"app", "outside"}]
    BY <1>6 DEF Reload, TypeOK
  <2> QED BY <1>6, <2>1, ResetTypes
          DEF Reload, TokensOK, RestOK, NestOK, nest, jar
<1> QED BY <1>1, <1>2, <1>3, <1>4, <1>5, <1>6 DEF GuardNext

LEMMA GhostTypes ==
  ASSUME TypeOK, NEW p \in Pair, GhostRotates(p)
  PROVE  TypeOK'
<1>1. NestOK'
  BY IssueTypes, TypeParts DEF GhostRotates, NestOK, nest
<1> QED BY <1>1 DEF GhostRotates, TypeOK, NestOK, jar, store

(* Every state has its types, for any tabs, calls and bounds. *)
THEOREM TypeCorrect == Spec => []TypeOK
<1>1. Init => TypeOK
  <2> SUFFICES ASSUME Init PROVE TypeOK
    OBVIOUS
  <2> 0 \in PairOrNone /\ 1 \in Pair /\ 1 \in PairOrNone
    BY SessionAssumption DEF Pair, PairOrNone
  <2>4. /\ issued \in PairOrNone /\ valid \subseteq Pair
        /\ cookie \in PairOrNone /\ presence \in BOOLEAN
    <3>1. PICK earlier \in EarlierVisit :
            IF earlier
            THEN issued = 1 /\ valid = {1} /\ cookie = 1 /\ presence \in BOOLEAN
            ELSE issued = 0 /\ valid = {} /\ cookie = None /\ presence = FALSE
      BY DEF Init
    <3>2. CASE issued = 1 /\ valid = {1} /\ cookie = 1 /\ presence \in BOOLEAN
      BY <3>2
    <3>3. CASE issued = 0 /\ valid = {} /\ cookie = None /\ presence = FALSE
      BY <3>3 DEF None
    <3> QED BY <3>1, <3>2, <3>3
  <2>1. NestOK /\ TokensOK /\ StoreOK
    BY <2>4, RecordTypes DEF Init, NestOK, TokensOK, StoreOK, None
  <2>2. FlightOK
    BY RecordTypes DEF Init, FlightOK
  <2>3. RestOK
    BY <2>4, RecordTypes DEF Init, RestOK
  <2> QED BY <2>1, <2>2, <2>3, TypeParts
<1>2. TypeOK /\ [Next]_vars => TypeOK'
  <2> SUFFICES ASSUME TypeOK, [Next]_vars PROVE TypeOK'
    OBVIOUS
  <2>1. CASE Next
    BY <2>1, LoginTypes, RefreshTypes, SignOutTypes, CallTypes, GuardTypes,
       GhostTypes DEF Next
  <2>2. CASE UNCHANGED vars
    BY <2>2 DEF vars, TypeOK
  <2> QED BY <2>1, <2>2
<1> QED BY <1>1, <1>2, PTL DEF Spec

-----------------------------------------------------------------------------
(* The store and the boot flag.  Only the building blocks write them: both  *)
(* together, or the boot flag alone between two values that are not         *)
(* "authenticated".                                                         *)

(* What any step does to the store and the flag of one tab. *)
StoreStep(t) ==
  \/ SignedIn(t) \/ SignedOut(t)
  \/ /\ UNCHANGED active
     /\ \/ UNCHANGED boot
        \/ /\ boot[t] \in {"null", "error"}
           /\ \E b \in {"null", "error"} : boot' = [boot EXCEPT ![t] = b]
  \/ /\ active' = [active EXCEPT ![t] = FALSE]
     /\ boot' = [boot EXCEPT ![t] = "null"]

LEMMA StoreStepMatches ==
  ASSUME TypeOK, StoreMatchesBoot, NEW t \in Tabs, StoreStep(t)
  PROVE  StoreMatchesBoot'
<1> SUFFICES ASSUME NEW u \in Tabs
             PROVE  active'[u] <=> boot'[u] = "authenticated"
  BY DEF StoreMatchesBoot
<1>0. active \in [Tabs -> BOOLEAN]
      /\ boot \in [Tabs -> {"null", "authenticated", "unauthenticated", "error"}]
      /\ (active[u] <=> boot[u] = "authenticated")
      /\ (active[t] <=> boot[t] = "authenticated")
  BY DEF TypeOK, StoreMatchesBoot
<1>1. CASE SignedIn(t) \/ SignedOut(t)
  BY <1>0, <1>1 DEF SignedIn, SignedOut
<1>2. CASE ~(SignedIn(t) \/ SignedOut(t))
  BY <1>0, <1>2 DEF StoreStep
<1> QED BY <1>1, <1>2

LEMMA SettleTransientStores ==
  ASSUME NEW t \in Tabs, NEW rb, TypeOK, SettleTransient(t, rb)
  PROVE  StoreStep(t)
<1>1. CASE SignedOut(t) BY <1>1 DEF StoreStep
<1>2. CASE ~SignedOut(t)
  <2>1. /\ UNCHANGED active
        /\ boot' = [boot EXCEPT ![t] =
                      IF restoring[t] = "refresh" /\ @ = "null"
                      THEN "error" ELSE @]
    BY <1>2 DEF SettleTransient
  <2>2. CASE restoring[t] = "refresh" /\ boot[t] = "null"
    BY <2>1, <2>2 DEF StoreStep
  <2>3. CASE ~(restoring[t] = "refresh" /\ boot[t] = "null")
    BY <2>1, <2>3 DEF StoreStep, TypeOK
  <2> QED BY <2>2, <2>3
<1> QED BY <1>1, <1>2

LEMMA BootResultStores ==
  ASSUME NEW t \in Tabs, NEW r, NEW result \in {"ok", "forbidden", "lost"},
         TypeOK, BootResult(t, r, result)
  PROVE  StoreStep(t)
<1>1. CASE r # BootCall \/ result # "lost"
  BY <1>1 DEF BootResult, StoreStep, store
<1>2. CASE r = BootCall /\ result = "lost"
  <2>1. UNCHANGED active
        /\ boot' = [boot EXCEPT ![t] = IF @ = "null" THEN "error" ELSE @]
    BY <1>2 DEF BootResult
  <2>2. CASE boot[t] = "null" BY <2>1, <2>2 DEF StoreStep
  <2>3. CASE boot[t] # "null" BY <2>1, <2>3 DEF StoreStep, TypeOK
  <2> QED BY <2>2, <2>3
<1> QED BY <1>1, <1>2

(* Every action of a tab is such a step. *)
LEMMA NextStores ==
  ASSUME TypeOK, NEW t \in Tabs,
         \/ LoginNext(t) \/ RefreshNext(t) \/ SignOutNext(t)
         \/ CallNext(t) \/ GuardNext(t)
  PROVE  StoreStep(t)
<1>1. CASE LoginNext(t)
  BY <1>1 DEF LoginNext, LoginSubmit, NestLogin, LoginFails, LoginReceive,
     LoginPersisted, LoginPersistRetry, LoginPersistFails, StoreStep, store
<1>2. CASE RefreshNext(t)
  <2>1. CASE \/ RefreshGivesUp(t) \/ RefreshPersistFails(t) \/ RefreshMeLost(t)
             \/ SelfWaitTimeout(t) \/ RefreshBodyLost(t)
    BY <2>1, SettleTransientStores
       DEF RefreshGivesUp, RefreshPersistFails, RefreshMeLost, SelfWaitTimeout,
           RefreshBodyLost
  <2>2. CASE \/ RefreshDead(t) \/ RefreshPersisted(t) \/ RefreshAsksMe(t)
             \/ RefreshMeForbidden(t)
    BY <2>2 DEF RefreshDead, RefreshMeForbidden, SettleDead, RefreshPersisted, SettleWithSession,
       RefreshAsksMe, StoreStep, store
  <2>3. CASE \/ RouteRotates(t) \/ RouteRefuses(t) \/ RouteFails(t)
             \/ RefreshHangs(t) \/ RefreshReceive(t) \/ RefreshPersistRetry(t)
             \/ RefreshHeaders(t) \/ RefreshBodyHangs(t)
    BY <2>3 DEF RouteRotates, RouteRefuses, RouteFails, RefreshHangs,
       RefreshReceive, RefreshPersistRetry, RefreshHeaders, RefreshBodyHangs,
       StoreStep, store
  <2> QED BY <1>2, <2>1, <2>2, <2>3 DEF RefreshNext
<1>3. CASE SignOutNext(t)
  <2>1. CASE HandlerSignedOut(t)
    BY <2>1 DEF HandlerSignedOut, ResetTab, StoreStep
  <2>2. CASE ~HandlerSignedOut(t)
    BY <1>3, <2>2 DEF SignOutNext, MenuSignOut, MenuSignedOut,
       ClearTokensAnswered, SignOutStart, SignOutPost, NestSignOut,
       SignOutLost, SignOut401, SignOutErrorRead, SignOutBodyHangs, StoreStep, store
  <2> QED BY <2>1, <2>2
<1>4. CASE CallNext(t)
  BY <1>4, BootResultStores DEF CallNext, StartCall, CallAnswered, CallRefused,
     CallRotates, CallForbidden, CallRetried, CallLost, CallBodyHangs, StoreStep, store
<1>5. CASE GuardNext(t)
  <2>1. CASE RestoreStart(t) BY <2>1 DEF RestoreStart, StoreStep
  <2>2. CASE ~RestoreStart(t)
    BY <1>5, <2>2 DEF GuardNext, KeepAlive, AccessExpires, GuardRedirects,
       OpenApp, Reload, ResetTab, StoreStep, store
  <2> QED BY <2>1, <2>2
<1> QED BY <1>1, <1>2, <1>3, <1>4, <1>5

(* The guard of the app shows the application exactly when the store has a *)
(* user: active and boot agree in every tab, in every reachable state.     *)
THEOREM StoreAndBootAgree == Spec => []StoreMatchesBoot
<1>1. Init => StoreMatchesBoot
  BY DEF Init, StoreMatchesBoot
<1>2. TypeOK /\ StoreMatchesBoot /\ [Next]_vars => StoreMatchesBoot'
  <2> SUFFICES ASSUME TypeOK, StoreMatchesBoot, [Next]_vars
               PROVE  StoreMatchesBoot'
    OBVIOUS
  <2>1. ASSUME NEW t \in Tabs,
               \/ LoginNext(t) \/ RefreshNext(t) \/ SignOutNext(t)
               \/ CallNext(t) \/ GuardNext(t)
        PROVE  StoreMatchesBoot'
    BY <2>1, NextStores, StoreStepMatches
  <2>2. ASSUME NEW p \in Pair, GhostRotates(p)
        PROVE  StoreMatchesBoot'
    BY <2>2 DEF GhostRotates, StoreMatchesBoot, store
  <2>3. CASE UNCHANGED vars
    BY <2>3 DEF vars, StoreMatchesBoot
  <2> QED BY <2>1, <2>2, <2>3 DEF Next
<1> QED BY <1>1, <1>2, TypeCorrect, PTL DEF Spec

-----------------------------------------------------------------------------
(* Nobody waits in vain.  The strengthening: the handler is not blocked by   *)
(* itself.  A step moves the promises of one tab only.                      *)

RefreshWaits(t) ==
  /\ \A r \in AllCalls : call[t][r].ph = "rot" => rotating[t]
  /\ rotating[t] \/ restoring[t] = "refresh" => refresh[t].ph # "idle"
  /\ restoring[t] = "me" => call[t][BootCall].ph # "idle"

HandlerWaits(t) ==
  /\ signout[t]["menu"].ph = "blocked" => handling[t]
  /\ handling[t] <=> signout[t]["handler"].ph # "idle"
  /\ signout[t]["handler"].ph # "blocked"

WaitInv == \A t \in Tabs : RefreshWaits(t) /\ HandlerWaits(t)

KeepsRefreshWaits(u) ==
  /\ call'[u] = call[u] /\ rotating'[u] = rotating[u]
  /\ refresh'[u] = refresh[u] /\ restoring'[u] = restoring[u]

KeepsHandlerWaits(u) == signout'[u] = signout[u] /\ handling'[u] = handling[u]

(* What a step of tab t has to do for the invariant. *)
RefreshWaitStep(t) ==
  RefreshWaits(t)' /\ \A u \in Tabs \ {t} : KeepsRefreshWaits(u)
HandlerWaitStep(t) ==
  HandlerWaits(t)' /\ \A u \in Tabs \ {t} : KeepsHandlerWaits(u)

LEMMA WaitStep ==
  ASSUME WaitInv, NEW t \in Tabs, RefreshWaitStep(t), HandlerWaitStep(t)
  PROVE  WaitInv'
<1> SUFFICES ASSUME NEW u \in Tabs PROVE RefreshWaits(u)' /\ HandlerWaits(u)'
  BY DEF WaitInv
<1>1. CASE u = t
  BY <1>1 DEF RefreshWaitStep, HandlerWaitStep
<1>2. CASE u # t
  <2>1. RefreshWaits(u)'
    BY <1>2 DEF WaitInv, RefreshWaitStep, RefreshWaits, KeepsRefreshWaits
  <2>2. HandlerWaits(u)'
    BY <1>2 DEF WaitInv, HandlerWaitStep, HandlerWaits, KeepsHandlerWaits
  <2> QED BY <2>1, <2>2
<1> QED BY <1>1, <1>2

LEMMA RefreshWaitsKept ==
  ASSUME WaitInv, NEW t \in Tabs, UNCHANGED <<call, rotating, refresh, restoring>>
  PROVE  RefreshWaitStep(t)
BY DEF WaitInv, RefreshWaitStep, RefreshWaits, KeepsRefreshWaits

LEMMA HandlerWaitsKept ==
  ASSUME WaitInv, NEW t \in Tabs, UNCHANGED <<signout, handling>>
  PROVE  HandlerWaitStep(t)
BY DEF WaitInv, HandlerWaitStep, HandlerWaits, KeepsHandlerWaits

(* The refresh goes on. *)
LEMMA RefreshGoesOn ==
  ASSUME TypeOK, WaitInv, NEW t \in Tabs, NEW r \in Refresh, r.ph # "idle",
         refresh' = [refresh EXCEPT ![t] = r],
         rotating' \in {rotating, [rotating EXCEPT ![t] = TRUE]},
         UNCHANGED <<call, restoring>>
  PROVE  RefreshWaitStep(t)
<1>1. refresh'[t] = r /\ (rotating[t] => rotating'[t])
      /\ \A u \in Tabs \ {t} : refresh'[u] = refresh[u] /\ rotating'[u] = rotating[u]
  BY DEF TypeOK
<1> QED BY <1>1 DEF WaitInv, RefreshWaitStep, RefreshWaits, KeepsRefreshWaits

LEMMA HandlerStarts ==
  ASSUME TypeOK, WaitInv, NEW t \in Tabs, StartHandler(t)
  PROVE  HandlerWaitStep(t)
<1>1. CASE UNCHANGED <<handling, signout>>
  BY <1>1, HandlerWaitsKept
<1>2. CASE /\ ~handling[t] /\ handling' = [handling EXCEPT ![t] = TRUE]
           /\ signout' = [signout EXCEPT ![t]["handler"] = [ph |-> "start", pair |-> None]]
  <2>1. /\ handling'[t] /\ signout'[t]["handler"].ph = "start"
        /\ \A u \in Tabs \ {t} : signout'[u] = signout[u] /\ handling'[u] = handling[u]
    BY <1>2 DEF TypeOK, SignOuts
  <2> QED BY <2>1 DEF HandlerWaitStep, HandlerWaits, KeepsHandlerWaits
<1> QED BY <1>1, <1>2 DEF StartHandler

(* The end of a refresh releases whoever waits for it. *)
LEMMA SettleWaits ==
  ASSUME TypeOK, WaitInv, NEW t \in Tabs, NEW p, Settle(t, p)
  PROVE  RefreshWaitStep(t) /\ HandlerWaitStep(t)
<1>1. HandlerWaitStep(t)
  BY HandlerStarts, HandlerWaitsKept DEF Settle
<1>2. /\ refresh' = [refresh EXCEPT ![t] = NoRefresh]
      /\ rotating' = [rotating EXCEPT ![t] = FALSE]
      /\ call' = [call EXCEPT ![t] = [r \in AllCalls |->
                    IF call[t][r].ph # "rot" THEN call[t][r]
                    ELSE IF p = None THEN NoCall
                    ELSE [ph |-> "resent", pair |-> p]]]
      /\ restoring' = [restoring EXCEPT ![t] =
           IF @ = "refresh" \/ (p = None /\ call[t][BootCall].ph = "rot")
           THEN "no" ELSE @]
  BY DEF Settle
<1>3. \A u \in Tabs \ {t} : KeepsRefreshWaits(u)
  BY <1>2 DEF TypeOK, KeepsRefreshWaits
<1>4. ~rotating'[t] /\ restoring'[t] # "refresh"
  BY <1>2 DEF TypeOK
<1>5. \A r \in AllCalls : call'[t][r] =
        IF call[t][r].ph # "rot" THEN call[t][r]
        ELSE IF p = None THEN NoCall ELSE [ph |-> "resent", pair |-> p]
  BY <1>2 DEF TypeOK
<1>6. \A r \in AllCalls : call'[t][r].ph # "rot"
  BY <1>5 DEF NoCall
<1>7. ASSUME restoring'[t] = "me" PROVE call'[t][BootCall].ph # "idle"
  <2>1. restoring[t] = "me" /\ ~(p = None /\ call[t][BootCall].ph = "rot")
    BY <1>2, <1>7 DEF TypeOK
  <2>2. call[t][BootCall].ph # "idle"
    BY <2>1 DEF WaitInv, RefreshWaits
  <2> QED BY <1>5, <2>1, <2>2, RecordTypes
<1> QED BY <1>1, <1>3, <1>4, <1>6, <1>7 DEF RefreshWaitStep, RefreshWaits

(* A rotation joins the refresh under way, or starts one. *)
LEMMA JoinGoesOn ==
  ASSUME TypeOK, WaitInv, NEW t \in Tabs, JoinRefresh(t)
  PROVE  /\ \E r \in Refresh : r.ph # "idle" /\ refresh' = [refresh EXCEPT ![t] = r]
<1>1. refresh \in [Tabs -> Refresh] /\ cookie \in PairOrNone
  BY DEF TypeOK
<1>2. CASE refresh[t].ph # "idle"
  <2>1. refresh' = [refresh EXCEPT ![t] = refresh[t]] /\ refresh[t] \in Refresh
    BY <1>1, <1>2 DEF JoinRefresh
  <2> QED BY <1>2, <2>1
<1>3. CASE refresh[t].ph = "idle"
  <2>1. RefreshAt("sent", cookie) \in Refresh /\ RefreshAt("sent", cookie).ph = "sent"
    BY <1>1 DEF RefreshAt, Refresh, RefreshPhase
  <2> QED BY <1>3, <2>1 DEF JoinRefresh
<1> QED BY <1>2, <1>3

LEMMA RotationWaits ==
  ASSUME TypeOK, WaitInv, NEW t \in Tabs, RotateRealAccessToken(t)
  PROVE  /\ rotating' = [rotating EXCEPT ![t] = TRUE] /\ rotating'[t]
         /\ refresh'[t].ph # "idle"
         /\ \A u \in Tabs \ {t} : refresh'[u] = refresh[u] /\ rotating'[u] = rotating[u]
<1>1. rotating' = [rotating EXCEPT ![t] = TRUE]
  BY DEF RotateRealAccessToken
<1>2. CASE rotating[t]
  <2>1. refresh' = refresh BY <1>2 DEF RotateRealAccessToken
  <2> QED BY <1>1, <1>2, <2>1 DEF TypeOK, WaitInv, RefreshWaits
<1>3. CASE ~rotating[t]
  <2>1. PICK r \in Refresh : r.ph # "idle" /\ refresh' = [refresh EXCEPT ![t] = r]
    BY <1>3, JoinGoesOn DEF RotateRealAccessToken
  <2> QED BY <1>1, <2>1 DEF TypeOK
<1> QED BY <1>2, <1>3

LEMMA ResetWaits ==
  ASSUME TypeOK, WaitInv, NEW t \in Tabs, ResetTab(t)
  PROVE  RefreshWaitStep(t) /\ HandlerWaitStep(t)
<1>1. RefreshWaits(t)'
  BY DEF TypeOK, ResetTab, RefreshWaits, NoCall
<1>2. \A u \in Tabs \ {t} : KeepsRefreshWaits(u)
  BY DEF TypeOK, ResetTab, KeepsRefreshWaits
<1>3. HandlerWaits(t)'
  BY DEF TypeOK, ResetTab, HandlerWaits, NoSignOut, SignOuts
<1>4. \A u \in Tabs \ {t} : KeepsHandlerWaits(u)
  BY DEF TypeOK, ResetTab, KeepsHandlerWaits
<1> QED BY <1>1, <1>2, <1>3, <1>4 DEF RefreshWaitStep, HandlerWaitStep

LEMMA LoginWaits ==
  ASSUME WaitInv, NEW t \in Tabs, LoginNext(t)
  PROVE  RefreshWaitStep(t) /\ HandlerWaitStep(t)
<1>1. UNCHANGED <<call, rotating, refresh, restoring, signout, handling>>
  BY DEF LoginNext, LoginSubmit, NestLogin, LoginFails, LoginReceive,
     LoginPersisted, LoginPersistRetry, LoginPersistFails
<1> QED BY <1>1, RefreshWaitsKept, HandlerWaitsKept

LEMMA RefreshWaitSteps ==
  ASSUME TypeOK, WaitInv, NEW t \in Tabs, RefreshNext(t)
  PROVE  RefreshWaitStep(t) /\ HandlerWaitStep(t)
<1>1. CASE \/ RefreshGivesUp(t) \/ RefreshPersistFails(t) \/ RefreshMeLost(t)
           \/ SelfWaitTimeout(t) \/ RefreshBodyLost(t)
  <2>1. PICK rb \in BOOLEAN : SettleTransient(t, rb)
    BY <1>1 DEF RefreshGivesUp, RefreshPersistFails, RefreshMeLost, SelfWaitTimeout,
       RefreshBodyLost, WriteNotSuperseded
  <2> QED BY <2>1, SettleWaits DEF SettleTransient
<1>2. CASE RefreshDead(t) \/ RefreshMeForbidden(t)
  BY <1>2, SettleWaits DEF RefreshDead, RefreshMeForbidden, SettleDead
<1>3. CASE RouteRotates(t) \/ RouteRefuses(t) \/ RouteFails(t)
           \/ RefreshReceive(t) \/ RefreshPersistRetry(t)
           \/ RefreshHeaders(t) \/ RefreshBodyHangs(t)
  <2>1. refresh \in [Tabs -> Refresh] BY DEF TypeOK
  <2>2. UNCHANGED <<call, rotating, restoring, signout, handling>>
    BY <1>3 DEF RouteRotates, RouteRefuses, RouteFails, RefreshReceive, RefreshPersistRetry,
       RefreshHeaders, RefreshBodyHangs
  <2>3. /\ refresh'[t].ph # "idle"
        /\ \A u \in Tabs \ {t} : refresh'[u] = refresh[u]
    <3>1. CASE RouteRotates(t) BY <2>1, <3>1 DEF RouteRotates, Refresh
    <3>2. CASE RouteRefuses(t) BY <2>1, <3>2 DEF RouteRefuses, Refresh
    <3>3. CASE RouteFails(t) BY <2>1, <3>3 DEF RouteFails, Refresh
    <3>4. CASE RefreshReceive(t) BY <2>1, <3>4 DEF RefreshReceive, Refresh
    <3>5. CASE RefreshPersistRetry(t) BY <2>1, <3>5 DEF RefreshPersistRetry, Refresh
    <3>6. CASE RefreshHeaders(t) BY <2>1, <3>6 DEF RefreshHeaders, Refresh
    <3>7. CASE RefreshBodyHangs(t) BY <2>1, <3>7 DEF RefreshBodyHangs, Refresh
    <3> QED BY <1>3, <3>1, <3>2, <3>3, <3>4, <3>5, <3>6, <3>7
  <2>4. RefreshWaitStep(t)
    BY <2>2, <2>3 DEF WaitInv, RefreshWaitStep, RefreshWaits, KeepsRefreshWaits
  <2> QED BY <2>2, <2>4, HandlerWaitsKept
<1>4. CASE RefreshHangs(t)
  <2>1. RefreshAt("hung", None) \in Refresh /\ RefreshAt("hung", None).ph # "idle"
    BY RecordTypes DEF RefreshAt, Refresh, RefreshPhase
  <2> QED BY <1>4, <2>1, RefreshGoesOn, HandlerWaitsKept DEF RefreshHangs
<1>5. CASE RefreshPersisted(t)
  <2>1. CASE refresh[t].me
    BY <1>5, <2>1, SettleWaits DEF RefreshPersisted, SettleWithSession
  <2>2. CASE ~refresh[t].me
    <3>1. /\ refresh' = [refresh EXCEPT ![t].ph = "me"]
          /\ UNCHANGED <<call, rotating, restoring, signout, handling>>
      BY <1>5, <2>2 DEF RefreshPersisted
    <3>2. refresh'[t].ph = "me" /\ \A u \in Tabs \ {t} : refresh'[u] = refresh[u]
      BY <3>1 DEF TypeOK, Refresh
    <3>3. RefreshWaitStep(t)
      BY <3>1, <3>2 DEF WaitInv, RefreshWaitStep, RefreshWaits, KeepsRefreshWaits
    <3> QED BY <3>1, <3>3, HandlerWaitsKept
  <2> QED BY <2>1, <2>2
<1>6. CASE RefreshAsksMe(t)
  <2>1. CASE SettleDead(t)
    BY <2>1, SettleWaits DEF SettleDead
  <2>2. CASE SettleWithSession(t, refresh[t].pair)
    BY <2>2, SettleWaits DEF SettleWithSession
  <2>3. CASE /\ refresh' = [refresh EXCEPT ![t].ph = "selfwait"]
             /\ rotating' = [rotating EXCEPT ![t] = TRUE]
             /\ UNCHANGED <<call, restoring, signout, handling>>
    <3>1. /\ refresh'[t].ph = "selfwait" /\ rotating'[t]
          /\ \A u \in Tabs \ {t} : refresh'[u] = refresh[u] /\ rotating'[u] = rotating[u]
      BY <2>3 DEF TypeOK, Refresh
    <3>2. RefreshWaitStep(t)
      BY <2>3, <3>1 DEF WaitInv, RefreshWaitStep, RefreshWaits, KeepsRefreshWaits
    <3> QED BY <2>3, <3>2, HandlerWaitsKept
  <2> QED BY <1>6, <2>1, <2>2, <2>3 DEF RefreshAsksMe
<1> QED BY <1>1, <1>2, <1>3, <1>4, <1>5, <1>6 DEF RefreshNext

LEMMA SignOutWaits ==
  ASSUME TypeOK, WaitInv, NEW t \in Tabs, SignOutNext(t)
  PROVE  RefreshWaitStep(t) /\ HandlerWaitStep(t)
<1>1. signout \in [Tabs -> [SignOuts -> SignOut]] /\ handling \in [Tabs -> BOOLEAN]
  BY DEF TypeOK
<1>2. HandlerWaits(t)
  BY DEF WaitInv
<1>3. CASE MenuSignOut(t)
  <2>1. signout'[t]["menu"].ph = "start" /\ signout'[t]["handler"] = signout[t]["handler"]
        /\ \A u \in Tabs \ {t} : signout'[u] = signout[u]
    BY <1>1, <1>3 DEF MenuSignOut, SignOuts, SignOut
  <2>2. HandlerWaitStep(t)
    BY <1>2, <1>3, <2>1 DEF MenuSignOut, HandlerWaitStep, HandlerWaits, KeepsHandlerWaits
  <2> QED BY <1>3, <2>2, RefreshWaitsKept DEF MenuSignOut
<1>4. CASE MenuSignedOut(t)
  <2>1. signout'[t]["menu"] = NoSignOut /\ signout'[t]["handler"] = signout[t]["handler"]
        /\ \A u \in Tabs \ {t} : signout'[u] = signout[u]
    BY <1>1, <1>4 DEF MenuSignedOut, SignOuts
  <2>2. HandlerWaitStep(t)
    BY <1>2, <1>4, <2>1 DEF MenuSignedOut, HandlerWaitStep, HandlerWaits, KeepsHandlerWaits, NoSignOut
  <2> QED BY <1>4, <2>2, RefreshWaitsKept DEF MenuSignedOut
<1>5. CASE HandlerSignedOut(t)
  <2>1. CASE page[t] = "app"
    BY <1>5, <2>1, ResetWaits DEF HandlerSignedOut
  <2>2. CASE page[t] # "app"
    <3>1. /\ signout' = [signout EXCEPT ![t] = [k \in SignOuts |->
                  IF k = "handler" THEN NoSignOut
                  ELSE IF signout[t][k].ph = "blocked"
                       THEN [signout[t][k] EXCEPT !.ph = "body"]
                       ELSE signout[t][k]]]
          /\ handling' = [handling EXCEPT ![t] = FALSE]
          /\ UNCHANGED <<call, rotating, refresh, restoring>>
      BY <1>5, <2>2 DEF HandlerSignedOut
    <3>2. /\ signout'[t]["handler"] = NoSignOut /\ ~handling'[t]
          /\ \A u \in Tabs \ {t} : signout'[u] = signout[u] /\ handling'[u] = handling[u]
      BY <1>1, <3>1 DEF SignOuts
    <3>3. signout'[t]["menu"].ph # "blocked"
      BY <1>1, <3>1 DEF SignOuts, SignOut
    <3>4. HandlerWaitStep(t)
      BY <3>2, <3>3 DEF HandlerWaitStep, HandlerWaits, KeepsHandlerWaits, NoSignOut
    <3> QED BY <3>1, <3>4, RefreshWaitsKept
  <2> QED BY <2>1, <2>2
<1>6. CASE ClearTokensAnswered(t)
  BY <1>6, RefreshWaitsKept, HandlerWaitsKept DEF ClearTokensAnswered
<1>7. ASSUME NEW k \in SignOuts,
             \/ SignOutStart(t, k) \/ SignOutPost(t, k) \/ NestSignOut(t, k)
             \/ SignOutLost(t, k) \/ SignOutErrorRead(t, k)
             \/ SignOutBodyHangs(t, k)
      PROVE  RefreshWaitStep(t) /\ HandlerWaitStep(t)
  <2>1. UNCHANGED <<call, rotating, refresh, restoring, handling>>
    BY <1>7 DEF SignOutStart, SignOutPost, NestSignOut, SignOutLost,
       SignOutErrorRead, SignOutBodyHangs
  <2>2. /\ signout[t][k].ph \in {"start", "wait", "post", "body"}
        /\ signout'[t][k].ph \in {"wait", "post", "done", "unauth", "body", "stuck"}
        /\ \A j \in SignOuts \ {k} : signout'[t][j] = signout[t][j]
        /\ \A u \in Tabs \ {t} : signout'[u] = signout[u]
    <3>1. CASE SignOutStart(t, k) BY <1>1, <3>1 DEF SignOutStart, SignOut
    <3>2. CASE SignOutPost(t, k) BY <1>1, <3>2 DEF SignOutPost, SignOut
    <3>3. CASE NestSignOut(t, k) BY <1>1, <3>3 DEF NestSignOut, SignOut
    <3>4. CASE SignOutLost(t, k) BY <1>1, <3>4 DEF SignOutLost, SignOut
    <3>5. CASE SignOutErrorRead(t, k) BY <1>1, <3>5 DEF SignOutErrorRead, SignOut
    <3>6. CASE SignOutBodyHangs(t, k) BY <1>1, <3>6 DEF SignOutBodyHangs, SignOut
    <3> QED BY <1>7, <3>1, <3>2, <3>3, <3>4, <3>5, <3>6
  <2>3. HandlerWaitStep(t)
    BY <1>2, <2>1, <2>2 DEF HandlerWaitStep, HandlerWaits, KeepsHandlerWaits, SignOuts
  <2> QED BY <2>1, <2>3, RefreshWaitsKept
<1>8. ASSUME NEW k \in SignOuts, SignOut401(t, k)
      PROVE  RefreshWaitStep(t) /\ HandlerWaitStep(t)
  <2>1. UNCHANGED <<call, rotating, refresh, restoring>> /\ signout[t][k].ph = "unauth"
    BY <1>8 DEF SignOut401
  <2>2. CASE handling[t] \/ page[t] = "outside"
    <3>1. signout' = [signout EXCEPT ![t][k].ph = "body"] /\ UNCHANGED handling
      BY <1>8, <2>2 DEF SignOut401
    <3>2. /\ signout'[t][k].ph = "body"
          /\ \A j \in SignOuts \ {k} : signout'[t][j] = signout[t][j]
          /\ \A u \in Tabs \ {t} : signout'[u] = signout[u]
      BY <1>1, <3>1 DEF SignOut
    <3>3. HandlerWaitStep(t)
      BY <1>2, <2>1, <3>1, <3>2 DEF HandlerWaitStep, HandlerWaits, KeepsHandlerWaits, SignOuts
    <3> QED BY <2>1, <3>3, RefreshWaitsKept
  <2>3. CASE ~(handling[t] \/ page[t] = "outside")
    <3>1. k = "menu"
      BY <1>2, <2>1, <2>3 DEF HandlerWaits, SignOuts
    <3>2. /\ signout' = [signout EXCEPT ![t]["menu"].ph = "blocked",
                                        ![t]["handler"].ph = "start"]
          /\ handling' = [handling EXCEPT ![t] = TRUE]
      BY <1>8, <2>3, <3>1 DEF SignOut401
    <3>3. /\ signout'[t]["handler"].ph = "start" /\ handling'[t]
          /\ \A u \in Tabs \ {t} : signout'[u] = signout[u] /\ handling'[u] = handling[u]
      BY <1>1, <3>2 DEF SignOuts, SignOut
    <3>4. HandlerWaitStep(t)
      BY <3>3 DEF HandlerWaitStep, HandlerWaits, KeepsHandlerWaits
    <3> QED BY <2>1, <3>4, RefreshWaitsKept
  <2> QED BY <2>2, <2>3
<1> QED BY <1>3, <1>4, <1>5, <1>6, <1>7, <1>8 DEF SignOutNext

LEMMA CallWaits ==
  ASSUME TypeOK, WaitInv, NEW t \in Tabs, CallNext(t)
  PROVE  RefreshWaitStep(t) /\ HandlerWaitStep(t)
<1>1. call \in [Tabs -> [AllCalls -> Call]] /\ restoring \in [Tabs -> {"no", "refresh", "me"}]
  BY DEF TypeOK
<1>2. RefreshWaits(t)
  BY DEF WaitInv
<1>3. UNCHANGED <<signout, handling>>
  BY DEF CallNext, StartCall, CallAnswered, CallRefused, CallRotates, CallForbidden,
     CallRetried, CallLost, CallBodyHangs
<1>4. ASSUME NEW r \in Calls, StartCall(t, r)
      PROVE  RefreshWaitStep(t)
  <2>1. r \in AllCalls /\ r # BootCall
    BY SessionAssumption DEF AllCalls
  <2>2. /\ call'[t][r].ph = "sent" /\ \A q \in AllCalls \ {r} : call'[t][q] = call[t][q]
        /\ \A u \in Tabs \ {t} : call'[u] = call[u]
        /\ UNCHANGED <<rotating, refresh, restoring>>
    BY <1>1, <1>4, <2>1 DEF StartCall
  <2>3. RefreshWaits(t)'
    BY <1>2, <2>1, <2>2, RecordTypes DEF RefreshWaits
  <2> QED BY <2>2, <2>3 DEF RefreshWaitStep, KeepsRefreshWaits
<1>5. ASSUME NEW r \in AllCalls, CallAnswered(t, r) \/ CallForbidden(t, r) \/ CallLost(t, r)
      PROVE  RefreshWaitStep(t)
  <2>1. /\ call' = [call EXCEPT ![t][r] = NoCall]
        /\ UNCHANGED <<rotating, refresh>>
        /\ restoring' = IF r = BootCall THEN [restoring EXCEPT ![t] = "no"] ELSE restoring
    BY <1>5 DEF CallAnswered, CallForbidden, CallLost, BootResult
  <2>2. /\ call'[t][r] = NoCall /\ \A q \in AllCalls \ {r} : call'[t][q] = call[t][q]
        /\ \A u \in Tabs \ {t} : call'[u] = call[u] /\ restoring'[u] = restoring[u]
        /\ restoring'[t] = IF r = BootCall THEN "no" ELSE restoring[t]
    BY <1>1, <2>1
  <2>3. RefreshWaits(t)'
    BY <1>2, <2>1, <2>2, RecordTypes DEF RefreshWaits, NoCall
  <2> QED BY <2>1, <2>2, <2>3 DEF RefreshWaitStep, KeepsRefreshWaits
<1>6. ASSUME NEW r \in AllCalls,
             CallRefused(t, r) \/ CallRetried(t, r) \/ CallBodyHangs(t, r)
      PROVE  RefreshWaitStep(t)
  <2>1. /\ call'[t][r].ph \in {"unauth", "resent", "stuck"}
        /\ \A q \in AllCalls \ {r} : call'[t][q] = call[t][q]
        /\ \A u \in Tabs \ {t} : call'[u] = call[u]
        /\ UNCHANGED <<rotating, refresh, restoring>>
    <3>1. CASE CallRefused(t, r) BY <1>1, <3>1 DEF CallRefused
    <3>2. CASE CallRetried(t, r) BY <1>1, <3>2 DEF CallRetried, Call
    <3>3. CASE CallBodyHangs(t, r) BY <1>1, <3>3 DEF CallBodyHangs, Call
    <3> QED BY <1>6, <3>1, <3>2, <3>3
  <2>2. RefreshWaits(t)'
    BY <1>2, <2>1, RecordTypes DEF RefreshWaits
  <2> QED BY <2>1, <2>2 DEF RefreshWaitStep, KeepsRefreshWaits
<1>7. ASSUME NEW r \in AllCalls, CallRotates(t, r)
      PROVE  RefreshWaitStep(t)
  <2>1. /\ call'[t][r].ph = "rot" /\ \A q \in AllCalls \ {r} : call'[t][q] = call[t][q]
        /\ \A u \in Tabs \ {t} : call'[u] = call[u]
        /\ UNCHANGED restoring
    BY <1>1, <1>7 DEF CallRotates, Call
  <2>2. /\ rotating'[t] /\ refresh'[t].ph # "idle"
        /\ \A u \in Tabs \ {t} : refresh'[u] = refresh[u] /\ rotating'[u] = rotating[u]
    BY <1>7, RotationWaits DEF CallRotates
  <2>3. RefreshWaits(t)'
    BY <1>2, <2>1, <2>2, RecordTypes DEF RefreshWaits
  <2> QED BY <2>1, <2>2, <2>3 DEF RefreshWaitStep, KeepsRefreshWaits
<1>8. RefreshWaitStep(t)
  BY <1>4, <1>5, <1>6, <1>7 DEF CallNext
<1> QED BY <1>3, <1>8, HandlerWaitsKept

LEMMA GuardWaits ==
  ASSUME TypeOK, WaitInv, NEW t \in Tabs, GuardNext(t)
  PROVE  RefreshWaitStep(t) /\ HandlerWaitStep(t)
<1>1. CASE RestoreStart(t)
  <2>1. CASE Access(t) # None
    <3>1. /\ restoring' = [restoring EXCEPT ![t] = "me"]
          /\ call' = [call EXCEPT ![t][BootCall] = [ph |-> "sent", pair |-> Access(t)]]
          /\ UNCHANGED <<refresh, rotating>>
      BY <1>1, <2>1 DEF RestoreStart
    <3>2. /\ restoring'[t] = "me" /\ call'[t][BootCall].ph = "sent"
          /\ \A q \in AllCalls \ {BootCall} : call'[t][q] = call[t][q]
          /\ \A u \in Tabs \ {t} : call'[u] = call[u] /\ restoring'[u] = restoring[u]
      BY <3>1, RecordTypes DEF TypeOK
    <3>3. RefreshWaits(t)'
      BY <3>1, <3>2 DEF WaitInv, RefreshWaits
    <3> QED BY <1>1, <3>1, <3>2, <3>3, HandlerWaitsKept
            DEF RestoreStart, RefreshWaitStep, KeepsRefreshWaits
  <2>2. CASE Access(t) = None
    <3>1. /\ restoring' = [restoring EXCEPT ![t] = "refresh"]
          /\ JoinRefresh(t) /\ UNCHANGED <<call, rotating>>
      BY <1>1, <2>2 DEF RestoreStart
    <3>2. PICK r \in Refresh : r.ph # "idle" /\ refresh' = [refresh EXCEPT ![t] = r]
      BY <3>1, JoinGoesOn
    <3>3. /\ restoring'[t] = "refresh" /\ refresh'[t].ph # "idle"
          /\ \A u \in Tabs \ {t} : refresh'[u] = refresh[u] /\ restoring'[u] = restoring[u]
      BY <3>1, <3>2 DEF TypeOK
    <3>4. RefreshWaits(t)'
      BY <3>1, <3>3 DEF WaitInv, RefreshWaits
    <3> QED BY <1>1, <3>1, <3>3, <3>4, HandlerWaitsKept
            DEF RestoreStart, RefreshWaitStep, KeepsRefreshWaits
  <2> QED BY <2>1, <2>2
<1>2. CASE KeepAlive(t)
  <2>1. /\ rotating'[t] /\ refresh'[t].ph # "idle"
        /\ \A u \in Tabs \ {t} : refresh'[u] = refresh[u] /\ rotating'[u] = rotating[u]
    BY <1>2, RotationWaits DEF KeepAlive
  <2>2. RefreshWaits(t)'
    BY <1>2, <2>1 DEF KeepAlive, WaitInv, RefreshWaits
  <2> QED BY <1>2, <2>1, <2>2, HandlerWaitsKept DEF KeepAlive, RefreshWaitStep, KeepsRefreshWaits
<1>3. CASE AccessExpires(t) \/ GuardRedirects(t) \/ OpenApp(t)
  BY <1>3, RefreshWaitsKept, HandlerWaitsKept DEF AccessExpires, GuardRedirects, OpenApp
<1>4. CASE Reload(t)
  BY <1>4, ResetWaits DEF Reload
<1> QED BY <1>1, <1>2, <1>3, <1>4 DEF GuardNext

(* In every tab, whoever waits waits for a refresh, a call or a handler that is
   under way, for any tabs, calls and bounds: what no promise of the session
   can be left without is proved, that each one ends is model-checked. *)
THEOREM NoWaitIsInVain == Spec => []NobodyWaitsInVain
<1>1. Init => WaitInv
  <2> SUFFICES ASSUME Init, NEW t \in Tabs PROVE RefreshWaits(t) /\ HandlerWaits(t)
    BY DEF WaitInv
  <2>1. RefreshWaits(t)
    BY RecordTypes DEF Init, RefreshWaits, NoCall
  <2>2. HandlerWaits(t)
    BY DEF Init, HandlerWaits, NoSignOut, SignOuts
  <2> QED BY <2>1, <2>2
<1>2. TypeOK /\ WaitInv /\ [Next]_vars => WaitInv'
  <2> SUFFICES ASSUME TypeOK, WaitInv, [Next]_vars
               PROVE  WaitInv'
    OBVIOUS
  <2>1. ASSUME NEW t \in Tabs,
               \/ LoginNext(t) \/ RefreshNext(t) \/ SignOutNext(t)
               \/ CallNext(t) \/ GuardNext(t)
        PROVE  WaitInv'
    BY <2>1, LoginWaits, RefreshWaitSteps, SignOutWaits, CallWaits, GuardWaits, WaitStep
  <2>2. CASE UNCHANGED <<call, rotating, refresh, restoring, signout, handling>>
    BY <2>2 DEF WaitInv, RefreshWaits, HandlerWaits
  <2>3. ASSUME NEW p \in Pair, GhostRotates(p)
        PROVE  WaitInv'
    BY <2>2, <2>3 DEF GhostRotates
  <2>4. CASE UNCHANGED vars
    BY <2>2, <2>4 DEF vars
  <2> QED BY <2>1, <2>3, <2>4 DEF Next
<1>3. WaitInv => NobodyWaitsInVain
  BY DEF WaitInv, RefreshWaits, HandlerWaits, NobodyWaitsInVain
<1> QED BY <1>1, <1>2, <1>3, TypeCorrect, PTL DEF Spec

-----------------------------------------------------------------------------
(* The rollback of a failed set-tokens.  The strengthening: the generation  *)
(* a writer remembers is never ahead of _writeGeneration, and while it is   *)
(* the current one, memory holds the pair of that writer or nothing.        *)

WriterInv ==
  \A t \in Tabs :
    /\ login[t].ph = "persist" =>
         /\ login[t].gen <= wgen[t]
         /\ login[t].gen = wgen[t] => mem[t] \in {login[t].pair, None}
    /\ refresh[t].ph = "persist" =>
         /\ refresh[t].gen <= wgen[t]
         /\ refresh[t].gen = wgen[t] => mem[t] \in {refresh[t].pair, None}

(* A step that starts no write in tab u: memory stays or is emptied, and a   *)
(* writer that is in "persist" afterwards was so before, with its pair and  *)
(* generation; or the tab has no writer afterwards (a document load).       *)
StartsNoWrite(u) ==
  \/ /\ wgen'[u] = wgen[u] /\ mem'[u] \in {mem[u], None}
     /\ login'[u].ph = "persist" =>
          /\ login[u].ph = "persist"
          /\ login'[u].gen = login[u].gen /\ login'[u].pair = login[u].pair
     /\ refresh'[u].ph = "persist" =>
          /\ refresh[u].ph = "persist"
          /\ refresh'[u].gen = refresh[u].gen
          /\ refresh'[u].pair = refresh[u].pair
  \/ login'[u].ph # "persist" /\ refresh'[u].ph # "persist"

LEMMA NoWriteKeeps ==
  ASSUME WriterInv, \A u \in Tabs : StartsNoWrite(u)
  PROVE  WriterInv'
  BY DEF WriterInv, StartsNoWrite

(* A settled refresh has no writer; clearing only empties memory. *)
LEMMA SettleNoWrite ==
  ASSUME TypeOK, NEW t \in Tabs, NEW p, Settle(t, p), UNCHANGED login,
         UNCHANGED tokens \/ \E n \in Nat : ClearRealAuthTokens(t, n),
         NEW u \in Tabs
  PROVE  StartsNoWrite(u)
<1>1. wgen' = wgen /\ mem'[u] \in {mem[u], None}
  BY DEF tokens, ClearRealAuthTokens, TypeOK
<1>2. refresh'[u] = IF u = t THEN NoRefresh ELSE refresh[u]
  BY DEF Settle, TypeOK
<1>3. NoRefresh.ph # "persist" BY DEF NoRefresh, RefreshAt
<1> QED BY <1>1, <1>2, <1>3 DEF StartsNoWrite

LEMMA TransientNoWrite ==
  ASSUME TypeOK, NEW t \in Tabs, NEW rb, SettleTransient(t, rb),
         UNCHANGED login, NEW u \in Tabs
  PROVE  StartsNoWrite(u)
<1>1. UNCHANGED tokens \/ \E n \in Nat : ClearRealAuthTokens(t, n)
  BY DEF SettleTransient
<1> QED BY <1>1, SettleNoWrite DEF SettleTransient

LEMMA ResetNoWrite ==
  ASSUME TypeOK, NEW t \in Tabs, ResetTab(t), NEW u \in Tabs
  PROVE  StartsNoWrite(u)
<1>1. login'[u] = (IF u = t THEN NoLogin ELSE login[u])
      /\ refresh'[u] = (IF u = t THEN NoRefresh ELSE refresh[u])
      /\ (u # t => wgen'[u] = wgen[u] /\ mem'[u] = mem[u])
  BY DEF ResetTab, TypeOK
<1> QED BY <1>1 DEF StartsNoWrite, NoLogin, NoRefresh, RefreshAt

LEMMA JoinNoWrite ==
  ASSUME TypeOK, NEW t \in Tabs, JoinRefresh(t), NEW u \in Tabs
  PROVE  refresh'[u].ph = "persist" => refresh'[u] = refresh[u]
<1>1. RefreshAt("sent", cookie).ph # "persist" BY DEF RefreshAt
<1> QED BY <1>1 DEF JoinRefresh, TypeOK

(* The two actions that start a write take the next generation. *)
LEMMA WritesKeep ==
  ASSUME TypeOK, WriterInv, NEW t \in Tabs,
         LoginReceive(t) \/ RefreshReceive(t)
  PROVE  WriterInv'
<1>1. /\ wgen \in [Tabs -> Nat] /\ mem \in [Tabs -> PairOrNone]
      /\ login \in [Tabs -> Login] /\ refresh \in [Tabs -> Refresh]
  BY DEF TypeOK
<1>2. CASE LoginReceive(t)
  <2>1. /\ wgen' = [wgen EXCEPT ![t] = wgen[t] + 1]
        /\ mem' = [mem EXCEPT ![t] = login[t].pair]
        /\ refresh' = refresh
    BY <1>2, <1>1 DEF LoginReceive, WriteRealAuthTokens
  <2>2. /\ login'[t].gen = wgen[t] + 1 /\ login'[t].pair = login[t].pair
        /\ \A u \in Tabs \ {t} : login'[u] = login[u]
    BY <1>2, <1>1 DEF LoginReceive, Login
  <2>3. ASSUME NEW u \in Tabs, u # t
        PROVE  wgen'[u] = wgen[u] /\ mem'[u] = mem[u] /\ login'[u] = login[u]
    BY <1>1, <2>1, <2>2, <2>3
  <2>4. wgen'[t] = wgen[t] + 1 /\ mem'[t] = login[t].pair /\ wgen[t] \in Nat
    BY <1>1, <2>1
  <2>5. refresh[t].ph = "persist" => refresh[t].gen <= wgen[t]
        /\ refresh[t].gen \in Nat
    BY <1>1 DEF WriterInv, Refresh
  <2> QED BY <2>1, <2>2, <2>3, <2>4, <2>5 DEF WriterInv
<1>3. CASE RefreshReceive(t)
  <2>1. /\ wgen' = [wgen EXCEPT ![t] = wgen[t] + 1]
        /\ mem' = [mem EXCEPT ![t] = refresh[t].pair]
        /\ login' = login
    BY <1>3, <1>1 DEF RefreshReceive, WriteRealAuthTokens
  <2>2. /\ refresh'[t].gen = wgen[t] + 1 /\ refresh'[t].pair = refresh[t].pair
        /\ \A u \in Tabs \ {t} : refresh'[u] = refresh[u]
    BY <1>3, <1>1 DEF RefreshReceive, Refresh
  <2>3. ASSUME NEW u \in Tabs, u # t
        PROVE  /\ wgen'[u] = wgen[u] /\ mem'[u] = mem[u]
               /\ refresh'[u] = refresh[u]
    BY <1>1, <2>1, <2>2, <2>3
  <2>4. wgen'[t] = wgen[t] + 1 /\ mem'[t] = refresh[t].pair /\ wgen[t] \in Nat
    BY <1>1, <2>1
  <2>5. login[t].ph = "persist" => login[t].gen <= wgen[t]
        /\ login[t].gen \in Nat
    BY <1>1 DEF WriterInv, Login
  <2> QED BY <2>1, <2>2, <2>3, <2>4, <2>5 DEF WriterInv
<1> QED BY <1>2, <1>3

LEMMA LoginNoWrite ==
  ASSUME TypeOK, NEW t \in Tabs, LoginNext(t), ~LoginReceive(t), NEW u \in Tabs
  PROVE  StartsNoWrite(u)
<1>1. login \in [Tabs -> Login] BY DEF TypeOK
<1>2. CASE \/ LoginSubmit(t) \/ NestLogin(t) \/ LoginFails(t)
           \/ LoginPersistRetry(t)
  <2>1. UNCHANGED <<wgen, mem, refresh>>
    BY <1>2 DEF LoginSubmit, NestLogin, LoginFails, LoginPersistRetry, jar
  <2>2. login'[u].ph = "persist" =>
          /\ login[u].ph = "persist"
          /\ login'[u].gen = login[u].gen /\ login'[u].pair = login[u].pair
    BY <1>1, <1>2 DEF LoginSubmit, NestLogin, LoginFails, LoginPersistRetry,
       Login, NoLogin
  <2> QED BY <2>1, <2>2 DEF StartsNoWrite
<1>3. CASE LoginPersisted(t) \/ LoginPersistFails(t)
  <2>1. refresh' = refresh /\ login'[u] = IF u = t THEN NoLogin ELSE login[u]
    BY <1>1, <1>3 DEF LoginPersisted, LoginPersistFails
  <2>2. wgen' = wgen /\ mem'[u] \in {mem[u], None}
    BY <1>3 DEF LoginPersisted, LoginPersistFails, ClearRealAuthTokens,
       tokens, TypeOK
  <2> QED BY <2>1, <2>2 DEF StartsNoWrite, NoLogin
<1> QED BY <1>2, <1>3 DEF LoginNext

LEMMA RefreshNoWrite ==
  ASSUME TypeOK, NEW t \in Tabs, RefreshNext(t), ~RefreshReceive(t),
         NEW u \in Tabs
  PROVE  StartsNoWrite(u)
<1>1. refresh \in [Tabs -> Refresh] BY DEF TypeOK
<1>2. CASE \/ RouteRotates(t) \/ RouteRefuses(t) \/ RouteFails(t)
           \/ RefreshHangs(t) \/ RefreshPersistRetry(t)
           \/ RefreshHeaders(t) \/ RefreshBodyHangs(t)
  <2>1. UNCHANGED <<wgen, mem, login>>
    BY <1>2 DEF RouteRotates, RouteRefuses, RouteFails, RefreshHangs,
       RefreshPersistRetry, RefreshHeaders, RefreshBodyHangs, tokens
  <2>2. refresh'[u].ph = "persist" =>
          /\ refresh[u].ph = "persist"
          /\ refresh'[u].gen = refresh[u].gen
          /\ refresh'[u].pair = refresh[u].pair
    <3>1. CASE RouteRotates(t)
      BY <1>1, <3>1 DEF RouteRotates, Refresh
    <3>2. CASE RouteRefuses(t) \/ RouteFails(t)
      BY <1>1, <3>2 DEF RouteRefuses, RouteFails, Refresh
    <3>3. CASE RefreshHangs(t)
      BY <1>1, <3>3 DEF RefreshHangs, RefreshAt
    <3>4. CASE RefreshPersistRetry(t)
      BY <1>1, <3>4 DEF RefreshPersistRetry, Refresh
    <3>5. CASE RefreshHeaders(t)
      BY <1>1, <3>5 DEF RefreshHeaders, Refresh
    <3>6. CASE RefreshBodyHangs(t)
      BY <1>1, <3>6 DEF RefreshBodyHangs, Refresh
    <3> QED BY <1>2, <3>1, <3>2, <3>3, <3>4, <3>5, <3>6
  <2> QED BY <2>1, <2>2 DEF StartsNoWrite
<1>3. CASE \/ RefreshGivesUp(t) \/ RefreshPersistFails(t) \/ RefreshMeLost(t)
           \/ SelfWaitTimeout(t) \/ RefreshBodyLost(t)
  BY <1>3, TransientNoWrite
     DEF RefreshGivesUp, RefreshPersistFails, RefreshMeLost, SelfWaitTimeout,
         RefreshBodyLost
<1>4. CASE RefreshDead(t) \/ RefreshMeForbidden(t)
  BY <1>4, SettleNoWrite DEF RefreshDead, RefreshMeForbidden, SettleDead
<1>5. CASE RefreshPersisted(t)
  <2>1. CASE refresh[t].me
    BY <1>5, <2>1, SettleNoWrite DEF RefreshPersisted, SettleWithSession
  <2>2. CASE ~refresh[t].me
    BY <1>1, <1>5, <2>2 DEF RefreshPersisted, Refresh, tokens, StartsNoWrite
  <2> QED BY <2>1, <2>2
<1>6. CASE RefreshAsksMe(t)
  <2>1. CASE mem[t] = None
    BY <1>6, <2>1, SettleNoWrite DEF RefreshAsksMe, SettleDead
  <2>2. CASE mem[t] # None /\ refresh[t].pair \in valid
    BY <1>6, <2>2, SettleNoWrite DEF RefreshAsksMe, SettleWithSession
  <2>3. CASE mem[t] # None /\ refresh[t].pair \notin valid
    BY <1>1, <1>6, <2>3 DEF RefreshAsksMe, Refresh, tokens, StartsNoWrite
  <2> QED BY <2>1, <2>2, <2>3
<1> QED BY <1>2, <1>3, <1>4, <1>5, <1>6 DEF RefreshNext

LEMMA SignOutNoWrite ==
  ASSUME TypeOK, NEW t \in Tabs, SignOutNext(t), NEW u \in Tabs
  PROVE  StartsNoWrite(u)
<1>1. CASE HandlerSignedOut(t) /\ page[t] = "app"
  BY <1>1, ResetNoWrite DEF HandlerSignedOut
<1>2. CASE ~(HandlerSignedOut(t) /\ page[t] = "app")
  <2>1. UNCHANGED <<wgen, login, refresh>>
        /\ (mem' = mem \/ mem' = [mem EXCEPT ![t] = None])
    BY <1>2 DEF SignOutNext, MenuSignOut, MenuSignedOut, HandlerSignedOut,
       ClearTokensAnswered, SignOutStart, SignOutPost, NestSignOut,
       SignOutLost, SignOut401, SignOutErrorRead, SignOutBodyHangs, ClearRealAuthTokens
  <2> QED BY <2>1 DEF StartsNoWrite, TypeOK
<1> QED BY <1>1, <1>2

LEMMA CallNoWrite ==
  ASSUME TypeOK, NEW t \in Tabs, CallNext(t), NEW u \in Tabs
  PROVE  StartsNoWrite(u)
<1>1. UNCHANGED <<wgen, login>>
      /\ (mem' = mem \/ mem' = [mem EXCEPT ![t] = None])
  BY DEF CallNext, StartCall, CallAnswered, CallRefused, CallRotates,
     CallForbidden, CallRetried, CallLost, CallBodyHangs, BootResult,
     ClearRealAuthTokens, tokens
<1>2. refresh' = refresh \/ JoinRefresh(t)
  BY DEF CallNext, StartCall, CallAnswered, CallRefused, CallRotates,
     CallForbidden, CallRetried, CallLost, CallBodyHangs, RotateRealAccessToken
<1> QED BY <1>1, <1>2, JoinNoWrite DEF StartsNoWrite, TypeOK

LEMMA GuardNoWrite ==
  ASSUME TypeOK, NEW t \in Tabs, GuardNext(t), NEW u \in Tabs
  PROVE  StartsNoWrite(u)
<1>1. CASE Reload(t)
  BY <1>1, ResetNoWrite DEF Reload
<1>2. CASE ~Reload(t)
  <2>1. UNCHANGED <<wgen, login, mem>> /\ (refresh' = refresh \/ JoinRefresh(t))
    BY <1>2 DEF GuardNext, RestoreStart, KeepAlive, AccessExpires,
       GuardRedirects, OpenApp, RotateRealAccessToken
  <2> QED BY <2>1, JoinNoWrite DEF StartsNoWrite
<1> QED BY <1>1, <1>2

(* WriterInv is inductive, with the types. *)
THEOREM WriterOwnsItsGeneration == Spec => []WriterInv
<1>1. Init => WriterInv
  BY DEF Init, WriterInv, NoLogin, NoRefresh, RefreshAt
<1>2. TypeOK /\ WriterInv /\ [Next]_vars => WriterInv'
  <2> SUFFICES ASSUME TypeOK, WriterInv, [Next]_vars PROVE WriterInv'
    OBVIOUS
  <2>1. ASSUME NEW t \in Tabs, LoginNext(t) PROVE WriterInv'
    BY <2>1, LoginNoWrite, WritesKeep, NoWriteKeeps
  <2>2. ASSUME NEW t \in Tabs, RefreshNext(t) PROVE WriterInv'
    BY <2>2, RefreshNoWrite, WritesKeep, NoWriteKeeps
  <2>3. ASSUME NEW t \in Tabs, SignOutNext(t) \/ CallNext(t) \/ GuardNext(t)
        PROVE  WriterInv'
    BY <2>3, SignOutNoWrite, CallNoWrite, GuardNoWrite, NoWriteKeeps
  <2>4. ASSUME NEW p \in Pair, GhostRotates(p) PROVE WriterInv'
    BY <2>4 DEF GhostRotates, WriterInv
  <2>5. CASE UNCHANGED vars
    BY <2>5 DEF vars, WriterInv
  <2> QED BY <2>1, <2>2, <2>3, <2>4, <2>5 DEF Next
<1> QED BY <1>1, <1>2, TypeCorrect, PTL DEF Spec

(* A failed set-tokens never erases a pair that another write (a refresh    *)
(* against a sign-in, or the other way) has stored in the meantime.         *)
THEOREM RollbackIsSafe == Spec => RollbackSparesNewerTokens
<1>1. ASSUME TypeOK, WriterInv, NEW t \in Tabs, LoginPersistFails(t)
      PROVE  mem[t] \in {login[t].pair, mem'[t]}
  BY <1>1 DEF LoginPersistFails, WriteNotSuperseded, ClearRealAuthTokens,
     WriterInv, TypeOK, tokens
<1>2. ASSUME TypeOK, WriterInv, NEW t \in Tabs, RefreshPersistFails(t),
             ~BootGivesUp(t)
      PROVE  mem[t] \in {refresh[t].pair, mem'[t]}
  BY <1>2 DEF RefreshPersistFails, SettleTransient, WriteNotSuperseded,
     ClearRealAuthTokens, WriterInv, TypeOK, tokens
<1>3. TypeOK /\ WriterInv =>
        \A t \in Tabs :
          /\ LoginPersistFails(t) => mem[t] \in {login[t].pair, mem'[t]}
          /\ RefreshPersistFails(t) /\ ~BootGivesUp(t)
               => mem[t] \in {refresh[t].pair, mem'[t]}
  BY <1>1, <1>2
<1> QED BY <1>3, TypeCorrect, WriterOwnsItsGeneration, PTL
        DEF RollbackSparesNewerTokens

-----------------------------------------------------------------------------
(***************************************************************************)
(* The working day of a tab that is alone.  Nest honours one pair, the last *)
(* one, and the cookie is that pair except while a refresh has fetched the  *)
(* next one and the tab has not received it; so no refresh is refused, and  *)
(* no 401 of a call is one of the session.                                  *)
(***************************************************************************)
OnePair == valid = IF issued = None THEN {} ELSE {issued}

\* Nothing of a sign-out is under way, and the restore never asks `me': while
\* the boot flag is null the tab has a token only inside its first refresh.
NoSignOutYet(t) ==
  /\ ~handling[t]
  /\ clears[t] = 0
  /\ signout[t]["handler"].ph = "idle"
  /\ call[t][BootCall].ph = "idle"
  /\ restoring[t] \in {"no", "refresh"}
  /\ boot[t] \in {"null", "authenticated"}

\* Before the sign-in is over nothing else happens.
BeforeSession(t) == login[t].ph # "idle" \/ issued = None =>
  /\ page[t] = "outside"
  /\ refresh[t].ph = "idle"
  /\ restoring[t] = "no"
  /\ boot[t] = "null"

OneLogin(t) ==
  /\ login[t].ph = "sent" => issued = None
  /\ login[t].ph \in {"issued", "persist"} => issued # None /\ login[t].pair = issued
  /\ issued = None => ~presence

CookieIsLast(t) ==
  login[t].ph = "idle" /\ issued # None /\ refresh[t].ph # "fresh" => cookie = issued

RefreshHasLast(t) ==
  /\ refresh[t].ph \in {"idle", "sent", "fresh", "body", "persist", "me"}
  /\ refresh[t].ph # "idle" => refresh[t].pair = issued
  /\ refresh[t].ph \in {"persist", "me"} => mem[t] # None

FirstRefresh(t) == boot[t] = "null" =>
  /\ \A r \in Calls : call[t][r].ph = "idle"
  /\ restoring[t] = "no" => refresh[t].ph = "idle"
  /\ restoring[t] = "no" /\ login[t].ph = "idle" => mem[t] = None

DayInv(t) ==
  /\ OnePair
  /\ NoSignOutYet(t)
  /\ BeforeSession(t)
  /\ OneLogin(t)
  /\ CookieIsLast(t)
  /\ RefreshHasLast(t)
  /\ FirstRefresh(t)

HandlerSteps(t) ==
  \/ SignOutStart(t, "handler") \/ SignOutPost(t, "handler")
  \/ NestSignOut(t, "handler") \/ SignOut401(t, "handler")
  \/ SignOutErrorRead(t, "handler") \/ HandlerSignedOut(t)

WorkStep(t) ==
  \/ issued = 0 /\ LoginSubmit(t)
  \/ NestLogin(t) \/ LoginReceive(t) \/ LoginPersisted(t)
  \/ RefreshSteps(t)
  \/ HandlerSteps(t) \/ ClearTokensAnswered(t)
  \/ \E r \in Calls : StartCall(t, r)
  \/ \E r \in AllCalls : CallSteps(t, r)
  \/ RestoreStart(t) \/ KeepAlive(t) \/ AccessExpires(t)
  \/ GuardRedirects(t)
  \/ login[t].ph = "idle" /\ OpenApp(t)

(* A working day is made of steps of the application. *)
LEMMA WorkIsNext == WorkNext => Next
<1> SUFFICES ASSUME NEW t \in Tabs, WorkStep(t) PROVE Next
  BY DEF WorkNext, WorkStep, HandlerSteps
<1>1. CASE LoginSubmit(t) \/ NestLogin(t) \/ LoginReceive(t) \/ LoginPersisted(t)
  BY <1>1 DEF Next, LoginNext
<1>2. CASE RefreshSteps(t)
  BY <1>2 DEF RefreshSteps, Next, RefreshNext
<1>3. CASE HandlerSteps(t) \/ ClearTokensAnswered(t)
  BY <1>3 DEF HandlerSteps, SignOuts, Next, SignOutNext
<1>4. CASE (\E r \in Calls : StartCall(t, r)) \/ \E r \in AllCalls : CallSteps(t, r)
  BY <1>4 DEF CallSteps, Next, CallNext
<1>5. CASE RestoreStart(t) \/ KeepAlive(t) \/ AccessExpires(t) \/ GuardRedirects(t) \/ OpenApp(t)
  BY <1>5 DEF Next, GuardNext
<1> QED BY <1>1, <1>2, <1>3, <1>4, <1>5 DEF WorkStep

(* What a settling refresh does while no sign-out is under way. *)
LEMMA DaySettles ==
  ASSUME TypeOK, NEW t \in Tabs, NEW p \in Pair, NoSignOutYet(t), SettleWithSession(t, p)
  PROVE  /\ refresh'[t].ph = "idle"
         /\ restoring'[t] = "no"
         /\ boot'[t] = "authenticated"
         /\ call'[t][BootCall].ph = "idle"
         /\ UNCHANGED <<handling, signout>>
<1>1. p # None /\ BootCall \in AllCalls
  BY SessionAssumption DEF Pair, None, AllCalls
<1>2. UNCHANGED <<handling, signout>>
  BY <1>1 DEF SettleWithSession, Settle
<1>3. refresh'[t] = NoRefresh /\ boot'[t] = "authenticated"
  BY DEF SettleWithSession, Settle, SignedIn, TypeOK
<1>4. restoring'[t] = "no"
  BY <1>1 DEF SettleWithSession, Settle, NoSignOutYet, TypeOK
<1>5. call'[t][BootCall] = call[t][BootCall]
  BY <1>1 DEF SettleWithSession, Settle, NoSignOutYet, TypeOK
<1> QED BY <1>2, <1>3, <1>4, <1>5 DEF NoRefresh, RefreshAt, NoSignOutYet

LEMMA DayLogin ==
  ASSUME TypeOK, NEW t \in Tabs, DayInv(t),
         \/ issued = 0 /\ LoginSubmit(t)
         \/ NestLogin(t) \/ LoginReceive(t) \/ LoginPersisted(t)
  PROVE  DayInv(t)'
<1> USE DEF DayInv, OnePair, NoSignOutYet, BeforeSession, OneLogin, CookieIsLast,
        RefreshHasLast, FirstRefresh, nest, jar, store, tokens
<1> issued \in Nat /\ None = 0
  BY DEF TypeOK, PairOrNone, None
<1>1. CASE issued = 0 /\ LoginSubmit(t)
  BY <1>1 DEF LoginSubmit, TypeOK, Login
<1>2. CASE NestLogin(t)
  BY <1>2 DEF NestLogin, NestIssue, TypeOK, Login
<1>3. CASE LoginReceive(t)
  BY <1>3 DEF LoginReceive, WriteRealAuthTokens, TypeOK, Login
<1>4. CASE LoginPersisted(t)
  BY <1>4 DEF LoginPersisted, SignedIn, NoLogin, TypeOK, Login
<1> QED BY <1>1, <1>2, <1>3, <1>4

LEMMA DayRefresh ==
  ASSUME TypeOK, NEW t \in Tabs, DayInv(t), RefreshSteps(t)
  PROVE  DayInv(t)'
<1> issued \in Nat /\ None = 0
  BY DEF TypeOK, PairOrNone, None
<1>1. login[t].ph = "idle" /\ issued # None /\ refresh[t].pair = issued /\ issued \in Pair
  <2>1. refresh[t].ph # "idle"
    BY DEF RefreshSteps, RouteRotates, RouteRefuses, RefreshHeaders, RefreshReceive,
      RefreshDead, RefreshGivesUp, RefreshPersisted, RefreshAsksMe, SelfWaitTimeout
  <2>2. login[t].ph = "idle" /\ issued # None /\ refresh[t].pair = issued
    BY <2>1 DEF DayInv, BeforeSession, RefreshHasLast
  <2> QED BY <2>2 DEF TypeOK, PairOrNone, Pair, None
<1>2. CASE RouteRotates(t)
  <2>1. /\ refresh[t].ph = "sent" /\ issued' = issued + 1 /\ valid' = {issued + 1}
        /\ UNCHANGED <<jar, mem, store, page, restoring, login, signout, handling, clears, call>>
    BY <1>2 DEF RouteRotates, NestIssue
  <2>2. refresh'[t].ph = "fresh" /\ refresh'[t].pair = issued + 1
    BY <1>2 DEF RouteRotates, TypeOK, Refresh
  <2> QED BY <1>1, <2>1, <2>2 DEF DayInv, OnePair, NoSignOutYet, BeforeSession, OneLogin,
        CookieIsLast, RefreshHasLast, FirstRefresh, jar, store
<1>3. ~RouteRefuses(t)
  BY <1>1 DEF RouteRefuses, DayInv, OnePair
<1>4. CASE RefreshReceive(t)
  <2>1. /\ UNCHANGED cookie /\ presence' = TRUE /\ refresh'[t].ph = "persist"
        /\ refresh'[t].pair = issued /\ mem'[t] = issued /\ refresh[t].ph = "body"
    BY <1>1, <1>4 DEF RefreshReceive, WriteRealAuthTokens, TypeOK, Refresh
  <2>2. UNCHANGED <<nest, store, page, restoring, login, signout, handling, clears, call>>
    BY <1>4 DEF RefreshReceive, WriteRealAuthTokens
  <2> QED BY <1>1, <2>1, <2>2 DEF DayInv, OnePair, NoSignOutYet, BeforeSession, OneLogin,
        CookieIsLast, RefreshHasLast, FirstRefresh, nest, store
<1>5. ~RefreshDead(t) /\ ~RefreshGivesUp(t) /\ ~SelfWaitTimeout(t)
  BY DEF RefreshDead, RefreshGivesUp, SelfWaitTimeout, DayInv, RefreshHasLast
<1>6. ASSUME SettleWithSession(t, issued), UNCHANGED <<nest, tokens, page, login>>,
             cookie' = issued
      PROVE  DayInv(t)'
  <2>1. /\ refresh'[t].ph = "idle" /\ restoring'[t] = "no" /\ boot'[t] = "authenticated"
        /\ call'[t][BootCall].ph = "idle" /\ UNCHANGED <<handling, signout>>
    BY <1>1, <1>6, DaySettles DEF DayInv
  <2> QED BY <1>1, <1>6, <2>1 DEF DayInv, OnePair, NoSignOutYet, BeforeSession, OneLogin,
        CookieIsLast, RefreshHasLast, FirstRefresh, nest, tokens
<1>7. CASE RefreshPersisted(t)
  <2>1. CASE refresh[t].me
    BY <1>1, <1>6, <1>7, <2>1 DEF RefreshPersisted
  <2>2. CASE ~refresh[t].me
    <3>1. /\ refresh'[t].ph = "me" /\ refresh'[t].pair = issued /\ cookie' = issued
          /\ refresh[t].ph = "persist"
          /\ UNCHANGED <<store, call, restoring, handling, signout, nest, tokens, page, login>>
      BY <1>1, <1>7, <2>2 DEF RefreshPersisted, TypeOK, Refresh
    <3> QED BY <1>1, <3>1 DEF DayInv, OnePair, NoSignOutYet, BeforeSession, OneLogin,
          CookieIsLast, RefreshHasLast, FirstRefresh, nest, store, tokens
  <2> QED BY <2>1, <2>2
<1>8. CASE RefreshAsksMe(t)
  <2>1. mem[t] # None /\ refresh[t].pair \in valid /\ cookie = issued
    BY <1>1, <1>8 DEF RefreshAsksMe, DayInv, RefreshHasLast, OnePair, CookieIsLast
  <2>2. SettleWithSession(t, issued) /\ UNCHANGED <<nest, tokens, page, login, cookie>>
    BY <1>1, <1>8, <2>1 DEF RefreshAsksMe
  <2> QED BY <1>6, <2>1, <2>2
<1>9. CASE RefreshHeaders(t)
  <2>1. /\ cookie' = issued /\ refresh'[t].ph = "body" /\ refresh'[t].pair = issued
        /\ refresh[t].ph = "fresh"
        /\ UNCHANGED <<nest, presence, tokens, store, page, restoring, login, signout,
                       handling, call>>
    BY <1>1, <1>9 DEF RefreshHeaders, TypeOK, Refresh
  <2> QED BY <1>1, <2>1 DEF DayInv, OnePair, NoSignOutYet, BeforeSession, OneLogin,
        CookieIsLast, RefreshHasLast, FirstRefresh, nest, store, tokens
<1> QED BY <1>2, <1>3, <1>4, <1>5, <1>7, <1>8, <1>9 DEF RefreshSteps

LEMMA DayNoSignOut ==
  ASSUME NEW t \in Tabs, DayInv(t)
  PROVE  ~HandlerSteps(t) /\ ~ClearTokensAnswered(t) /\ ~GuardRedirects(t)
<1> USE DEF DayInv, NoSignOutYet
<1>1. ~HandlerSteps(t)
  BY DEF HandlerSteps, SignOutStart, SignOutPost, NestSignOut, SignOut401,
    SignOutErrorRead, HandlerSignedOut
<1>2. ~ClearTokensAnswered(t) /\ ~GuardRedirects(t)
  BY DEF ClearTokensAnswered, GuardRedirects
<1> QED BY <1>1, <1>2

(* A refresh joined or started sends the last pair. *)
LEMMA DayJoins ==
  ASSUME TypeOK, NEW t \in Tabs, DayInv(t), login[t].ph = "idle", issued # None,
         refresh' = refresh \/ JoinRefresh(t),
         boot[t] = "authenticated" \/ (JoinRefresh(t) /\ restoring'[t] = "refresh"),
         restoring' = restoring \/ (JoinRefresh(t) /\ restoring'[t] = "refresh"),
         \/ call' = call
         \/ /\ boot[t] = "authenticated"
            /\ call'[t][BootCall].ph = "idle",
         UNCHANGED <<nest, jar, mem, boot, page, login, signout, handling, clears>>
  PROVE  DayInv(t)'
<1>1. \/ refresh'[t] = refresh[t]
      \/ refresh[t].ph = "idle" /\ refresh'[t] = RefreshAt("sent", cookie)
  BY DEF JoinRefresh, TypeOK
<1>2. /\ refresh'[t].ph \in {"idle", "sent", "fresh", "body", "persist", "me"}
      /\ refresh'[t].ph # "idle" => refresh'[t].pair = issued
      /\ refresh'[t].ph \in {"persist", "me", "fresh"} => refresh'[t].ph = refresh[t].ph
      /\ refresh[t].ph = "fresh" => refresh'[t].ph = "fresh"
  BY <1>1 DEF RefreshAt, DayInv, RefreshHasLast, CookieIsLast
<1>3. JoinRefresh(t) => refresh'[t].ph # "idle"
  BY DEF JoinRefresh, RefreshAt, TypeOK
<1>4. restoring'[t] \in {"no", "refresh"} /\ (restoring'[t] # restoring[t] => restoring'[t] = "refresh")
  BY DEF DayInv, NoSignOutYet
<1>5. RefreshHasLast(t)' /\ CookieIsLast(t)' /\ OnePair' /\ OneLogin(t)' /\ BeforeSession(t)'
  BY <1>2 DEF DayInv, RefreshHasLast, CookieIsLast, OnePair, OneLogin, BeforeSession, nest, jar
<1>6. NoSignOutYet(t)'
  BY <1>4 DEF DayInv, NoSignOutYet
<1>7. FirstRefresh(t)'
  BY <1>1, <1>3, <1>4 DEF DayInv, FirstRefresh
<1> QED BY <1>5, <1>6, <1>7 DEF DayInv

LEMMA DayCalls ==
  ASSUME TypeOK, NEW t \in Tabs, DayInv(t),
         \/ \E r \in Calls : StartCall(t, r)
         \/ \E r \in AllCalls : CallSteps(t, r)
  PROVE  DayInv(t)'
<1>1. PICK r \in Calls : StartCall(t, r) \/ CallSteps(t, r)
  BY DEF CallSteps, CallAnswered, CallRefused, CallRotates, CallForbidden, AllCalls,
    DayInv, NoSignOutYet
<1>2. r # BootCall /\ r \in AllCalls
  BY SessionAssumption DEF AllCalls
<1>3. boot[t] = "authenticated" /\ login[t].ph = "idle" /\ issued # None
  BY <1>1 DEF StartCall, CallSteps, CallAnswered, CallRefused, CallRotates, CallForbidden,
    DayInv, NoSignOutYet, FirstRefresh, BeforeSession
<1>4. call'[t][BootCall] = call[t][BootCall]
  BY <1>1, <1>2, RecordTypes DEF StartCall, CallSteps, CallAnswered, CallRefused, CallRotates,
    CallForbidden, TypeOK
<1>5. UNCHANGED <<nest, jar, mem, boot, page, login, signout, handling, clears, restoring>>
  BY <1>1, <1>2 DEF StartCall, CallSteps, CallAnswered, CallRefused, CallRotates, CallForbidden,
    BootResult, nest, jar, store, tokens
<1>6. refresh' = refresh \/ JoinRefresh(t)
  BY <1>1 DEF StartCall, CallSteps, CallAnswered, CallRefused, CallRotates, CallForbidden,
    RotateRealAccessToken
<1> QED BY <1>3, <1>4, <1>5, <1>6, DayJoins DEF DayInv, NoSignOutYet

LEMMA DayGuard ==
  ASSUME TypeOK, NEW t \in Tabs, DayInv(t),
         \/ RestoreStart(t) \/ KeepAlive(t) \/ AccessExpires(t)
         \/ login[t].ph = "idle" /\ OpenApp(t)
  PROVE  DayInv(t)'
<1>1. CASE RestoreStart(t)
  <2>1. login[t].ph = "idle" /\ issued # None /\ boot[t] = "null" /\ restoring[t] = "no"
    BY <1>1 DEF RestoreStart, DayInv, BeforeSession, NoSignOutYet
  <2>2. mem[t] = None
    BY <2>1 DEF DayInv, FirstRefresh
  <2>3. Access(t) = None
    BY <2>2 DEF Access
  <2>4. /\ JoinRefresh(t) /\ UNCHANGED <<call, nest, jar, mem, page, login, signout, handling, clears>>
        /\ restoring'[t] = "refresh" /\ boot' = [boot EXCEPT ![t] = "null"]
    BY <1>1, <2>3 DEF RestoreStart, TypeOK
  <2>5. boot' = boot
    BY <2>1, <2>4 DEF TypeOK
  <2> QED BY <2>1, <2>4, <2>5, DayJoins
<1>2. CASE KeepAlive(t)
  <2>1. login[t].ph = "idle" /\ issued # None /\ boot[t] = "authenticated"
    BY <1>2 DEF KeepAlive, DayInv, BeforeSession
  <2>2. JoinRefresh(t) /\ UNCHANGED <<call, restoring, nest, jar, mem, boot, page, login, signout, handling, clears>>
    BY <1>2 DEF KeepAlive, RotateRealAccessToken, store
  <2> QED BY <2>1, <2>2, DayJoins
<1>3. CASE AccessExpires(t)
  BY <1>3 DEF AccessExpires, DayInv, OnePair, NoSignOutYet, BeforeSession, OneLogin,
    CookieIsLast, RefreshHasLast, FirstRefresh, nest, jar, store
<1>4. CASE login[t].ph = "idle" /\ OpenApp(t)
  <2>1. presence /\ issued # None
    BY <1>4 DEF OpenApp, DayInv, OneLogin
  <2> QED BY <1>4, <2>1 DEF OpenApp, DayInv, OnePair, NoSignOutYet, BeforeSession, OneLogin,
    CookieIsLast, RefreshHasLast, FirstRefresh, nest, jar, store
<1> QED BY <1>1, <1>2, <1>3, <1>4

LEMMA DayStep ==
  ASSUME TypeOK, NEW t \in Tabs, \A u \in Tabs : u = t, DayInv(t), [WorkNext]_vars
  PROVE  DayInv(t)'
<1>1. CASE UNCHANGED vars
  BY <1>1 DEF vars, DayInv, OnePair, NoSignOutYet, BeforeSession, OneLogin,
    CookieIsLast, RefreshHasLast, FirstRefresh
<1>2. CASE WorkNext
  <2>1. WorkStep(t)
    BY <1>2 DEF WorkNext, WorkStep, HandlerSteps
  <2> QED BY <2>1, DayLogin, DayRefresh, DayNoSignOut, DayCalls, DayGuard DEF WorkStep
<1> QED BY <1>1, <1>2

LEMMA DayBegins ==
  ASSUME Init, NEW t \in Tabs
  PROVE  DayInv(t)
<1>1. /\ OnePair /\ (issued # None => cookie = issued) /\ (issued = None => ~presence)
  BY DEF Init, OnePair, None
<1>2. /\ NoSignOutYet(t) /\ BeforeSession(t) /\ RefreshHasLast(t)
      /\ login[t].ph = "idle"
  BY RecordTypes DEF Init, NoSignOutYet, BeforeSession, RefreshHasLast, NoLogin, NoRefresh, RefreshAt,
    NoSignOut, NoCall
<1>3. FirstRefresh(t)
  BY DEF Init, FirstRefresh, NoRefresh, RefreshAt, NoCall, AllCalls
<1> QED BY <1>1, <1>2, <1>3 DEF DayInv, OneLogin, CookieIsLast

(* A tab that is alone never loses the session of a user who only works, with
   any number of calls and expiries: the shared rotation is enough. *)
THEOREM WorkingSessionIsSafe ==
  ASSUME \A s, u \in Tabs : s = u
  PROVE  WorkSpec => []WorkingSessionSurvives
<1> DEFINE Day == \A t \in Tabs : DayInv(t)
<1>1. WorkSpec => Spec
  <2>1. [WorkNext]_vars => [Next]_vars
    BY WorkIsNext
  <2> QED BY <2>1, PTL DEF WorkSpec, Spec
<1>2. Init => Day
  BY DayBegins
<1>3. TypeOK /\ Day /\ [WorkNext]_vars => Day'
  BY DayStep
<1>4. Day => WorkingSessionSurvives
  BY DEF DayInv, NoSignOutYet, RefreshHasLast, WorkingSessionSurvives
<1> HIDE DEF Day
<1> QED BY <1>1, <1>2, <1>3, <1>4, TypeCorrect, PTL DEF WorkSpec

=============================================================================
