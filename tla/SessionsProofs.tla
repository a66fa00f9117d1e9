---------------------------- MODULE SessionsProofs ----------------------------
(***************************************************************************)
(* That of each sign-in at most one refresh token is good, for any number  *)
(* of accounts, calls, sign-ins, renewals and reloads, calm or not.        *)
(*                                                                         *)
(* Two facts make it inductive: no token is of a sign-in to come, and      *)
(* between the moment the cloud takes a token and the moment it makes the  *)
(* next one, no token of that sign-in is good.                             *)
(* And that, in calm sessions, nothing of one account is shown to another. *)
(***************************************************************************)
EXTENDS Sessions, TLAPS

AnyToken == [at : {"made"}, owner : Accounts, login : Nat, gen : Nat]
MaybeToken == AnyToken \cup {None}
AppState == [token : MaybeToken, refresh : MaybeToken, user : Accounts \cup {Nobody}]
Renewals == [at : {"none", "kept", "failed"}] \cup [at : {"sent", "consumed", "issued"}, with : AnyToken]

SessionsWellTyped ==
  /\ logins \in Nat /\ refreshTokens \subseteq AnyToken /\ signingIn \in MaybeToken
  /\ app \in AppState /\ stored \in AppState /\ renewal \in Renewals

\* No token is of a sign-in to come.
LoginsHappened ==
  /\ \A t \in refreshTokens : t.login <= logins
  /\ \A t \in {signingIn, app.refresh, stored.refresh} : t # None => t.login <= logins
  /\ renewal.at \in {"sent", "consumed", "issued"} => renewal.with.login <= logins

\* A chain whose token was taken has no other.
TakenIsGone ==
  renewal.at = "consumed" => \A t \in refreshTokens : t.login # renewal.with.login

SessionsInv == SessionsWellTyped /\ LoginsHappened /\ TakenIsGone /\ OneChainPerSignIn

-----------------------------------------------------------------------------
LEMMA NoneIsNoToken == None \notin AnyToken
BY DEF None, AnyToken

LEMMA NextPairGood ==
  ASSUME NEW t \in AnyToken
  PROVE  NextPair(t) \in AnyToken /\ NextPair(t).login = t.login
BY DEF NextPair, Token, AnyToken

LEMMA SessionsStart == SessionsInit => SessionsInv
BY DEF SessionsInit, SessionsInv, SessionsWellTyped, LoginsHappened, TakenIsGone, OneChainPerSignIn,
       SignedOut, None, MaybeToken, AppState, Renewals

\* Signing out takes tokens away and puts nothing in their place.
LEMMA SignOutKeeps ==
  ASSUME SessionsInv, SignOut, UNCHANGED <<logins, signingIn, renewal>>
  PROVE  SessionsInv'
<1>1. refreshTokens' \subseteq refreshTokens /\ app' = SignedOut /\ stored' = SignedOut
  BY DEF SignOut
<1>2. SignedOut \in AppState /\ SignedOut.refresh = None
  BY DEF SignedOut, AppState, MaybeToken
<1> QED
  BY <1>1, <1>2 DEF SessionsInv, SessionsWellTyped, LoginsHappened, TakenIsGone, OneChainPerSignIn

LEMMA ExchangeCodeKeeps ==
  ASSUME SessionsInv, NEW account \in Accounts, ExchangeCode(account)
  PROVE  SessionsInv'
<1> DEFINE token == Token(account, logins + 1, 0)
<1>1. logins' = logins + 1 /\ signingIn' = token /\ refreshTokens' = refreshTokens \cup {token}
  BY DEF ExchangeCode
<1>2. UNCHANGED <<app, stored, renewal>>
  BY DEF ExchangeCode
<1>3. token \in AnyToken /\ token.login = logins + 1
  BY DEF Token, AnyToken, SessionsInv, SessionsWellTyped
<1> HIDE DEF token
<1>4. \A t \in refreshTokens : t.login \in Nat /\ t.login <= logins
  BY DEF SessionsInv, SessionsWellTyped, LoginsHappened, AnyToken
<1>5. renewal.at = "consumed" => renewal.with.login <= logins /\ renewal.with.login \in Nat
  BY DEF SessionsInv, SessionsWellTyped, LoginsHappened, Renewals, AnyToken
<1>6. SessionsWellTyped'
  BY <1>1, <1>2, <1>3 DEF SessionsInv, SessionsWellTyped, MaybeToken
<1>7. LoginsHappened'
  <2>1. \A t \in AnyToken : t.login <= logins => t.login <= logins + 1
    BY DEF AnyToken, SessionsInv, SessionsWellTyped
  <2>2. \A t \in {app.refresh, stored.refresh} : t # None => t \in AnyToken
    BY DEF SessionsInv, SessionsWellTyped, AppState, MaybeToken
  <2>3. renewal.at \in {"sent", "consumed", "issued"} => renewal.with \in AnyToken
    BY DEF SessionsInv, SessionsWellTyped, Renewals
  <2>4. refreshTokens \subseteq AnyToken /\ logins \in Nat
    BY DEF SessionsInv, SessionsWellTyped
  <2> QED
    BY <1>1, <1>2, <1>3, <2>1, <2>2, <2>3, <2>4 DEF SessionsInv, LoginsHappened
<1>8. TakenIsGone'
  BY <1>1, <1>2, <1>3, <1>4, <1>5 DEF SessionsInv, SessionsWellTyped, TakenIsGone
<1>9. OneChainPerSignIn'
  BY <1>1, <1>3, <1>4 DEF SessionsInv, SessionsWellTyped, OneChainPerSignIn
<1> QED
  BY <1>6, <1>7, <1>8, <1>9 DEF SessionsInv

LEMMA SignInKeeps ==
  ASSUME SessionsInv, SignIn
  PROVE  SessionsInv'
<1>1. /\ signingIn \in AnyToken /\ signingIn' = None /\ stored' = app'
      /\ app' = [token |-> signingIn, refresh |-> signingIn, user |-> signingIn.owner]
      /\ UNCHANGED <<logins, refreshTokens, renewal>>
  BY DEF SignIn, cloudAuthVars, SessionsInv, SessionsWellTyped, MaybeToken
<1>2. app' \in AppState /\ app'.refresh = signingIn
  BY <1>1 DEF AppState, MaybeToken, AnyToken
<1>3. LoginsHappened'
  BY <1>1, <1>2, NoneIsNoToken DEF SessionsInv, LoginsHappened
<1> QED
  BY <1>1, <1>2, <1>3 DEF SessionsInv, SessionsWellTyped, TakenIsGone, OneChainPerSignIn, MaybeToken

LEMMA CallRefusedKeeps ==
  ASSUME SessionsInv, NEW c \in AppCalls, CallRefused(c)
  PROVE  SessionsInv'
<1>1. UNCHANGED <<logins, signingIn>>
  BY DEF CallRefused
<1>2. CASE UNCHANGED <<refreshTokens, app, stored, renewal>>
  BY <1>1, <1>2 DEF SessionsInv, SessionsWellTyped, LoginsHappened, TakenIsGone, OneChainPerSignIn
<1>3. CASE SignOut /\ UNCHANGED renewal
  BY <1>1, <1>3, SignOutKeeps
<1>4. CASE /\ app.refresh # None /\ renewal' = [at |-> "sent", with |-> app.refresh]
           /\ UNCHANGED <<refreshTokens, app, stored>>
  <2>1. app.refresh \in AnyToken /\ app.refresh.login <= logins
    BY <1>4 DEF SessionsInv, SessionsWellTyped, LoginsHappened, AppState, MaybeToken
  <2>2. renewal' \in Renewals /\ renewal'.at = "sent" /\ renewal'.with = app.refresh
    BY <1>4, <2>1 DEF Renewals
  <2> QED
    BY <1>1, <1>4, <2>1, <2>2 DEF SessionsInv, SessionsWellTyped, LoginsHappened, TakenIsGone, OneChainPerSignIn
<1> QED
  BY <1>2, <1>3, <1>4 DEF CallRefused

\* Whichever way the promise is settled, nobody's token is taken.
LEMMA SettledKeeps ==
  ASSUME SessionsInv, renewal' \in [at : {"none", "kept", "failed"}],
         refreshTokens' \subseteq refreshTokens, UNCHANGED <<logins, signingIn, app, stored>>
  PROVE  SessionsInv'
<1>1. renewal' \in Renewals /\ renewal'.at \in {"none", "kept", "failed"}
  BY DEF Renewals
<1> QED
  BY <1>1 DEF SessionsInv, SessionsWellTyped, LoginsHappened, TakenIsGone, OneChainPerSignIn

LEMMA ConsumeKeeps ==
  ASSUME SessionsInv, Consume
  PROVE  SessionsInv'
<1>1. /\ renewal.at = "sent" /\ refreshTokens' = refreshTokens \ {renewal.with}
      /\ UNCHANGED <<logins, app, stored, signingIn>>
  BY DEF Consume, Consumed
<1>2. renewal.with \in AnyToken /\ renewal = [at |-> "sent", with |-> renewal.with]
  BY <1>1 DEF SessionsInv, SessionsWellTyped, Renewals
<1>3. CASE renewal.with \in refreshTokens
  <2>1. renewal' = [at |-> "consumed", with |-> renewal.with]
    BY <1>2, <1>3 DEF Consume
  <2>2. renewal' \in Renewals /\ renewal'.at = "consumed" /\ renewal'.with = renewal.with
    BY <1>2, <2>1 DEF Renewals
  <2>3. \A t \in refreshTokens' : t.login # renewal.with.login
    BY <1>1, <1>3 DEF SessionsInv, OneChainPerSignIn
  <2> QED
    BY <1>1, <2>2, <2>3 DEF SessionsInv, SessionsWellTyped, LoginsHappened, TakenIsGone, OneChainPerSignIn
<1>4. CASE renewal.with \notin refreshTokens
  BY <1>1, <1>4, SettledKeeps DEF Consume, Fail, Settle
<1> QED
  BY <1>3, <1>4

\* The next token of a chain may be made once the one before is taken.
LEMMA NextPairKeeps ==
  ASSUME SessionsInv, renewal.at = "consumed"
  PROVE  LET more == refreshTokens \cup {NextPair(renewal.with)}
         IN /\ more \subseteq AnyToken /\ \A t \in more : t.login <= logins
            /\ \A t, u \in more : t.login = u.login => t = u
<1>1. renewal.with \in AnyToken /\ renewal.with.login <= logins
  BY DEF SessionsInv, SessionsWellTyped, Renewals, LoginsHappened
<1>2. NextPair(renewal.with) \in AnyToken /\ NextPair(renewal.with).login = renewal.with.login
  BY <1>1, NextPairGood
<1> QED
  BY <1>1, <1>2 DEF SessionsInv, SessionsWellTyped, LoginsHappened, TakenIsGone, OneChainPerSignIn

LEMMA IssueKeeps ==
  ASSUME SessionsInv, Issue
  PROVE  SessionsInv'
<1>1. renewal.at = "consumed" /\ UNCHANGED <<logins, app, stored, signingIn>>
  BY DEF Issue
<1>2. CASE renewal.with.owner \in disabled
  BY <1>1, <1>2, SettledKeeps DEF Issue, Fail, Settle
<1>3. CASE renewal.with.owner \notin disabled
  <2>1. renewal.with \in AnyToken /\ renewal = [at |-> "consumed", with |-> renewal.with]
    BY <1>1 DEF SessionsInv, SessionsWellTyped, Renewals
  <2>2. renewal' = [at |-> "issued", with |-> renewal.with]
    BY <1>3, <2>1 DEF Issue
  <2>3. renewal' \in Renewals /\ renewal'.at = "issued" /\ renewal'.with = renewal.with
    BY <2>1, <2>2 DEF Renewals
  <2>4. refreshTokens' = refreshTokens \cup {NextPair(renewal.with)}
    BY <1>3 DEF Issue
  <2> QED
    BY <1>1, <2>3, <2>4, NextPairKeeps
    DEF SessionsInv, SessionsWellTyped, LoginsHappened, TakenIsGone, OneChainPerSignIn
<1> QED
  BY <1>2, <1>3

LEMMA RenewedKeeps ==
  ASSUME SessionsInv, Renewed
  PROVE  SessionsInv'
<1>1. renewal.at = "issued" /\ UNCHANGED <<logins, refreshTokens, signingIn>>
  BY DEF Renewed, cloudAuthVars
<1>2. CASE Fail /\ UNCHANGED <<app, stored>>
  BY <1>1, <1>2, SettledKeeps DEF Fail, Settle
<1>3. CASE ~(Fail /\ UNCHANGED <<app, stored>>)
  <2> DEFINE token == NextPair(renewal.with)
  <2>1. renewal.with \in AnyToken /\ renewal.with.login <= logins
    BY <1>1 DEF SessionsInv, SessionsWellTyped, Renewals, LoginsHappened
  <2>2. token \in AnyToken /\ token.login <= logins
    BY <2>1, NextPairGood
  <2>3. /\ renewal' = [at |-> "kept"]
        /\ app' = [app EXCEPT !.token = token, !.refresh = token]
        /\ stored' = [stored EXCEPT !.token = token, !.refresh = token]
    BY <1>3 DEF Renewed, Settle
  <2> HIDE DEF token
  <2>4. /\ app' \in AppState /\ app'.refresh = token
        /\ stored' \in AppState /\ stored'.refresh = token
    BY <2>2, <2>3 DEF SessionsInv, SessionsWellTyped, AppState, MaybeToken
  <2>5. renewal' \in Renewals /\ renewal'.at = "kept"
    BY <2>3 DEF Renewals
  <2> QED
    BY <1>1, <2>2, <2>4, <2>5
    DEF SessionsInv, SessionsWellTyped, LoginsHappened, TakenIsGone, OneChainPerSignIn
<1> QED
  BY <1>2, <1>3

LEMMA ReloadKeeps ==
  ASSUME SessionsInv, Reload
  PROVE  SessionsInv'
<1>1. renewal' = None /\ signingIn' = None /\ UNCHANGED <<logins, stored>>
  BY DEF Reload
<1>2. app' \in AppState /\ app'.refresh = stored.refresh
  BY DEF Reload, SessionsInv, SessionsWellTyped, AppState, MaybeToken
<1>3. renewal' \in Renewals /\ renewal'.at = "none"
  BY <1>1 DEF None, Renewals
<1>4. \/ refreshTokens' \subseteq refreshTokens
      \/ renewal.at = "consumed" /\ refreshTokens' = refreshTokens \cup {NextPair(renewal.with)}
  <2>1. renewal.at = "sent" => refreshTokens' \in {refreshTokens, refreshTokens \ {renewal.with}}
    BY DEF Reload
  <2>2. renewal.at = "consumed" => refreshTokens' \in {refreshTokens, refreshTokens \cup {NextPair(renewal.with)}}
    BY DEF Reload
  <2>3. renewal.at \notin {"sent", "consumed"} => refreshTokens' = refreshTokens
    BY DEF Reload
  <2> QED
    BY <2>1, <2>2, <2>3
<1>5. /\ refreshTokens' \subseteq AnyToken /\ \A t \in refreshTokens' : t.login <= logins
      /\ OneChainPerSignIn'
  BY <1>4, NextPairKeeps DEF SessionsInv, SessionsWellTyped, LoginsHappened, OneChainPerSignIn
<1> QED
  BY <1>1, <1>2, <1>3, <1>5 DEF SessionsInv, SessionsWellTyped, LoginsHappened, TakenIsGone, MaybeToken

LEMMA SessionsSteps == SessionsInv /\ [SessionsNext]_sessionVars => SessionsInv'
<1> SUFFICES ASSUME SessionsInv, [SessionsNext]_sessionVars PROVE SessionsInv'
  OBVIOUS
<1> DEFINE Elsewhere == UNCHANGED <<logins, refreshTokens, signingIn, app, stored, renewal>>
<1>1. Elsewhere => SessionsInv'
  BY DEF SessionsInv, SessionsWellTyped, LoginsHappened, TakenIsGone, OneChainPerSignIn
<1>2. ASSUME NEW account \in Accounts, SwitchAccount(account) PROVE Elsewhere
  BY <1>2 DEF SwitchAccount, appVars
<1>3. ASSUME NEW c \in AppCalls, SendCall(c) \/ CallAnswered(c) PROVE Elsewhere
  BY <1>3 DEF SendCall, CallAnswered, cloudAuthVars
<1>4. ASSUME NEW c \in AppCalls, CallResumes(c) PROVE SessionsInv'
  <2>1. UNCHANGED <<logins, signingIn, renewal>>
    BY <1>4 DEF CallResumes
  <2>2. SignOut \/ Elsewhere
    BY <1>4, <2>1 DEF CallResumes
  <2> QED
    BY <1>1, <2>1, <2>2, SignOutKeeps
<1>5. CASE SignOutClicked
  BY <1>5, SignOutKeeps DEF SignOutClicked
<1>6. CASE ForgetRenewal
  BY <1>6, SettledKeeps DEF ForgetRenewal, PromiseForgotten, None, cloudAuthVars
<1>7. CASE ActiveUser \/ Welcome \/ TriggerSync \/ PassAsks \/ PassStores
  BY <1>1, <1>7 DEF ActiveUser, Welcome, TriggerSync, PassAsks, PassStores, cloudAuthVars, appVars
<1>8. CASE Lapse \/ UNCHANGED sessionVars
  BY <1>1, <1>8 DEF Lapse, sessionVars, cloudAuthVars, appVars
<1> QED
  BY <1>1, <1>2, <1>3, <1>4, <1>5, <1>6, <1>7, <1>8, ExchangeCodeKeeps, SignInKeeps, CallRefusedKeeps,
     ConsumeKeeps, IssueKeeps, RenewedKeeps, ReloadKeeps DEF SessionsNext

\* However often answers are lost, the app is reloaded, calls renew at the same
\* time and accounts change, of each sign-in at most one refresh token is good
\* (routes/auth.py, consume_refresh_token).
THEOREM EachSignInHasOneChain == SessionsSpec => []OneChainPerSignIn
<1>1. SessionsInv => OneChainPerSignIn
  BY DEF SessionsInv
<1> QED
  BY <1>1, SessionsStart, SessionsSteps, PTL DEF SessionsSpec

-----------------------------------------------------------------------------
(* What is shown, in calm sessions.  The account the device works for is   *)
(* the one the pending effect names, or else the one active-user was last  *)
(* called for; everything that can still bring records in is of it.        *)

Effects == {None} \cup [at : {"active-user", "fetch"}, user : Accounts]
Passes == [at : {"none", "asks"}] \cup [at : {"stores"}, of : Accounts]

CacheWellTyped ==
  /\ welcome \in Effects /\ syncPass \in Passes
  /\ activeUser \in Accounts \cup {Nobody} /\ shownOf \subseteq Accounts

Whose == IF welcome # None THEN welcome.user ELSE activeUser
Busy == welcome # None \/ syncPass # None

\* The tokens in the app, and those a renewal will bring, are the user's.
TokensOf(user) ==
  /\ app.token # None => app.token.owner = user
  /\ stored.token # None => stored.token.owner = user
  /\ app.refresh # None => app.refresh.owner = user
  /\ renewal.at \in {"sent", "consumed", "issued"} => renewal.with.owner = user

CacheIsTheUsers == cacheOf \subseteq {activeUser} \ {Nobody}
StoredIsTheApp == stored.user = app.user /\ stored.refresh = app.refresh
\* While somebody is signed in the tokens are theirs, and so is the device.
TokensAreTheUsers ==
  app.user # Nobody => TokensOf(app.user) /\ Whose = app.user /\ signingIn = None
\* While something goes on, it is for one account, though it may have left.
WorkIsTheUsers ==
  Busy => signingIn = None /\ TokensOf(Whose) /\ app.user \in {Nobody, Whose}
EffectsInOrder ==
  /\ welcome.at = "fetch" => activeUser = welcome.user
  /\ syncPass # None => activeUser = Whose
  /\ syncPass.at = "stores" => syncPass.of = activeUser

CalmInv ==
  /\ CacheWellTyped /\ CacheIsTheUsers /\ StoredIsTheApp /\ TokensAreTheUsers
  /\ WorkIsTheUsers /\ EffectsInOrder /\ ShownIsTheUsers

LEMMA CalmStart == SessionsInit => CalmInv
BY SessionsAssumption DEF SessionsInit, CalmInv, CacheWellTyped, CacheIsTheUsers, StoredIsTheApp, TokensAreTheUsers,
  WorkIsTheUsers, EffectsInOrder, ShownIsTheUsers, Effects, Passes, SignedOut, None, Busy

\* An effect is one of three things.
LEMMA EffectShapes ==
  ASSUME CacheWellTyped
  PROVE  /\ welcome.at \in {"active-user", "fetch"} <=> welcome # None
         /\ welcome # None => welcome.user \in Accounts /\ welcome = [at |-> welcome.at, user |-> welcome.user]
         /\ syncPass.at \in {"asks", "stores"} <=> syncPass # None
         /\ syncPass.at = "stores" => syncPass.of \in Accounts
BY DEF CacheWellTyped, Effects, Passes, None

\* Tokens do not change hands when they are only taken away.
LEMMA SignOutStaysCalm ==
  ASSUME SessionsInv, CalmInv, SignOut, UNCHANGED <<signingIn, renewal, welcome, cacheOf, activeUser, syncPass>>
  PROVE  CalmInv'
<1>1. app' = SignedOut /\ stored' = SignedOut /\ shownOf' = {}
  BY DEF SignOut
<1>2. /\ SignedOut.user = Nobody /\ SignedOut.token = None /\ SignedOut.refresh = None
  BY DEF SignedOut
<1>3. Whose' = Whose /\ Busy' = Busy
  BY DEF Whose, Busy
<1>4. WorkIsTheUsers'
  BY <1>1, <1>2, <1>3 DEF CalmInv, WorkIsTheUsers, TokensOf
<1> QED
  BY <1>1, <1>2, <1>3, <1>4 DEF CalmInv, CacheWellTyped, CacheIsTheUsers, StoredIsTheApp, TokensAreTheUsers,
     EffectsInOrder, ShownIsTheUsers

\* The tokens stay what they are, or are of the same account.
LEMMA WorkGoesOn ==
  ASSUME CalmInv, UNCHANGED <<app, stored, signingIn, renewal, welcome, activeUser>>,
         CacheWellTyped', CacheIsTheUsers', ShownIsTheUsers', EffectsInOrder',
         syncPass' # None => Busy \/ app.user # Nobody
  PROVE  CalmInv'
<1>1. Whose' = Whose /\ \A user : TokensOf(user)' = TokensOf(user)
  BY DEF Whose, TokensOf
<1>2. StoredIsTheApp' /\ TokensAreTheUsers'
  BY <1>1 DEF CalmInv, StoredIsTheApp, TokensAreTheUsers
<1>3. WorkIsTheUsers'
  BY <1>1 DEF CalmInv, WorkIsTheUsers, TokensAreTheUsers, Busy
<1> QED
  BY <1>2, <1>3 DEF CalmInv

LEMMA ExchangeCodeStaysCalm ==
  ASSUME Calm, SessionsInv, CalmInv, NEW account \in Accounts, ExchangeCode(account)
  PROVE  CalmInv'
<1>1. /\ app.user = Nobody /\ syncPass = None /\ welcome = None
      /\ UNCHANGED <<app, stored, renewal, welcome, cacheOf, shownOf, activeUser, syncPass>>
  BY DEF ExchangeCode, cacheVars
<1>2. Whose' = Whose /\ ~Busy'
  BY <1>1 DEF Whose, Busy
<1> QED
  BY <1>1, <1>2 DEF CalmInv, CacheWellTyped, CacheIsTheUsers, StoredIsTheApp, TokensAreTheUsers,
     WorkIsTheUsers, EffectsInOrder, ShownIsTheUsers

LEMMA SignInStaysCalm ==
  ASSUME Calm, SessionsInv, CalmInv, SignIn
  PROVE  CalmInv'
<1>0. PICK user : user = signingIn.owner
  OBVIOUS
<1>1. signingIn \in AnyToken /\ user \in Accounts /\ signingIn # None
  BY <1>0 DEF SignIn, SessionsInv, SessionsWellTyped, MaybeToken, AnyToken
<1>2. /\ app' = [token |-> signingIn, refresh |-> signingIn, user |-> user] /\ stored' = app'
      /\ welcome' = [at |-> "active-user", user |-> user] /\ signingIn' = None
      /\ renewal.at \in {"none", "kept"}
      /\ UNCHANGED <<renewal, cacheOf, shownOf, activeUser, syncPass>>
  BY <1>0 DEF SignIn
<1>3. app.user = Nobody /\ ~Busy
  BY <1>1 DEF CalmInv, TokensAreTheUsers, WorkIsTheUsers
<1>4. shownOf = {} /\ syncPass = None
  BY <1>3, SessionsAssumption DEF CalmInv, CacheWellTyped, ShownIsTheUsers, Busy
<1>5. welcome' \in Effects /\ welcome' # None /\ welcome'.at = "active-user" /\ welcome'.user = user
  BY <1>1, <1>2 DEF Effects, None
<1>6. Whose' = user
  BY <1>5 DEF Whose
<1>7. app'.user = user /\ stored'.user = user /\ app'.refresh = signingIn /\ stored'.refresh = signingIn
      /\ app'.token = signingIn /\ stored'.token = signingIn
  BY <1>2
<1>8. TokensOf(user)'
  BY <1>0, <1>2, <1>7 DEF TokensOf
<1>9. CacheWellTyped' /\ CacheIsTheUsers' /\ StoredIsTheApp' /\ ShownIsTheUsers'
  BY <1>2, <1>4, <1>5, <1>7 DEF CalmInv, CacheWellTyped, CacheIsTheUsers, StoredIsTheApp, ShownIsTheUsers
<1>10. EffectsInOrder'
  BY <1>2, <1>4, <1>5 DEF EffectsInOrder, None
<1>11. TokensAreTheUsers' /\ WorkIsTheUsers'
  BY <1>2, <1>6, <1>7, <1>8 DEF TokensAreTheUsers, WorkIsTheUsers
<1> QED
  BY <1>9, <1>10, <1>11 DEF CalmInv

\* A call that starts a renewal does so with the app's own token.
LEMMA CallRefusedStaysCalm ==
  ASSUME SessionsInv, CalmInv, NEW c \in AppCalls, CallRefused(c)
  PROVE  CalmInv'
<1>1. UNCHANGED <<signingIn, welcome, cacheOf, activeUser, syncPass>>
  BY DEF CallRefused
<1>2. CASE SignOut /\ UNCHANGED renewal
  BY <1>1, <1>2, SignOutStaysCalm
<1>3. CASE UNCHANGED <<app, stored, shownOf>> /\ renewal' \in {renewal, [at |-> "sent", with |-> app.refresh]} /\ (renewal' # renewal => app.refresh # None)
  <2>1. ASSUME NEW user, TokensOf(user) PROVE TokensOf(user)'
    BY <1>3, <2>1 DEF TokensOf
  <2>2. Whose' = Whose /\ Busy' = Busy
    BY <1>1 DEF Whose, Busy
  <2>3. TokensAreTheUsers' /\ WorkIsTheUsers'
    BY <1>1, <1>3, <2>1, <2>2 DEF CalmInv, TokensAreTheUsers, WorkIsTheUsers
  <2> QED
    BY <1>1, <1>3, <2>2, <2>3 DEF CalmInv, CacheWellTyped, CacheIsTheUsers, StoredIsTheApp,
       EffectsInOrder, ShownIsTheUsers
<1> QED
  BY <1>2, <1>3 DEF CallRefused

\* The cloud takes a token and makes the next for the same account; a promise
\* that is settled brings nothing more.
LEMMA RenewalStaysCalm ==
  ASSUME SessionsInv, CalmInv, UNCHANGED <<app, stored, signingIn, welcome, cacheOf, shownOf, activeUser, syncPass>>,
         renewal'.at \in {"sent", "consumed", "issued"}
           => renewal'.with = renewal.with /\ renewal.at \in {"sent", "consumed", "issued"}
  PROVE  CalmInv'
<1>1. ASSUME NEW user, TokensOf(user) PROVE TokensOf(user)'
  BY <1>1 DEF TokensOf
<1>2. Whose' = Whose /\ Busy' = Busy
  BY DEF Whose, Busy
<1>3. TokensAreTheUsers' /\ WorkIsTheUsers'
  BY <1>1, <1>2 DEF CalmInv, TokensAreTheUsers, WorkIsTheUsers
<1> QED
  BY <1>2, <1>3 DEF CalmInv, CacheWellTyped, CacheIsTheUsers, StoredIsTheApp, EffectsInOrder, ShownIsTheUsers

LEMMA ConsumeIssueStayCalm ==
  ASSUME SessionsInv, CalmInv, Consume \/ Issue
  PROVE  CalmInv'
<1>1. UNCHANGED <<app, stored, signingIn, welcome, cacheOf, shownOf, activeUser, syncPass>>
  BY DEF Consume, Issue, cacheVars
<1>2. renewal.at \in {"sent", "consumed"} /\ renewal = [at |-> renewal.at, with |-> renewal.with]
  BY DEF Consume, Issue, SessionsInv, SessionsWellTyped, Renewals
<1>3. \/ renewal' = [at |-> "failed"]
      \/ renewal' = [renewal EXCEPT !.at = "consumed"]
      \/ renewal' = [renewal EXCEPT !.at = "issued"]
  BY DEF Consume, Issue, Fail, Settle
<1>4. renewal'.at \in {"sent", "consumed", "issued"} => renewal'.with = renewal.with
  BY <1>2, <1>3
<1> QED
  BY <1>1, <1>2, <1>4, RenewalStaysCalm

\* The answer is of the account that asked, who may have left but nobody else came.
LEMMA RenewedStaysCalm ==
  ASSUME SessionsInv, CalmInv, Renewed
  PROVE  CalmInv'
<1>1. renewal.at = "issued" /\ UNCHANGED <<signingIn, cacheOf, shownOf, activeUser, syncPass>>
  BY DEF Renewed
<1>2. CASE Fail /\ UNCHANGED <<app, stored, welcome>>
  <2>1. renewal'.at = "failed"
    BY <1>2 DEF Fail, Settle
  <2> QED
    BY <1>1, <1>2, <2>1, RenewalStaysCalm
<1>3. CASE ~(Fail /\ UNCHANGED <<app, stored, welcome>>)
  <2> DEFINE token == NextPair(renewal.with)
  <2>1. renewal.with \in AnyToken
    BY <1>1 DEF SessionsInv, SessionsWellTyped, Renewals
  <2>2. token.owner = renewal.with.owner
    BY DEF NextPair, Token
  <2>3. /\ renewal' = [at |-> "kept"]
        /\ app' = [app EXCEPT !.token = token, !.refresh = token]
        /\ stored' = [stored EXCEPT !.token = token, !.refresh = token]
        /\ welcome' = IF app.user = Nobody THEN welcome ELSE [at |-> "active-user", user |-> app.user]
    BY <1>3 DEF Renewed, Settle
  <2> HIDE DEF token
  <2>4. /\ app'.token = token /\ app'.refresh = token /\ app'.user = app.user
        /\ stored'.token = token /\ stored'.refresh = token /\ stored'.user = stored.user
    BY <2>3 DEF SessionsInv, SessionsWellTyped, AppState
  <2>5. ASSUME NEW user, TokensOf(user) PROVE TokensOf(user)'
    BY <1>1, <2>2, <2>3, <2>4, <2>5 DEF TokensOf
  <2>6. /\ app.user = Nobody => welcome' = welcome
        /\ app.user # Nobody => welcome' # None /\ welcome'.at = "active-user" /\ welcome'.user = app.user
                                /\ welcome' \in Effects
    BY <2>3 DEF Effects, None, SessionsInv, SessionsWellTyped, AppState
  <2>7. CASE app.user = Nobody
    <3>1. Whose' = Whose /\ Busy' = Busy
      BY <1>1, <2>6, <2>7 DEF Whose, Busy
    <3>2. WorkIsTheUsers' /\ TokensAreTheUsers' /\ StoredIsTheApp'
      BY <1>1, <2>4, <2>5, <2>7, <3>1 DEF CalmInv, WorkIsTheUsers, TokensAreTheUsers, StoredIsTheApp
    <3> QED
      BY <1>1, <2>4, <2>6, <2>7, <3>1, <3>2 DEF CalmInv, CacheWellTyped, CacheIsTheUsers, EffectsInOrder, ShownIsTheUsers
  <2>8. CASE app.user # Nobody
    <3>1. PICK user : user = app.user
      OBVIOUS
    <3>2. Whose' = user /\ Whose = user /\ TokensOf(user) /\ signingIn = None
      BY <2>6, <2>8, <3>1 DEF Whose, CalmInv, TokensAreTheUsers
    <3>3. TokensOf(user)' /\ app'.user = user
      BY <2>4, <2>5, <3>1, <3>2
    <3>4. WorkIsTheUsers' /\ TokensAreTheUsers' /\ StoredIsTheApp'
      BY <1>1, <2>4, <3>2, <3>3 DEF CalmInv, WorkIsTheUsers, TokensAreTheUsers, StoredIsTheApp
    <3>5. EffectsInOrder'
      BY <1>1, <2>6, <2>8, <3>1, <3>2 DEF CalmInv, EffectsInOrder
    <3> QED
      BY <1>1, <2>4, <2>6, <2>8, <3>4, <3>5 DEF CalmInv, CacheWellTyped, CacheIsTheUsers, ShownIsTheUsers
  <2> QED
    BY <2>7, <2>8
<1> QED
  BY <1>2, <1>3

\* After active-user the cache is the user's or empty.
LEMMA ActiveUserStaysCalm ==
  ASSUME Calm, CalmInv, ActiveUser
  PROVE  CalmInv'
<1>1. /\ welcome.at = "active-user" /\ welcome' = [welcome EXCEPT !.at = "fetch"]
      /\ activeUser' = welcome.user /\ cacheOf' = CacheFor(welcome.user)
      /\ UNCHANGED <<app, stored, signingIn, renewal, shownOf, syncPass>>
  BY DEF ActiveUser, appVars
<1>2. welcome # None /\ welcome.user \in Accounts /\ welcome = [at |-> "active-user", user |-> welcome.user]
  BY <1>1, EffectShapes DEF CalmInv
<1>3. welcome' = [at |-> "fetch", user |-> welcome.user]
  BY <1>1, <1>2
<1>4. welcome' \in Effects /\ welcome' # None /\ welcome'.at = "fetch" /\ welcome'.user = welcome.user
  BY <1>2, <1>3 DEF Effects, None
<1>5. Whose = welcome.user /\ Whose' = welcome.user /\ Busy /\ Busy'
  BY <1>2, <1>4 DEF Whose, Busy
<1>6. \A user : TokensOf(user)' = TokensOf(user)
  BY <1>1 DEF TokensOf
<1>7. CacheIsTheUsers'
  BY <1>1, <1>2, SessionsAssumption DEF CacheFor, CalmInv, CacheIsTheUsers
<1>8. WorkIsTheUsers' /\ TokensAreTheUsers' /\ StoredIsTheApp'
  BY <1>1, <1>5, <1>6 DEF CalmInv, WorkIsTheUsers, TokensAreTheUsers, StoredIsTheApp
<1>9. EffectsInOrder'
  BY <1>1, <1>4, <1>5, EffectShapes DEF CalmInv, EffectsInOrder
<1> QED
  BY <1>1, <1>2, <1>4, <1>7, <1>8, <1>9 DEF CalmInv, CacheWellTyped, ShownIsTheUsers

\* What is fetched is the cache, which is the user's by now.
LEMMA WelcomeStaysCalm ==
  ASSUME CalmInv, Welcome
  PROVE  CalmInv'
<1>1. /\ welcome.at = "fetch" /\ welcome' = None /\ shownOf' = IF app.user = Nobody THEN {} ELSE cacheOf
      /\ syncPass' = (IF syncPass = None THEN [at |-> "asks"] ELSE syncPass)
      /\ UNCHANGED <<app, stored, signingIn, renewal, cacheOf, activeUser>>
  BY DEF Welcome, appVars
<1>2. welcome # None /\ welcome.user \in Accounts /\ activeUser = welcome.user
  BY <1>1, EffectShapes DEF CalmInv, EffectsInOrder
<1>3. Busy /\ Whose = activeUser /\ Whose' = activeUser
  BY <1>1, <1>2 DEF Busy, Whose
<1>4. \A user : TokensOf(user)' = TokensOf(user)
  BY <1>1 DEF TokensOf
<1>5. syncPass' \in Passes /\ (syncPass'.at = "stores" => syncPass' = syncPass)
  BY <1>1 DEF CalmInv, CacheWellTyped, Passes
<1>6. CacheWellTyped' /\ CacheIsTheUsers' /\ ShownIsTheUsers'
  BY <1>1, <1>2, <1>3, <1>5 DEF CalmInv, CacheWellTyped, CacheIsTheUsers, ShownIsTheUsers, TokensAreTheUsers, Effects
<1>7. WorkIsTheUsers' /\ TokensAreTheUsers' /\ StoredIsTheApp'
  BY <1>1, <1>3, <1>4 DEF CalmInv, WorkIsTheUsers, TokensAreTheUsers, StoredIsTheApp
<1>8. EffectsInOrder'
  BY <1>1, <1>3, <1>5 DEF CalmInv, EffectsInOrder, None
<1> QED
  BY <1>6, <1>7, <1>8 DEF CalmInv

\* The interval asks for the user who is signed in, a pass with their token.
LEMMA PassStaysCalm ==
  ASSUME SessionsInv, CalmInv, TriggerSync \/ PassAsks \/ PassStores
  PROVE  CalmInv'
<1>1. UNCHANGED <<app, stored, signingIn, renewal, welcome, activeUser>>
  BY DEF TriggerSync, PassAsks, PassStores, appVars
<1>2. Whose' = Whose
  BY <1>1 DEF Whose
<1>3. CASE TriggerSync
  <2>1. app.user # Nobody /\ welcome = None /\ syncPass' = [at |-> "asks"] /\ UNCHANGED <<cacheOf, shownOf>>
    BY <1>3 DEF TriggerSync
  <2>2. syncPass' \in Passes /\ syncPass'.at = "asks" /\ activeUser = Whose
    BY <2>1 DEF Passes, Whose
  <2> QED
    BY <1>1, <1>2, <2>1, <2>2, WorkGoesOn DEF CalmInv, CacheWellTyped, CacheIsTheUsers, ShownIsTheUsers, EffectsInOrder
<1>4. CASE PassAsks
  <2>1. /\ syncPass.at = "asks" /\ UNCHANGED <<cacheOf, shownOf>>
        /\ syncPass' = IF app.token # None /\ app.token \notin lapsed /\ app.token.owner \notin disabled
                         THEN [at |-> "stores", of |-> app.token.owner] ELSE None
    BY <1>4 DEF PassAsks
  <2>2. Busy /\ activeUser = Whose
    BY <2>1, EffectShapes DEF CalmInv, Busy, EffectsInOrder
  <2>3. CASE syncPass' = None
    BY <1>1, <1>2, <2>1, <2>2, <2>3, WorkGoesOn
    DEF CalmInv, CacheWellTyped, CacheIsTheUsers, ShownIsTheUsers, EffectsInOrder, Passes, None
  <2>4. CASE syncPass' # None
    <3>1. app.token # None /\ syncPass' = [at |-> "stores", of |-> app.token.owner]
      BY <2>1, <2>4
    <3>2. app.token \in AnyToken /\ app.token.owner = activeUser
      BY <2>2, <3>1 DEF CalmInv, WorkIsTheUsers, TokensOf, SessionsInv, SessionsWellTyped, AppState, MaybeToken
    <3>3. syncPass' \in Passes /\ syncPass'.at = "stores" /\ syncPass'.of = activeUser
      BY <3>1, <3>2 DEF Passes, AnyToken
    <3> QED
      BY <1>1, <1>2, <2>1, <2>2, <3>3, WorkGoesOn
      DEF CalmInv, CacheWellTyped, CacheIsTheUsers, ShownIsTheUsers, EffectsInOrder
  <2> QED
    BY <2>3, <2>4
<1>5. CASE PassStores
  <2>1. /\ syncPass.at = "stores" /\ syncPass' = None /\ cacheOf' = cacheOf \cup {syncPass.of}
        /\ shownOf' = IF app.user = Nobody THEN {} ELSE cacheOf'
    BY <1>5 DEF PassStores
  <2>2. /\ Busy /\ activeUser = Whose /\ syncPass.of = activeUser /\ syncPass.of \in Accounts
        /\ app.user \in {Nobody, activeUser}
    BY <2>1, EffectShapes DEF CalmInv, Busy, EffectsInOrder, WorkIsTheUsers
  <2>3. CacheIsTheUsers'
    BY <1>1, <2>1, <2>2, SessionsAssumption DEF CalmInv, CacheIsTheUsers
  <2>4. CacheWellTyped' /\ ShownIsTheUsers' /\ EffectsInOrder'
    BY <1>1, <1>2, <2>1, <2>2, <2>3 DEF CalmInv, CacheWellTyped, CacheIsTheUsers, ShownIsTheUsers, EffectsInOrder, Passes, None
  <2> QED
    BY <1>1, <2>1, <2>3, <2>4, WorkGoesOn
<1> QED
  BY <1>3, <1>4, <1>5

\* After a reload only what was stored is there, and it is the user's.
LEMMA ReloadStaysCalm ==
  ASSUME SessionsInv, CalmInv, Reload
  PROVE  CalmInv'
<1>1. /\ app' = [stored EXCEPT !.token = IF stored.user = Nobody THEN None ELSE @]
      /\ renewal' = None /\ signingIn' = None /\ syncPass' = None /\ shownOf' = {} /\ UNCHANGED stored
      /\ welcome' = (IF stored.user = Nobody THEN None ELSE [at |-> "active-user", user |-> stored.user])
      /\ UNCHANGED <<cacheOf, activeUser>>
  BY DEF Reload
<1>2. /\ app'.user = stored.user /\ app'.refresh = stored.refresh /\ app'.token \in {None, stored.token}
      /\ stored.user = app.user /\ stored.user \in Accounts \cup {Nobody} /\ stored.refresh = app.refresh
  BY <1>1 DEF CalmInv, StoredIsTheApp, SessionsInv, SessionsWellTyped, AppState
<1>3. /\ stored.user = Nobody => welcome' = None
      /\ stored.user # Nobody => welcome' # None /\ welcome'.at = "active-user" /\ welcome'.user = stored.user
      /\ welcome' \in Effects
  BY <1>1, <1>2 DEF Effects, None
<1>4. stored.user # Nobody => TokensOf(stored.user)' /\ Whose' = stored.user
  BY <1>1, <1>2, <1>3 DEF CalmInv, TokensAreTheUsers, TokensOf, Whose, None
<1>5. Busy' <=> stored.user # Nobody
  BY <1>1, <1>3 DEF Busy
<1>6. WorkIsTheUsers' /\ TokensAreTheUsers' /\ StoredIsTheApp'
  BY <1>1, <1>2, <1>4, <1>5 DEF WorkIsTheUsers, TokensAreTheUsers, StoredIsTheApp
<1>7. syncPass' \in Passes /\ syncPass'.at = "none" /\ welcome'.at # "fetch"
  BY <1>1, <1>3 DEF Passes, None
<1> QED
  BY <1>1, <1>3, <1>6, <1>7 DEF CalmInv, CacheWellTyped, CacheIsTheUsers, EffectsInOrder, ShownIsTheUsers

LEMMA CalmSteps ==
  ASSUME Calm, SessionsInv, CalmInv, [SessionsNext]_sessionVars
  PROVE  CalmInv'
<1> DEFINE Elsewhere == UNCHANGED <<app, stored, signingIn, renewal, welcome, cacheOf, shownOf, activeUser, syncPass>>
<1>1. Elsewhere => CalmInv'
  BY RenewalStaysCalm
<1>2. ASSUME NEW account \in Accounts, SwitchAccount(account) PROVE Elsewhere
  BY <1>2 DEF SwitchAccount, appVars, cacheVars
<1>3. ASSUME NEW c \in AppCalls, SendCall(c) \/ CallAnswered(c) PROVE Elsewhere
  BY <1>3 DEF SendCall, CallAnswered, cacheVars
<1>4. ASSUME NEW c \in AppCalls, CallResumes(c) PROVE CalmInv'
  <2>1. UNCHANGED <<signingIn, renewal, welcome, cacheOf, activeUser, syncPass>>
    BY <1>4 DEF CallResumes
  <2>2. SignOut \/ Elsewhere
    BY <1>4, <2>1 DEF CallResumes
  <2> QED
    BY <1>1, <2>1, <2>2, SignOutStaysCalm
<1>5. CASE SignOutClicked
  BY <1>5, SignOutStaysCalm DEF SignOutClicked
<1>6. CASE ForgetRenewal
  BY <1>6, RenewalStaysCalm DEF ForgetRenewal, PromiseForgotten, None, cacheVars
<1>7. CASE Lapse \/ UNCHANGED sessionVars
  BY <1>1, <1>7 DEF Lapse, sessionVars, appVars, cacheVars
<1> QED
  BY <1>1, <1>2, <1>3, <1>4, <1>5, <1>6, <1>7, ExchangeCodeStaysCalm, SignInStaysCalm, CallRefusedStaysCalm,
     ConsumeIssueStayCalm, RenewedStaysCalm, ActiveUserStaysCalm, WelcomeStaysCalm, PassStaysCalm, ReloadStaysCalm
  DEF SessionsNext

\* While nobody signs in or out during a renewal, or in during a pass, and
\* active-user is answered, what the previous account left is never in view of
\* the next: a leftover effect, pass, renewal or reload brings nothing of it back
\* (context/AppContext.tsx, the effect on a new token; db/local_store.py,
\* set_active_user).
THEOREM ShownStaysTheUsers == ASSUME Calm PROVE SessionsSpec => []ShownIsTheUsers
<1>1. SessionsInit => SessionsInv /\ CalmInv
  BY SessionsStart, CalmStart
<1>2. SessionsInv /\ CalmInv /\ [SessionsNext]_sessionVars => (SessionsInv /\ CalmInv)'
  BY SessionsSteps, CalmSteps
<1>3. SessionsInv /\ CalmInv => ShownIsTheUsers
  BY DEF CalmInv
<1> QED
  BY <1>1, <1>2, <1>3, PTL DEF SessionsSpec
===============================================================================
