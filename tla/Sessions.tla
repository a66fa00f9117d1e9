------------------------------ MODULE Sessions ------------------------------
(***************************************************************************)
(* Sessions: rotating refresh tokens at the cloud (routes/auth.py), the    *)
(* app's calls that renew an expired access token at most once together    *)
(* (apiFetch in context/AppContext.tsx), signing in and out, and the       *)
(* device-wide cache of records, emptied when another account signs in     *)
(* (db/local_store.py, set_active_user).                                   *)
(* A token is [owner, login, gen]: the account, the sign-in it goes back   *)
(* to, and how often it was renewed since.                                 *)
(***************************************************************************)
EXTENDS Integers, FiniteSets

CONSTANTS
  Accounts, Nobody,
  AppCalls,        \* API calls that may be under way at once
  MaxLogins,       \* bound on sign-ins and reloads together
  MaxRenewals,
  Calm             \* nobody signs in or out while a renewal, or in while a
                   \* sync pass, is under way, and active-user succeeds

ASSUME SessionsAssumption ==
  Nobody \notin Accounts /\ MaxLogins \in Nat /\ MaxRenewals \in Nat /\ Calm \in BOOLEAN

VARIABLES
  disabled,        \* accounts an admin has disabled
  logins,          \* sign-ins so far
  refreshTokens,   \* refresh tokens neither used nor revoked
  lapsed,          \* access tokens that have expired
  app,             \* token, refresh token and user in the app
  stored,          \* the same three in its localStorage
  signingIn,       \* the answer of a code exchange under way
  appCalls,        \* call -> where it is
  renewal,         \* refreshPromiseRef, and how far the cloud has come with it
  welcome,         \* the effect on a new token: active-user, fetches, a sync
  cacheOf, shownOf, \* accounts whose records are in the cache, on the screen
  activeUser, syncPass, reloads

cloudAuthVars == <<disabled, logins, refreshTokens, lapsed>>
appVars == <<app, stored, signingIn, appCalls, renewal, reloads>>
cacheVars == <<welcome, cacheOf, shownOf, activeUser, syncPass>>
sessionVars == <<cloudAuthVars, appVars, cacheVars>>

None == [at |-> "none"]
SignedOut == [token |-> None, refresh |-> None, user |-> Nobody]
Idle == [at |-> "idle"]
Token(owner, login, gen) == [at |-> "made", owner |-> owner, login |-> login, gen |-> gen]
NextPair(token) == Token(token.owner, token.login, token.gen + 1)

SessionsInit ==
  /\ disabled = {} /\ logins = 0 /\ refreshTokens = {} /\ lapsed = {}
  /\ app = SignedOut /\ stored = SignedOut /\ signingIn = None /\ reloads = 0
  /\ appCalls = [c \in AppCalls |-> Idle] /\ renewal = None
  /\ welcome = None /\ cacheOf = {} /\ shownOf = {} /\ activeUser = Nobody /\ syncPass = None

-----------------------------------------------------------------------------
(* Signing in and out.                                                     *)

\* google_oauth_exchange: a disabled account gets no session.
ExchangeCode(account) ==
  /\ app.user = Nobody /\ signingIn = None /\ logins + reloads < MaxLogins
  /\ account \notin disabled
  /\ Calm => renewal.at \in {"none", "kept"} /\ syncPass = None /\ welcome = None
  /\ logins' = logins + 1
  /\ signingIn' = Token(account, logins', 0)
  /\ refreshTokens' = refreshTokens \cup {signingIn'}
  /\ UNCHANGED <<disabled, lapsed, app, stored, appCalls, renewal, reloads, cacheVars>>

\* handleLogin, once the exchange is answered; the new token runs the effect.
SignIn ==
  /\ signingIn # None /\ signingIn' = None
  /\ Calm => renewal.at \in {"none", "kept"}
  /\ app' = [token |-> signingIn, refresh |-> signingIn, user |-> signingIn.owner]
  /\ stored' = app'
  /\ welcome' = [at |-> "active-user", user |-> signingIn.owner]
  /\ UNCHANGED <<cloudAuthVars, appCalls, renewal, reloads, cacheOf, shownOf, activeUser, syncPass>>

\* handleLogout: the refresh token of the render it is called from is revoked,
\* unless that is an old one or the call is lost.  What is under way goes on.
SignOut ==
  /\ app' = SignedOut /\ stored' = SignedOut /\ shownOf' = {}
  /\ refreshTokens' \in {refreshTokens, refreshTokens \ {app.refresh}}

SignOutClicked ==
  /\ app.user # Nobody /\ SignOut
  /\ Calm => renewal.at \in {"none", "kept"}
  /\ UNCHANGED <<disabled, logins, lapsed, signingIn, appCalls, renewal, reloads,
                 welcome, cacheOf, activeUser, syncPass>>

-----------------------------------------------------------------------------
(* Calls, and the renewal they share.                                      *)

SendCall(c) ==
  /\ appCalls[c].at = "idle" /\ app.token # None
  /\ appCalls' = [appCalls EXCEPT ![c] = [at |-> "sent", token |-> app.token]]
  /\ UNCHANGED <<cloudAuthVars, app, stored, signingIn, renewal, reloads, cacheVars>>

\* Served, or refused for another reason than an expired token.
CallAnswered(c) ==
  /\ appCalls[c].at = "sent" /\ appCalls[c].token \notin lapsed
  /\ appCalls' = [appCalls EXCEPT ![c] = Idle]
  /\ UNCHANGED <<cloudAuthVars, app, stored, signingIn, renewal, reloads, cacheVars>>

\* 401: the call joins the renewal, or starts it with the app's refresh token of
\* this moment; without one the session is over.
CallRefused(c) ==
  /\ appCalls[c].at = "sent" /\ appCalls[c].token \in lapsed
  /\ \/ /\ app.refresh # None
        /\ appCalls' = [appCalls EXCEPT ![c] = [at |-> IF renewal.at \in {"kept", "failed"} THEN renewal.at ELSE "waits"]]
        /\ renewal' = IF renewal = None THEN [at |-> "sent", with |-> app.refresh] ELSE renewal
        /\ UNCHANGED <<refreshTokens, app, stored, shownOf>>
     \/ /\ app.refresh = None
        /\ appCalls' = [appCalls EXCEPT ![c] = Idle]
        /\ IF app.token # None THEN SignOut
           ELSE UNCHANGED <<refreshTokens, app, stored, shownOf>>
        /\ UNCHANGED renewal
  /\ UNCHANGED <<disabled, logins, lapsed, signingIn, reloads, welcome, cacheOf, activeUser, syncPass>>

\* Deviation: a used token stays good.
StillGood(token) == refreshTokens
\* consume_refresh_token revokes what it has found in the same operation.
Consumed(token) == refreshTokens \ {token}
\* The promise is settled: whoever awaits it goes on.
Settle(outcome, next) ==
  /\ renewal' = next
  /\ appCalls' = [c \in AppCalls |-> IF appCalls[c].at = "waits" THEN [at |-> outcome] ELSE appCalls[c]]
Fail == Settle("failed", [at |-> "failed"])
Consume ==
  /\ renewal.at = "sent"
  /\ refreshTokens' = Consumed(renewal.with)
  /\ IF renewal.with \in refreshTokens
     THEN renewal' = [renewal EXCEPT !.at = "consumed"] /\ UNCHANGED appCalls
     ELSE Fail
  /\ UNCHANGED <<disabled, logins, lapsed, app, stored, signingIn, reloads, cacheVars>>

\* The account is looked up after that, and the next pair made.
Issue ==
  /\ renewal.at = "consumed"
  /\ IF renewal.with.owner \in disabled
     THEN Fail /\ UNCHANGED refreshTokens
     ELSE /\ renewal' = [renewal EXCEPT !.at = "issued"] /\ UNCHANGED appCalls
          /\ refreshTokens' = refreshTokens \cup {NextPair(renewal.with)}
  /\ UNCHANGED <<disabled, logins, lapsed, app, stored, signingIn, reloads, cacheVars>>

\* The answer sets the tokens, whoever is signed in by now; or it is lost.
Renewed ==
  /\ renewal.at = "issued"
  /\ \/ LET token == NextPair(renewal.with) IN
        /\ Settle("kept", [at |-> "kept"])
        /\ app' = [app EXCEPT !.token = token, !.refresh = token]
        /\ stored' = [stored EXCEPT !.token = token, !.refresh = token]
        /\ welcome' = IF app.user = Nobody THEN welcome ELSE [at |-> "active-user", user |-> app.user]
     \/ Fail /\ UNCHANGED <<app, stored, welcome>>
  /\ UNCHANGED <<cloudAuthVars, signingIn, reloads, cacheOf, shownOf, activeUser, syncPass>>

\* A call that has waited is sent once more, whatever comes of it, or signs the
\* app out.
CallResumes(c) ==
  /\ appCalls[c].at \in {"kept", "failed"}
  /\ appCalls' = [appCalls EXCEPT ![c] = Idle]
  /\ IF appCalls[c].at = "failed" THEN SignOut
     ELSE UNCHANGED <<refreshTokens, app, stored, shownOf>>
  /\ UNCHANGED <<disabled, logins, lapsed, signingIn, renewal, reloads, welcome, cacheOf, activeUser, syncPass>>

\* Deviation: the promise is not forgotten.
PromiseStays == renewal
PromiseForgotten == None
\* One second later.
ForgetRenewal ==
  /\ renewal.at \in {"kept", "failed"}
  /\ renewal' = PromiseForgotten
  /\ UNCHANGED <<cloudAuthVars, app, stored, signingIn, appCalls, reloads, cacheVars>>

-----------------------------------------------------------------------------
(* The cache of records.                                                   *)

\* Deviation: the cache is kept for the next account.
CacheHandedOn(user) == cacheOf
\* set_active_user.
CacheFor(user) == IF activeUser \notin {Nobody, user} THEN {} ELSE cacheOf

\* The effect on a new token: active-user is best effort, then everything is
\* fetched and a pass triggered unless one is under way.
ActiveUser ==
  /\ welcome.at = "active-user" /\ welcome' = [welcome EXCEPT !.at = "fetch"]
  /\ \/ activeUser' = welcome.user /\ cacheOf' = CacheFor(welcome.user)
     \/ ~Calm /\ UNCHANGED <<activeUser, cacheOf>>
  /\ UNCHANGED <<cloudAuthVars, appVars, shownOf, syncPass>>
Welcome ==
  /\ welcome.at = "fetch" /\ welcome' = None
  /\ shownOf' = IF app.user = Nobody THEN {} ELSE cacheOf
  /\ syncPass' = IF syncPass = None THEN [at |-> "asks"] ELSE syncPass
  /\ UNCHANGED <<cloudAuthVars, appVars, cacheOf, activeUser>>

\* The interval.
TriggerSync ==
  /\ app.token # None /\ app.user # Nobody /\ syncPass = None /\ welcome = None
  /\ syncPass' = [at |-> "asks"]
  /\ UNCHANGED <<cloudAuthVars, appVars, welcome, cacheOf, shownOf, activeUser>>
\* A pass asks with the token of the moment, and ends when it is refused.
PassAsks ==
  /\ syncPass.at = "asks"
  /\ syncPass' = IF app.token # None /\ app.token \notin lapsed /\ app.token.owner \notin disabled
                   THEN [at |-> "stores", of |-> app.token.owner] ELSE None
  /\ UNCHANGED <<cloudAuthVars, appVars, welcome, cacheOf, shownOf, activeUser>>
PassStores ==
  /\ syncPass.at = "stores" /\ syncPass' = None
  /\ cacheOf' = cacheOf \cup {syncPass.of}
  /\ shownOf' = IF app.user = Nobody THEN {} ELSE cacheOf'
  /\ UNCHANGED <<cloudAuthVars, appVars, welcome, activeUser>>

-----------------------------------------------------------------------------
(* The environment.                                                        *)

\* After JWT_EXPIRY_MINUTES.
Lapse ==
  /\ app.token # None /\ app.token \notin lapsed /\ app.token.gen < MaxRenewals
  /\ lapsed' = lapsed \cup {app.token}
  /\ UNCHANGED <<disabled, logins, refreshTokens, appVars, cacheVars>>
\* update_user_status.
SwitchAccount(account) ==
  /\ disabled' = IF account \in disabled THEN disabled \ {account} ELSE disabled \cup {account}
  /\ UNCHANGED <<logins, refreshTokens, lapsed, appVars, cacheVars>>
\* A reload, or the app's end and start: what was under way is not heard of any
\* more.  The token is taken up again if there is a user with it.
Reload ==
  /\ logins + reloads < MaxLogins /\ reloads' = reloads + 1
  /\ app' = [stored EXCEPT !.token = IF stored.user = Nobody THEN None ELSE @]
  /\ appCalls' = [c \in AppCalls |-> Idle] /\ renewal' = None /\ signingIn' = None /\ syncPass' = None
  /\ shownOf' = {} /\ UNCHANGED stored
  /\ welcome' = IF stored.user = Nobody THEN None ELSE [at |-> "active-user", user |-> stored.user]
  /\ refreshTokens' \in CASE renewal.at = "sent" -> {refreshTokens, refreshTokens \ {renewal.with}}
                          [] renewal.at = "consumed" -> {refreshTokens, refreshTokens \cup {NextPair(renewal.with)}}
                          [] OTHER -> {refreshTokens}
  /\ UNCHANGED <<disabled, logins, lapsed, cacheOf, activeUser>>

SessionsNext ==
  \/ \E account \in Accounts : ExchangeCode(account) \/ SwitchAccount(account)
  \/ \E c \in AppCalls : SendCall(c) \/ CallAnswered(c) \/ CallRefused(c) \/ CallResumes(c)
  \/ SignIn \/ SignOutClicked \/ Consume \/ Issue \/ Renewed \/ ForgetRenewal
  \/ ActiveUser \/ Welcome \/ TriggerSync \/ PassAsks \/ PassStores \/ Lapse \/ Reload

\* The interval makes calls for as long as there is a token; calls are answered.
SessionsFairness ==
  /\ \A c \in AppCalls : /\ WF_sessionVars(SendCall(c)) /\ WF_sessionVars(CallAnswered(c))
                         /\ WF_sessionVars(CallRefused(c)) /\ WF_sessionVars(CallResumes(c))
  /\ WF_sessionVars(Consume) /\ WF_sessionVars(Issue) /\ WF_sessionVars(Renewed)
  /\ WF_sessionVars(ForgetRenewal)
SessionsSpec == SessionsInit /\ [][SessionsNext]_sessionVars /\ SessionsFairness

-----------------------------------------------------------------------------
\* However often answers are lost, the app is reloaded and calls renew at the
\* same time: of each sign-in at most one refresh token is good.
OneChainPerSignIn ==
  \A t, u \in refreshTokens : t.login = u.login => t = u

\* The previous account's records are not left in view after another signs in.
ShownIsTheUsers == shownOf \subseteq {app.user}

\* An expired session does not stay as it is: it is renewed or ends.
ExpiredSessionsEnd == (app.token \in lapsed) ~> (app.token \notin lapsed)
=============================================================================
