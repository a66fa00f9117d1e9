--------------------------- MODULE RequestExecutor ---------------------------
(***************************************************************************)
(* The sidecar's execution of a request (services/executor.py,             *)
(* routes/local_executor.py): resolving it with the environment and an     *)
(* auth function whose token is cached, the call, and the response parser, *)
(* whose env.set() writes go back into the environment.  The scripts run   *)
(* in QuickJS without an await (services/auth_sandbox.py): a run is two    *)
(* atomic steps with the call between them.                                *)
(***************************************************************************)
EXTENDS Integers, FiniteSets, TLC

CONSTANTS
  ExecRuns,        \* runs of a request, by the app, a flow or an agent
  EnvKeys, EnvValues,
  TokenLife,       \* expires_in, or the exp of a JWT, in ticks
  Margin,          \* the 30 s before the expiry
  ExecEnd          \* bound on the clock

ASSUME ExecAssumption == Margin \in Nat /\ TokenLife \in SUBSET Nat /\ ExecEnd \in Nat

VARIABLES
  execEnv,         \* the variables of the environment
  openEnv,         \* what the environment editor was opened with, and edited to
  authScript,      \* version of the auth function's script and TTL
  tokenCache,      \* auth_token_cache:<id>
  execRuns,        \* runs waiting for the response
  results,         \* what ended runs returned
  execClock

execVars == <<execEnv, openEnv, authScript, tokenCache, execRuns, results, execClock>>

NoToken == [script |-> 0, made |-> 0, expires |-> 0]
NotOpen == [k \in {} |-> 0]
Set(vars, writes) == [k \in DOMAIN vars \cup DOMAIN writes |->
                        IF k \in DOMAIN writes THEN writes[k] ELSE vars[k]]
\* f, with v for r.
Added(f, r, v) == [x \in DOMAIN f \cup {r} |-> IF x = r THEN v ELSE f[x]]
Writes == UNION {[K -> EnvValues] : K \in SUBSET EnvKeys}

\* Deviation: a script that was changed does not count.
UsableOfAnyScript(cache) == cache # NoToken /\ cache.expires > execClock + Margin
\* read_cached_auth_token.
Usable(cache) == cache # NoToken /\ cache.script = authScript /\ cache.expires > execClock + Margin

\* get_valid_auth_token: from the cache, or from the script, which may fail.
Tokens ==
  IF Usable(tokenCache) THEN {tokenCache}
  ELSE {[script |-> authScript, made |-> execClock, expires |-> execClock + life] : life \in TokenLife}

ExecInit ==
  /\ execEnv \in [EnvKeys -> EnvValues] /\ openEnv = NotOpen
  /\ authScript = 1 /\ tokenCache = NoToken
  /\ execRuns = [r \in {} |-> 0] /\ results = [r \in {} |-> 0] /\ execClock = 0

\* run_request, resolve_request: nothing is sent if the auth script or the
\* interceptor fails; a token made before that stays in the cache.
Execute(r) ==
  /\ r \notin DOMAIN execRuns \cup DOMAIN results
  /\ \/ /\ ~Usable(tokenCache)
        /\ results' = Added(results, r, [sent |-> FALSE, writes |-> NotOpen])
        /\ UNCHANGED <<tokenCache, execRuns>>
     \/ \E token \in Tokens :
          /\ tokenCache' = token
          /\ \/ /\ execRuns' = Added(execRuns, r, [token |-> token, vars |-> execEnv])
                /\ UNCHANGED results
             \/ /\ results' = Added(results, r, [sent |-> FALSE, writes |-> NotOpen])
                /\ UNCHANGED execRuns
  /\ UNCHANGED <<execEnv, openEnv, authScript, execClock>>

\* persist_env_writes: read again, at once written.
Persisted(r, writes) == Set(execEnv, writes)

\* The run is over.
Settled(r) == [x \in DOMAIN execRuns \ {r} |-> execRuns[x]]

\* execute_request after the call: a parser runs on a status below 400 only, and
\* one that throws has written nothing.
Response(r) ==
  /\ r \in DOMAIN execRuns
  /\ \E writes \in Writes :
       /\ execEnv' = IF DOMAIN writes = {} THEN execEnv ELSE Persisted(r, writes)
       /\ results' = Added(results, r, [sent |-> TRUE, writes |-> writes])
  /\ execRuns' = Settled(r)
  /\ UNCHANGED <<openEnv, authScript, tokenCache, execClock>>

\* The environment editor: opened with the variables as they are, it saves all
\* of them (handleSaveEnv).
OpenEnv ==
  /\ openEnv = NotOpen /\ openEnv' = execEnv
  /\ UNCHANGED <<execEnv, authScript, tokenCache, execRuns, results, execClock>>
SaveEnv(k, v) ==
  /\ openEnv # NotOpen /\ execEnv' = Set(openEnv, k :> v) /\ openEnv' = NotOpen
  /\ UNCHANGED <<authScript, tokenCache, execRuns, results, execClock>>

\* The auth function is edited, here or by a sync pass; the cache stays.
EditScript ==
  /\ authScript < 2 /\ authScript' = authScript + 1
  /\ UNCHANGED <<execEnv, openEnv, tokenCache, execRuns, results, execClock>>

ExecTick ==
  /\ execClock < ExecEnd /\ execClock' = execClock + 1
  /\ UNCHANGED <<execEnv, openEnv, authScript, tokenCache, execRuns, results>>

ExecNext ==
  \/ \E r \in ExecRuns : Execute(r) \/ Response(r)
  \/ \E k \in EnvKeys, v \in EnvValues : SaveEnv(k, v)
  \/ OpenEnv \/ EditScript \/ ExecTick
ExecSpec == ExecInit /\ [][ExecNext]_execVars

-----------------------------------------------------------------------------
ExecTypeOK ==
  /\ execEnv \in [EnvKeys -> EnvValues] /\ execClock \in 0 .. ExecEnd
  /\ DOMAIN execRuns \cap DOMAIN results = {} /\ DOMAIN execRuns \cup DOMAIN results \subseteq ExecRuns
  /\ tokenCache = NoToken \/ tokenCache.script \in 1 .. authScript

\* A run that goes out has a token of the script as it is now: made for this
\* run, or kept from an earlier tick with its expiry more than the margin away,
\* however often script, TTL and clock have moved between the runs.
TokensAreCurrent ==
  [][\A r \in DOMAIN execRuns' \ DOMAIN execRuns :
       /\ execRuns'[r].token.script = authScript
       /\ execRuns'[r].token.made < execClock => execRuns'[r].token.expires > execClock + Margin]_execVars

=============================================================================
