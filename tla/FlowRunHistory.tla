---------------------------- MODULE FlowRunHistory ----------------------------
(***************************************************************************)
(* The history of flow runs (table flow_runs of db/local_store.py): agents *)
(* run flows in the sidecar (mcp_server.py, run_flow_impl), the app runs   *)
(* them itself and registers what came out (routes/flow_runs.py), and a    *)
(* poll shows the newest rows (context/FlowRunsContext.tsx).  One event    *)
(* loop: a handler is atomic between its awaits.                           *)
(***************************************************************************)
EXTENDS Integers, FiniteSets

CONSTANTS
  RetainedRuns,     \* RETAINED_RUNS: completed rows a prune leaves
  ShownRuns,        \* the poll's limit
  HistoryEnd        \* bound on the runs; they serve as the clock of start times

ASSUME HistoryAssumption == RetainedRuns \in Nat \ {0} /\ ShownRuns \in Nat \ {0} /\ HistoryEnd \in Nat

VARIABLES
  historyRows,      \* run -> its row
  agentRuns,        \* run -> a call of run_flow under way
  historyClock,     \* runs so far
  sidecarUp,
  polled,           \* the answer a poll is waiting for, or how far it is
  shownRows         \* runs, in the app

historyVars == <<historyRows, agentRuns, historyClock, sidecarUp, polled, shownRows>>

NoPoll == [at |-> "none"]
Empty == [r \in {} |-> "none"]
HistoryRuns == 1 .. HistoryEnd

With(rows, r, row) == [x \in DOMAIN rows \cup {r} |-> IF x = r THEN row ELSE rows[x]]
Without(f, S) == [x \in DOMAIN f \ S |-> f[x]]

\* Whether S is what "ORDER BY started_at DESC LIMIT k" may select.
Newest(rows, S, k) ==
  /\ S \subseteq DOMAIN rows
  /\ IF Cardinality(DOMAIN rows) <= k THEN S = DOMAIN rows ELSE Cardinality(S) = k
  /\ \A r \in S, x \in DOMAIN rows \ S : rows[r].started >= rows[x].started

\* prune_flow_runs, when S are the newest rows.
Pruning(rows, S) == Without(rows, {r \in DOMAIN rows \ S : rows[r].status # "running"})
Pruned(rows) == {Pruning(rows, S) : S \in {T \in SUBSET DOMAIN rows : Newest(rows, T, RetainedRuns)}}

\* finalize_flow_run: the summary's start time is later than the row's.
Finalized(rows, r, outcome, started) ==
  IF r \notin DOMAIN rows THEN rows
  ELSE [rows EXCEPT ![r].status = outcome.status, ![r].report = outcome.report, ![r].started = started]

HistoryInit ==
  /\ historyRows = Empty /\ agentRuns = Empty /\ historyClock = 0
  /\ sidecarUp = TRUE /\ polled = NoPoll /\ shownRows = Empty

\* The next run id.
NewRun(r) == historyClock < HistoryEnd /\ r = historyClock + 1 /\ historyClock' = r

\* run_flow: the running row first, so that the app can show it.  When the row
\* cannot be written the flow runs all the same, untracked.
AgentStarts(r) ==
  /\ sidecarUp /\ NewRun(r)
  /\ \E tracked \in BOOLEAN :
       /\ agentRuns' = With(agentRuns, r, [tracked |-> tracked, started |-> historyClock])
       /\ historyRows' = IF tracked
            THEN With(historyRows, r, [status |-> "running", report |-> FALSE, started |-> historyClock])
            ELSE historyRows
  /\ UNCHANGED <<sidecarUp, polled, shownRows>>

\* The runner returns a summary, refuses the flow, or the call is cancelled.
Outcomes == {[status |-> s, report |-> TRUE] : s \in {"success", "failed", "cancelled"}}
              \cup {[status |-> "failed", report |-> FALSE]}
AgentEnds(r) ==
  /\ sidecarUp /\ r \in DOMAIN agentRuns
  /\ \E outcome \in Outcomes, started \in {agentRuns[r].started, agentRuns[r].started + 1} :
       /\ started # agentRuns[r].started => outcome.report
       /\ IF agentRuns[r].tracked
          THEN historyRows' \in Pruned(Finalized(historyRows, r, outcome, started))
          ELSE UNCHANGED historyRows
  /\ agentRuns' = Without(agentRuns, {r})
  /\ UNCHANGED <<historyClock, sidecarUp, polled, shownRows>>

\* POST /api/flow-runs: a run the app has completed, started some time ago.
Register(r) ==
  /\ sidecarUp /\ NewRun(r)
  /\ \E s \in {"success", "failed", "cancelled"}, started \in 0 .. historyClock :
       historyRows' \in Pruned(With(historyRows, r, [status |-> s, report |-> TRUE, started |-> started]))
  /\ UNCHANGED <<agentRuns, sidecarUp, polled, shownRows>>

SidecarStops ==
  /\ sidecarUp /\ sidecarUp' = FALSE /\ agentRuns' = Empty
  /\ UNCHANGED <<historyRows, historyClock, polled, shownRows>>

\* Deviation: what ran when the sidecar stopped is left as it is.
AfterRestart(rows) == rows
\* fail_stale_flow_runs.
FailedStale(rows) ==
  [r \in DOMAIN rows |-> IF rows[r].status = "running" THEN [rows[r] EXCEPT !.status = "failed"] ELSE rows[r]]
SidecarStarts ==
  /\ ~sidecarUp /\ sidecarUp' = TRUE
  /\ historyRows' = FailedStale(historyRows)
  /\ UNCHANGED <<agentRuns, historyClock, polled, shownRows>>

\* Deviation: a poll that has failed still counts as under way.
PollHeld == [at |-> "lost"]
PollGivenUp == NoPoll
\* refresh: one poll at a time; an error leaves the list as it is.
PollStarts ==
  /\ polled = NoPoll /\ polled' = [at |-> "asked"]
  /\ UNCHANGED <<historyRows, agentRuns, historyClock, sidecarUp, shownRows>>
PollAnswered ==
  /\ polled.at = "asked" /\ sidecarUp
  /\ \E S \in SUBSET DOMAIN historyRows :
       Newest(historyRows, S, ShownRuns) /\ polled' = [at |-> "answered", rows |-> [r \in S |-> historyRows[r]]]
  /\ UNCHANGED <<historyRows, agentRuns, historyClock, sidecarUp, shownRows>>
PollFails ==
  /\ polled.at = "asked" /\ ~sidecarUp /\ polled' = PollGivenUp
  /\ UNCHANGED <<historyRows, agentRuns, historyClock, sidecarUp, shownRows>>
PollShown ==
  /\ polled.at = "answered" /\ shownRows' = polled.rows /\ polled' = NoPoll
  /\ UNCHANGED <<historyRows, agentRuns, historyClock, sidecarUp>>

HistoryNext ==
  \/ \E r \in HistoryRuns : AgentStarts(r) \/ AgentEnds(r) \/ Register(r)
  \/ SidecarStops \/ SidecarStarts \/ PollStarts \/ PollAnswered \/ PollFails \/ PollShown

\* The interval polls again and again; whether the sidecar is started again is
\* up to the launcher.
HistoryPolls == PollStarts \/ PollAnswered \/ PollFails \/ PollShown
HistorySpec == HistoryInit /\ [][HistoryNext]_historyVars /\ WF_historyVars(HistoryPolls)

-----------------------------------------------------------------------------
HistoryTypeOK ==
  /\ DOMAIN historyRows \cup DOMAIN agentRuns \cup DOMAIN shownRows \subseteq HistoryRuns
  /\ \A r \in DOMAIN historyRows :
       /\ historyRows[r].status \in {"running", "success", "failed", "cancelled"}
       /\ historyRows[r].started \in 0 .. HistoryEnd
       /\ historyRows[r].report => historyRows[r].status # "running"
  /\ polled.at \in {"none", "asked", "answered"}

\* While the sidecar serves, a row says "running" exactly as long as an agent's
\* run is under way: none is left behind by a restart, and however many runs
\* are registered meanwhile, none is pruned before it can be finalized.
RunningMeansRunning ==
  sidecarUp =>
    {r \in DOMAIN historyRows : historyRows[r].status = "running"}
      = {r \in DOMAIN agentRuns : agentRuns[r].tracked}

\* Once nothing happens any more, the app shows the newest runs as they ended:
\* no poll that failed, or was answered before the last change, is the last one.
HistoryIsShown ==
  <>[]sidecarUp =>
    <>[](Newest(historyRows, DOMAIN shownRows, ShownRuns)
           /\ \A r \in DOMAIN shownRows : shownRows[r] = historyRows[r])
=============================================================================
