----------------------------- MODULE LegacyStudio -----------------------------
(***************************************************************************)
(* Runs of V1 flows in the legacy editor: the wavefront runner             *)
(* (utils/flowRunner.ts), its resume of a run that failed, the summary the *)
(* editor keeps and the copy of it in localStorage (LegacyEditor.tsx,      *)
(* utils/flowReport.ts).                                                   *)
(*                                                                         *)
(* A graph is [kind, calls, edges]: calls[n] is the number of items of a   *)
(* looper or of attempts of a verifier.  What a node publishes is          *)
(* abstracted to the fact that it did.                                     *)
(***************************************************************************)
EXTENDS Integers, Sequences, FiniteSets, FiniteSetsExt, TLC

CONSTANTS
  LegacyFlows,       \* flows of the list
  LegacyGraph,       \* their graphs; a duplicated flow has the same one
  MaxLegacyRuns      \* bound on runs started

\* runFlow refuses a graph with a cycle.
Acyclic(g) ==
  \A S \in SUBSET DOMAIN g.kind : S # {} => \E n \in S : \A m \in S : <<m, n>> \notin g.edges

ASSUME LegacyAssumption ==
  \A f \in LegacyFlows : LET g == LegacyGraph[f] IN
    /\ IsFiniteSet(DOMAIN g.kind) /\ g.calls \in [DOMAIN g.kind -> Nat] /\ Acyclic(g)
    /\ \A n \in DOMAIN g.kind : g.calls[n] = 0 => g.kind[n] = "looper"

VARIABLES
  legacyShown,       \* the flow in the editor
  legacyRun,         \* the run under way (runHandleRef, isRunning)
  legacySummary,     \* lastSummary
  legacyStored,      \* the last run of each flow in localStorage
  legacyRuns

legacyVars == <<legacyShown, legacyRun, legacySummary, legacyStored, legacyRuns>>

LegacyNodes(g) == DOMAIN g.kind
LegacySucc(g, n) == {m \in LegacyNodes(g) : <<n, m>> \in g.edges}
LegacyPred(g, n) == {m \in LegacyNodes(g) : <<m, n>> \in g.edges}
LegacyTerminal == {"success", "failed", "skipped"}

NoLegacyRun == [on |-> FALSE]
NoSummary == [none |-> TRUE]

-----------------------------------------------------------------------------
(* The runner.  r is the state of a run.                                   *)

\* skipDescendants: depth first, not past nodes that have a final status.
SkippedBelow(g, r, n) ==
  LET open == {m \in LegacyNodes(g) : r.node[m] \notin LegacyTerminal}
      closed(S) == \A m \in open : (\E x \in S \cup {n} : <<x, m>> \in g.edges) => m \in S
  IN {m \in open : \A S \in SUBSET open : closed(S) => m \in S}

\* skipNode: one record, and a final status.
Skip(r, S) ==
  [r EXCEPT !.node = [m \in DOMAIN @ |-> IF m \in S THEN "skipped" ELSE @[m]],
            !.records = [m \in DOMAIN @ |-> IF m \in S THEN Append(@[m], "skipped") ELSE @[m]]]

Recorded(r, n, s) == [r EXCEPT !.records[n] = Append(@, s)]
\* A call of a node that ended, of those it has left.
Called(r, n, s) == Recorded([r EXCEPT !.left[n] = @ - 1], n, s)
InState(r, n, s) == [r EXCEPT !.node[n] = s]

\* A node ended badly: its descendants are skipped, other branches go on.
NodeFailed(g, r, n) == Skip(InState(r, n, "failed"), SkippedBelow(g, r, n))

\* The successors that wait for nothing else, unless Stop was pressed.
Ready(g, r, n, waits) ==
  {m \in LegacySucc(g, n) : waits[m] = 0 /\ r.node[m] = "pending" /\ ~r.cancelled}

\* A node succeeded: it publishes (a delay does not) and launches what is ready.
NodeSucceeded(g, r, n) ==
  LET waits == [m \in LegacyNodes(g) |-> IF m \in LegacySucc(g, n) THEN r.waits[m] - 1 ELSE r.waits[m]]
  IN [r EXCEPT !.waits = waits,
               !.ctx = IF g.kind[n] = "delay" THEN @ ELSE @ \cup {n},
               !.node = [m \in DOMAIN @ |->
                  CASE m = n -> "success" [] m # n /\ m \in Ready(g, r, n, waits) -> "running" [] OTHER -> @[m]]]

\* runFlow(resume): nodes completed before are not launched and leave no
\* record; edges from them do not count; every root is launched.
Resumed(g, f, ctx, completed, prior) ==
  LET waits == [n \in LegacyNodes(g) |-> Cardinality(LegacyPred(g, n) \ completed)]
  IN [on |-> TRUE, flow |-> f, graph |-> g, prior |-> prior, cancelled |-> FALSE, ctx |-> ctx, waits |-> waits,
      left |-> g.calls, records |-> [n \in LegacyNodes(g) |-> <<>>],
      node |-> [n \in LegacyNodes(g) |->
        IF n \in completed THEN "success" ELSE IF waits[n] = 0 THEN "running" ELSE "pending"]]

\* The summary of a run, whose stranded nodes are skipped first.
Summary(r) ==
  LET all == Skip(r, {n \in DOMAIN r.node : r.node[n] = "pending"})
  IN [none |-> FALSE, of |-> r.flow, graph |-> r.graph, node |-> all.node, records |-> all.records,
      ctx |-> r.ctx, truncated |-> FALSE,
      status |-> CASE r.cancelled -> "cancelled"
                   [] ~r.cancelled /\ \E n \in DOMAIN r.node : r.node[n] = "failed" -> "failed"
                   [] OTHER -> "success"]

\* Deviation: the records of the earlier run are all kept.
MergedKeepingAll(prior, next) ==
  [next EXCEPT !.records = [n \in DOMAIN @ |-> prior.records[n] \o @[n]]]

\* mergeRetrySummary: records of an earlier run stay for what succeeded in it.
Merged(prior, next) ==
  [next EXCEPT !.records = [n \in DOMAIN @ |->
     IF prior.node[n] = "success" THEN prior.records[n] \o @[n] ELSE @[n]]]

\* Deviation: stored for the flow that is shown.
StoredForShown(r) == legacyShown
\* The flow a summary is stored for.
StoredFor(r) == r.flow

\* persistLastRun: a context with an oversized entry is dropped as a whole.
Stored(s, oversized) == IF oversized THEN [s EXCEPT !.ctx = {}, !.truncated = TRUE] ELSE s

-----------------------------------------------------------------------------
(* The editor.                                                             *)

LegacyInit ==
  /\ legacyShown \in LegacyFlows
  /\ legacyRun = NoLegacyRun
  /\ legacySummary = NoSummary
  /\ legacyStored = [f \in LegacyFlows |-> NoSummary]
  /\ legacyRuns = 0

Active(r) == {n \in DOMAIN r.node : r.node[n] \in {"running", "interval"}}

\* loadFlow: the canvas and the summary of the flow selected; a run goes on.
LegacySelect(f) ==
  /\ f # legacyShown
  /\ legacyShown' = f
  /\ legacySummary' = legacyStored[f]
  /\ UNCHANGED <<legacyRun, legacyStored, legacyRuns>>

\* The window is loaded again: a run under way is lost.
LegacyReload ==
  /\ legacyRun' = NoLegacyRun
  /\ legacySummary' = legacyStored[legacyShown]
  /\ UNCHANGED <<legacyShown, legacyStored, legacyRuns>>

LegacyRunStart ==
  /\ ~legacyRun.on /\ legacyRuns < MaxLegacyRuns
  /\ legacyRun' = Resumed(LegacyGraph[legacyShown], legacyShown, {}, {}, NoSummary)
  /\ legacySummary' = NoSummary
  /\ legacyRuns' = legacyRuns + 1
  /\ UNCHANGED <<legacyShown, legacyStored>>

\* retryable and retryBlockedReason: the last run failed or was cancelled, its
\* context is whole, and its graph (structuralSignature) is that of the canvas.
Retryable ==
  /\ ~legacyRun.on /\ ~legacySummary.none /\ legacySummary.status \in {"failed", "cancelled"}
  /\ ~legacySummary.truncated
  /\ legacySummary.graph = LegacyGraph[legacyShown]

LegacyRetry ==
  /\ Retryable /\ legacyRuns < MaxLegacyRuns
  /\ LET completed == {n \in DOMAIN legacySummary.node : legacySummary.node[n] = "success"} IN
     legacyRun' = Resumed(LegacyGraph[legacyShown], legacyShown, legacySummary.ctx, completed, legacySummary)
  /\ legacyRuns' = legacyRuns + 1
  /\ UNCHANGED <<legacyShown, legacySummary, legacyStored>>

\* executeNode, one call of it: a request of a looper ends the node when it
\* fails, one of a verifier when it passes; a reference that is not found, or an
\* items list that is none, fails like a request.  A looper without items calls
\* nothing and leaves no record.
NodeAnswers(n, ok) ==
  LET r == legacyRun  g == r.graph
      noted == IF r.left[n] = 0 THEN r ELSE Called(r, n, IF ok THEN "success" ELSE "failed")
      last == r.left[n] <= 1
  IN /\ legacyRun.on /\ r.node[n] = "running" /\ ~r.cancelled
     /\ g.kind[n] = "delay" \/ r.left[n] = 0 => ok
     /\ legacyRun' =
          CASE g.kind[n] = "verifier" /\ ok -> NodeSucceeded(g, noted, n)
            [] g.kind[n] = "verifier" /\ ~ok /\ ~last -> InState(noted, n, "interval")
            [] g.kind[n] # "verifier" /\ ok /\ ~last -> noted
            [] g.kind[n] # "verifier" /\ ok /\ last -> NodeSucceeded(g, noted, n)
            [] ~ok /\ (last \/ g.kind[n] # "verifier") -> NodeFailed(g, noted, n)
     /\ UNCHANGED <<legacyShown, legacySummary, legacyStored, legacyRuns>>

\* The interval of a verifier is over.
NodeTriesAgain(n) ==
  /\ legacyRun.on /\ legacyRun.node[n] = "interval" /\ ~legacyRun.cancelled
  /\ legacyRun' = InState(legacyRun, n, "running")
  /\ UNCHANGED <<legacyShown, legacySummary, legacyStored, legacyRuns>>

\* Stop aborts every request and wakes every delay: FlowCancelledError, one
\* node after the other.  A run whose last node has ended settles, and a looper
\* without items ends, before any click.
LegacyStop ==
  /\ legacyRun.on /\ ~legacyRun.cancelled /\ Active(legacyRun) # {}
  /\ \A n \in Active(legacyRun) : legacyRun.graph.calls[n] # 0
  /\ legacyRun' = [legacyRun EXCEPT !.cancelled = TRUE]
  /\ UNCHANGED <<legacyShown, legacySummary, legacyStored, legacyRuns>>
NodeCancelled(n) ==
  /\ legacyRun.on /\ legacyRun.cancelled /\ n \in Active(legacyRun)
  /\ legacyRun' = NodeFailed(legacyRun.graph, Recorded(legacyRun, n, "failed"), n)
  /\ UNCHANGED <<legacyShown, legacySummary, legacyStored, legacyRuns>>

\* The run has settled: the summary, merged with the one it retried, is shown
\* whatever flow is selected by now, and stored for the flow that ran.
LegacySettle ==
  /\ legacyRun.on /\ Active(legacyRun) = {}
  /\ LET s == IF legacyRun.prior.none THEN Summary(legacyRun)
              ELSE Merged(legacyRun.prior, Summary(legacyRun))
     IN /\ legacySummary' = s
        /\ \E oversized \in BOOLEAN :
             /\ oversized => s.ctx # {}
             /\ legacyStored' = [legacyStored EXCEPT ![StoredFor(legacyRun)] = Stored(s, oversized)]
  /\ legacyRun' = NoLegacyRun
  /\ UNCHANGED <<legacyShown, legacyRuns>>

LegacyNodeStep ==
  \E n \in UNION {LegacyNodes(LegacyGraph[f]) : f \in LegacyFlows} :
    legacyRun.on /\ n \in DOMAIN legacyRun.node
      /\ (NodeTriesAgain(n) \/ NodeCancelled(n) \/ \E ok \in BOOLEAN : NodeAnswers(n, ok))

LegacyNext ==
  \/ LegacyNodeStep \/ LegacySettle
  \/ LegacyRunStart \/ LegacyRetry \/ LegacyStop \/ LegacyReload
  \/ \E f \in LegacyFlows : LegacySelect(f)

LegacySpec == LegacyInit /\ [][LegacyNext]_legacyVars

-----------------------------------------------------------------------------
LegacyTypeOK ==
  /\ legacyShown \in LegacyFlows /\ legacyRuns \in 0 .. MaxLegacyRuns
  /\ legacyRun.on => \A n \in LegacyNodes(legacyRun.graph) :
       /\ legacyRun.node[n] \in {"pending", "running", "interval"} \cup LegacyTerminal
       /\ legacyRun.left[n] \in 0 .. legacyRun.graph.calls[n] /\ legacyRun.waits[n] >= 0
  /\ \A f \in LegacyFlows : legacyStored[f].none \/ legacyStored[f].of = f

\* A summary tells of one whole run, retried or not: every node has a final
\* status, the records of one attempt at it that end with that status, and an
\* entry in the context if it succeeded; the run is a success if all nodes are.
WholeSummary(s) ==
  /\ s.status = "success" <=> \A n \in DOMAIN s.node : s.node[n] = "success"
  /\ \A n \in DOMAIN s.node :
       /\ s.node[n] \in LegacyTerminal
       /\ s.node[n] = "skipped" => s.records[n] = <<"skipped">>
       /\ IF s.node[n] = "success" /\ s.graph.calls[n] = 0 THEN s.records[n] = <<>>
          ELSE /\ Len(s.records[n]) \in 1 .. Max({1, s.graph.calls[n]})
               /\ s.records[n][Len(s.records[n])] = s.node[n]
  /\ s.truncated \/ s.ctx = {n \in DOMAIN s.node : s.node[n] = "success" /\ s.graph.kind[n] # "delay"}
SummariesAreWhole ==
  \A s \in {legacySummary} \cup {legacyStored[f] : f \in LegacyFlows} : s.none \/ WholeSummary(s)

=============================================================================
