----------------------------- MODULE FlowMeaning -----------------------------
(***************************************************************************)
(* What a V2 flow means, whatever the order its tasks run in: the graph    *)
(* evaluated stream by stream, each node once and as a whole.  This is the *)
(* promise the runner keeps as long as nobody cancels the run; its tasks   *)
(* never look at this module.                                              *)
(***************************************************************************)
EXTENDS FlowRunnerV2

-----------------------------------------------------------------------------
(* One node, given the streams at its inputs: s[i].items, s[i].whole.      *)

Single(s, i) == s[i].whole /\ Len(s[i].items) = 1
Drivers(s) == {i \in DOMAIN s : ~Single(s, i)}
Rounds(s) == IF Drivers(s) = {} THEN 1 ELSE Min({Len(s[i].items) : i \in Drivers(s)})
Tuple(s, k) == [i \in DOMAIN s |-> s[i].items[IF Single(s, i) THEN 1 ELSE k]]

\* The tuples an arrayEmit gets through before it would emit too many.
Fits(f, n, s) ==
  LET total[k \in 0 .. Rounds(s)] ==
        IF k = 0 THEN 0 ELSE total[k - 1] + Amount(f, n, Tuple(s, k))
  IN Max({k \in 0 .. Rounds(s) : total[k] <= EmitMax})

\* How the streams at the inputs end the node.
EndOf(f, n, s) ==
  LET R == Rounds(s)
      over == {i \in Drivers(s) : Len(s[i].items) = R}
  IN CASE Fits(f, n, s) < R -> "failed"
       [] Fits(f, n, s) = R /\ Drivers(s) = {} -> "ok"
       [] Fits(f, n, s) = R /\ \E i \in over : ~s[i].whole -> "skipped"
       [] OTHER -> IF over # Drivers(s) \/ (R = 0 /\ Drivers(s) # DOMAIN s)
                   THEN "failed" ELSE "ok"

Evaluated(f, n, s, failing) ==
  LET done == Fits(f, n, s)
      whole == EndOf(f, n, s) = "ok"
      tuple == [k \in 1 .. done |-> Tuple(s, k)]
      fine == [k \in 1 .. done |-> n \in DOMAIN failing => failing[n][k - 1] < f.node[n].attempts]
      booked == [k \in 1 .. done |-> Booked(f, n, tuple[k], fine[k])]
      times(what) == Cardinality({k \in 1 .. done : booked[k] = what})
      made == [p \in PortsOut(f.node[n]) |->
        IF f.node[n].type = "accumulator" /\ whole
        THEN <<Item(Value(IF p = 1 THEN times("ok") ELSE Scalar, 0))>>
        ELSE FlattenSeq([k \in 1 .. done |-> MadeOf(f, n, p, tuple[k], fine[k])])]
  IN [out |-> [p \in DOMAIN made |-> [k \in DOMAIN made[p] |-> At(made[p][k], k - 1)]],
      whole |-> whole,
      status |-> CASE ~whole -> EndOf(f, n, s)
                   [] whole /\ times("failed") > 0 -> "partial"
                   [] whole /\ times("failed") = 0 -> "success",
      ok |-> times("ok"), failed |-> times("failed"), skipped |-> times("skipped")]

Unstarted(f, n) ==
  [out |-> [p \in PortsOut(f.node[n]) |-> <<>>], whole |-> FALSE, status |-> "skipped",
   ok |-> 0, failed |-> 0, skipped |-> 0]

\* The nodes whose predecessors are known, evaluated.
Layer(f, failing, known) ==
  LET stream(e) == [items |-> [k \in DOMAIN known[e.from].out[e.out] |->
                                 Along(e, known[e.from].out[e.out][k])],
                    whole |-> known[e.from].whole]
      ready == {n \in Nodes(f) : \A m \in Nodes(f) : <<m, n>> \in Links(f) => m \in DOMAIN known}
  IN [n \in ready |->
        IF \E t \in Triggers(f, n) : ~known[t.from].whole THEN Unstarted(f, n)
        ELSE Evaluated(f, n, [i \in InPorts(f, n) |->
                                stream(CHOOSE e \in Ins(f, n) : e.in = i)], failing)]

Meaning(f, failing) ==
  LET known[k \in 0 .. Cardinality(Nodes(f))] ==
        IF k = 0 THEN [n \in {} |-> "unknown"] ELSE Layer(f, failing, known[k - 1])
  IN known[Cardinality(Nodes(f))]

\* A flow as it was saved, with a duplicator for the passthrough it was: a delay
\* of no time, whose outputs are one.
AsSaved(f) ==
  LET g == Renamed(WithEach(f))
      copies == {n \in Nodes(g) : g.node[n].type = "duplicator"}
      known == {n \in Nodes(g) : g.node[n].type \in BlockTypes} \cup copies
  IN [node |-> [n \in known |-> IF n \in copies THEN [g.node[n] EXCEPT !.type = "delay"] ELSE g.node[n]],
      data |-> {[e EXCEPT !.out = IF e.from \in copies THEN 1 ELSE @] :
                  e \in {x \in g.data : {x.from, x.to} \subseteq known}},
      trig |-> {t \in g.trig : {t.from, t.to} \subseteq known}]

\* A run beside what it should come to: what the flow meant when it was saved.
VARIABLE meant

MeantInit ==
  /\ Init
  /\ \E f \in Flows : flow = Migrated(f) /\ meant = Meaning(AsSaved(f), fails)
MeantNext == Next /\ UNCHANGED meant
MeantSpec == MeantInit /\ [][MeantNext]_<<vars, meant>> /\ Fairness

-----------------------------------------------------------------------------
(* Properties of a run.                                                    *)

\* The order in which the tasks of a run are scheduled never shows: what is on
\* a connection is at all times a part of what the graph means, at the same
\* positions, so that streams that fork and join again stay aligned.
StreamsAsMeant ==
  \A e \in flow.data :
    LET items == SelectSeq(chan[e], IsValue) IN
    /\ Len(items) <= Len(meant[e.from].out[e.out])
    /\ \A k \in DOMAIN items : items[k] = Along(e, meant[e.from].out[e.out][k])

\* When no one cancels it, a node ends with the counts the graph means
\* (nodeItemCounts of the summary), not only with its status, and the run is a
\* success if every node is to be one.
CountsAsMeant ==
  ~cancelled =>
    /\ \A n \in Node : pc[n] = "ended" =>
         /\ counts[n].ok = meant[n].ok /\ counts[n].failed = meant[n].failed
         /\ counts[n].skipped = meant[n].skipped
    /\ Done => (RunStatus = "success" <=> \A n \in Node : meant[n].status = "success")

\* Both: what a run sends on, and what it says it did, is what its graph means,
\* whatever the schedule of its tasks, the failures and the deadline.
RunsAsMeant == StreamsAsMeant /\ CountsAsMeant

\* The tasks of a run together keep the promise of FlowPromise: nodeStatuses
\* is what the graph means, whatever fails, is skipped or comes too late, and
\* every task ends: no joiner waits for a port nobody will push on.
Promise == INSTANCE FlowPromise WITH
  meaning <- [n \in Node |-> meant[n].status],
  told <- [n \in {m \in Node : pc[m] = "ended"} |-> status[n]],
  over <- cancelled
KeepsThePromise == Promise!PromiseSpec

\* A migrated flow means what it meant when it was saved, node by node: a
\* duplicator may go, what it made others wait for may not.
MigrationMeansTheSame ==
  \A n \in Node : pc[n] = "ended" /\ ~cancelled => status[n] = meant[n].status
=============================================================================
