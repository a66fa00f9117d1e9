----------------------------- MODULE FlowMigration -----------------------------
(***************************************************************************)
(* How a flow saved by an earlier version becomes one of today             *)
(* (migrate_flow_v2 of services/flow_runner_v2.py, migrateFlowV2 of        *)
(* utils/flowTypesV2.ts): the editor calls it on loading, both runners     *)
(* before they validate.  Blocks are taken in the order of their numbers;  *)
(* the ids of the connections are left out.                                *)
(***************************************************************************)
EXTENDS FlowStreams

\* The `each` input of a request; its other inputs are 1 and up.
Each == 0

BlockTypes == {"request", "delay", "arrayEmit", "accumulator", "generator", "splitter", "mixer"}
\* RENAMED_NODE_TYPES_V2, in one hop.
NewName == [old \in {"demux", "mapper", "mux"} |-> IF old = "mux" THEN "mixer" ELSE "splitter"]

\* A request wired to its `each` input keeps it, though it is optional now.
WithEach(f) ==
  [f EXCEPT !.node = [n \in DOMAIN @ |->
    IF @[n].type = "request" /\ Each \in InPorts(f, n) THEN [@[n] EXCEPT !.useEach = TRUE] ELSE @[n]]]
Renamed(f) ==
  [f EXCEPT !.node = [n \in DOMAIN @ |->
    IF @[n].type \in DOMAIN NewName THEN [@[n] EXCEPT !.type = NewName[@]] ELSE @[n]]]

Trigger(from, to) == [from |-> from, to |-> to]

\* Of two paths in a row the first is kept.
PathThrough(e, out) == IF e.path # "none" THEN e.path ELSE out.path

\* What replaces the connections of a duplicator n that e feeds: what it fed is
\* fed by its source, waits for what it waited for, and what waited for it waits
\* for its source.
DirectData(f, n, e) ==
  {[from |-> e.from, out |-> e.out, to |-> o.to, in |-> o.in, path |-> PathThrough(e, o)] : o \in Outs(f, n)}
DirectTriggers(f, n, e) ==
  {Trigger(t.from, o.to) : t \in Triggers(f, n), o \in Outs(f, n)}
    \cup {Trigger(e.from, t.to) : t \in {x \in f.trig : x.from = n}}

Without(f, n) ==
  [node |-> [m \in Nodes(f) \ {n} |-> f.node[m]],
   data |-> {e \in f.data : n \notin {e.from, e.to}},
   trig |-> {t \in f.trig : n \notin {t.from, t.to}}]

\* A block of no known type goes with its connections, but for a duplicator.
Dissolved(f, n) ==
  IF f.node[n].type = "duplicator" /\ Ins(f, n) # {}
  THEN LET e == CHOOSE e \in Ins(f, n) : TRUE IN
       [Without(f, n) EXCEPT !.data = @ \cup DirectData(f, n, e), !.trig = @ \cup DirectTriggers(f, n, e)]
  ELSE Without(f, n)

Migrated(f) ==
  LET g == Renamed(WithEach(f))
      legacy == {n \in Nodes(g) : g.node[n].type \notin BlockTypes}
      step[S \in SUBSET legacy] ==
        IF S = {} THEN g ELSE Dissolved(step[S \ {Max(S)}], Max(S))
  IN step[legacy]
===============================================================================
