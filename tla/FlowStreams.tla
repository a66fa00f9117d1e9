----------------------------- MODULE FlowStreams -----------------------------
(***************************************************************************)
(* Flows of API Studio V2 (services/flow_runner_v2.py): which graphs the   *)
(* runner accepts, and what one node makes of one tuple of its inputs.     *)
(*                                                                         *)
(* An item is abstracted to a value with a length (of an array; Scalar if  *)
(* it is none) and a tag that tells the elements of an array apart.  Ports *)
(* of a node are numbers, inputs in the order of their names; a request's  *)
(* `each` input is 0.                                                      *)
(***************************************************************************)
EXTENDS Integers, Sequences, FiniteSets, FiniteSetsExt, SequencesExt

CONSTANTS
  EmitMax,      \* EMIT_MAX_ITEMS
  NoMessage

ASSUME StreamAssumption == EmitMax \in Nat \ {0}

Scalar == -1
Value(len, tag) == [len |-> len, tag |-> tag]

Item(value)       == [kind |-> "item", index |-> 0, value |-> value, origin |-> 0]
Hole(n)           == [kind |-> "hole", index |-> 0, value |-> Value(Scalar, 0), origin |-> n]
At(message, i)    == [message EXCEPT !.index = i]
EndOfStream(count) == [Item(Value(Scalar, 0)) EXCEPT !.kind = "eos", !.index = count]
Abort             == [Item(Value(Scalar, 0)) EXCEPT !.kind = "abort"]
IsValue(message)  == message.kind \in {"item", "hole"}

-----------------------------------------------------------------------------
(* A flow: node[n] with its type and settings; data connections from an    *)
(* output to an input, with what a path on them finds; trigger connections *)
(* from done to after.                                                     *)

Nodes(f) == DOMAIN f.node
Ins(f, n)  == {e \in f.data : e.to = n}
Outs(f, n) == {e \in f.data : e.from = n}
InPorts(f, n) == {e.in : e \in Ins(f, n)}
Triggers(f, n) == {t \in f.trig : t.to = n}
Links(f) == {<<e.from, e.to>> : e \in f.data} \cup {<<t.from, t.to>> : t \in f.trig}

\* node_ports: how many inputs a block has, and which outputs.
PortsIn(cfg) ==
  CASE cfg.type = "request" -> (IF cfg.useEach THEN {0} ELSE {}) \cup 1 .. cfg.inputs
    [] cfg.type = "mixer" -> 1 .. cfg.inputs
    [] cfg.type = "generator" -> 1 .. Min({cfg.inputs, 1})
    [] OTHER -> {1}
PortsOut(cfg) ==
  CASE cfg.type \in {"arrayEmit", "accumulator"} -> {1, 2}
    [] cfg.type \in {"request", "splitter"} -> 1 .. cfg.outputs
    [] OTHER -> {1}

ExistingPorts(f) ==
  \A e \in f.data : /\ e.from \in Nodes(f) /\ e.to \in Nodes(f)
                    /\ e.out \in PortsOut(f.node[e.from]) /\ e.in \in PortsIn(f.node[e.to])

\* An input takes one connection at most; an output may fan out.
SingleConnections(f) ==
  \A d, e \in f.data : d.to = e.to /\ d.in = e.in => d = e

\* _topo_cycle: what is left when nodes without predecessors are taken away
\* one after the other has a cycle.
Acyclic(f) ==
  \A S \in SUBSET Nodes(f) \ {{}} :
    \E n \in S : \A m \in S : <<m, n>> \notin Links(f)

\* An arrayEmit without a connected array has a static one, not too long.
StaticArrays(f) ==
  \A n \in Nodes(f) :
    f.node[n].type = "arrayEmit" /\ Ins(f, n) = {} => f.node[n].len \in 0 .. EmitMax
\* A mixer has two inputs, a splitter an output.
EnoughRows(f) ==
  \A n \in Nodes(f) : /\ f.node[n].type = "mixer" => f.node[n].inputs >= 2
                      /\ f.node[n].type = "splitter" => f.node[n].outputs >= 1

\* validate_flow_v2: the errors for which a run is refused.
Valid(f) ==
  /\ ExistingPorts(f) /\ SingleConnections(f) /\ Acyclic(f)
  /\ StaticArrays(f) /\ EnoughRows(f)

-----------------------------------------------------------------------------
(* One tuple.  values[i] is the message at input i.                        *)

Holes(values) == {i \in DOMAIN values : values[i].kind = "hole"}
\* _first_hole: by name.
FirstHole(values) == values[Min(Holes(values))]

\* What an arrayEmit repeats: its input, or the static array.
Emitted(cfg, values) == IF DOMAIN values = {} THEN cfg.len ELSE values[1].value.len
\* The tag a computed item carries on: that of its first input.
TagOf(values) == IF DOMAIN values = {} THEN 0 ELSE values[Min(DOMAIN values)].value.tag

\* How many items an arrayEmit adds to what it emitted.
Amount(f, n, values) ==
  IF f.node[n].type = "arrayEmit" /\ Holes(values) = {} /\ Emitted(f.node[n], values) # Scalar
  THEN Emitted(f.node[n], values) ELSE 0

\* The messages a tuple puts on output p; fine tells whether the request or
\* the generator succeeded.  A hole keeps its place, so branches stay aligned.
MadeOf(f, n, p, values, fine) ==
  LET cfg == f.node[n] IN
  CASE cfg.type = "accumulator" -> <<>>
    [] cfg.type # "accumulator" /\ Holes(values) # {} -> <<FirstHole(values)>>
    [] cfg.type \in {"request", "generator"} /\ Holes(values) = {} ->
         <<IF fine THEN Item(Value(cfg.len, TagOf(values))) ELSE Hole(n)>>
    [] cfg.type = "delay" /\ Holes(values) = {} ->
         IF DOMAIN values = {} THEN <<>> ELSE <<Item(values[1].value)>>
    [] cfg.type = "arrayEmit" /\ Holes(values) = {} ->
         IF Emitted(cfg, values) = Scalar THEN <<Hole(n)>>
         ELSE [k \in 1 .. Emitted(cfg, values) |-> Item(Value(Scalar, k))]
    [] cfg.type = "splitter" /\ Holes(values) = {} ->
         <<IF p \in cfg.misses THEN Hole(n) ELSE Item(Value(Scalar, TagOf(values)))>>
    [] cfg.type = "mixer" /\ Holes(values) = {} -> <<Item(Value(Scalar, TagOf(values)))>>

\* Under which count the node books the tuple.
Booked(f, n, values, fine) ==
  LET cfg == f.node[n] IN
  CASE Holes(values) # {} -> "skipped"
    [] cfg.type \in {"request", "generator"} /\ ~fine -> "failed"
    [] cfg.type = "arrayEmit" /\ Emitted(cfg, values) = Scalar -> "failed"
    [] cfg.type = "splitter" /\ cfg.misses # {} -> "failed"
    [] OTHER -> "ok"

\* A path on a connection may find nothing in an item.
Along(e, message) ==
  IF message.kind = "item" /\ e.path = "misses"
  THEN At(Hole(e.from), message.index) ELSE message
=============================================================================
