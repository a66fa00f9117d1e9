------------------------------ MODULE MC_FlowV2 ------------------------------
(* Instances of FlowMeaning: some flows chosen for what happens in them, and *)
(* every wiring of three nodes over a few connections.                       *)
EXTENDS FlowMeaning

Block(type, ins, outs) ==
  [type |-> type, inputs |-> ins, outputs |-> outs, len |-> Scalar, misses |-> {}, attempts |-> 1,
   useEach |-> FALSE]
Request(attempts) == [Block("request", 1, 1) EXCEPT !.attempts = attempts]
Emitter(len) == [Block("arrayEmit", 1, 2) EXCEPT !.len = len]
Data(from, out, to, in) == [from |-> from, out |-> out, to |-> to, in |-> in, path |-> "none"]
Missing(e) == [e EXCEPT !.path = "misses"]
Flow(nodes, data, trig) == [node |-> nodes, data |-> data, trig |-> trig]

\* Two items fork, one branch through a retried request, and join again.
Diamond == Flow(<<Emitter(2), Request(2), Block("mixer", 2, 1), Block("accumulator", 1, 2)>>,
  {Data(1, 1, 2, 1), Data(2, 1, 3, 1), Data(1, 1, 3, 2), Data(3, 1, 4, 1)}, {})
\* A barrier beside a data connection: the whole stream waits in the queue.
Barrier == Flow(<<Emitter(2), Block("accumulator", 1, 2), Block("mixer", 2, 1)>>,
  {Data(1, 1, 2, 1), Data(1, 2, 3, 1), Data(2, 2, 3, 2)}, {Trigger(2, 3)})
\* Streams of different lengths meet; a single value would be latched.
Unequal(k) == Flow(<<Emitter(2), Emitter(k), Block("mixer", 2, 1), Block("delay", 1, 1)>>,
  {Data(1, 1, 3, 1), Data(2, 1, 3, 2), Data(3, 1, 4, 1)}, {})
\* An array from a request, too long for the limit with the second tuple.
Nested(len) == Flow(<<Emitter(2), [Request(1) EXCEPT !.len = len], Block("arrayEmit", 1, 2),
                      Block("accumulator", 1, 2)>>,
  {Data(1, 1, 2, 1), Data(2, 1, 3, 1), Data(3, 2, 4, 1)}, {})
\* Failures that go on by trigger, past a node that has nothing to do with them.
Chain == Flow(<<Emitter(2), [Block("splitter", 1, 2) EXCEPT !.misses = {2}], Block("mixer", 2, 1),
                Block("generator", 0, 1), Request(1)>>,
  {Missing(Data(1, 1, 2, 1)), Data(2, 1, 3, 1), Data(4, 1, 3, 2)}, {Trigger(2, 4), Trigger(4, 5)})
Twice == Flow(<<Emitter(1), Emitter(3), Block("mixer", 2, 1), Block("delay", 1, 1), Request(1)>>,
  {Data(1, 1, 3, 1), Data(2, 1, 3, 2)}, {Trigger(3, 4), Trigger(1, 5), Trigger(4, 5)})
\* Graphs the validation refuses.
Circle == Flow(<<Emitter(1), Request(1), Block("mixer", 2, 1)>>,
  {Data(1, 1, 3, 1), Data(3, 1, 2, 1), Data(2, 1, 3, 2)}, {})
Wait == Flow(<<Request(1), Request(1)>>, {Data(1, 1, 2, 1)}, {Trigger(2, 1)})

\* Flows of earlier versions.  Two duplicators in a row and one beside them that
\* waits; old names, `each` wired, a block of no type.
Duplicator(outs) == Block("duplicator", 1, outs)
Copies == Flow(<<Emitter(2), Duplicator(2), Request(1), Duplicator(1), Block("mixer", 2, 1),
                 Block("generator", 0, 1)>>,
  {Missing(Data(1, 1, 2, 1)), Data(2, 1, 4, 1), Data(2, 2, 5, 1), Data(4, 1, 5, 2)},
  {Trigger(3, 4), Trigger(4, 6)})
Waiting == Flow(<<Request(1), Request(1), Duplicator(2), Block("accumulator", 1, 2), Request(1), Emitter(2)>>,
  {Data(6, 1, 3, 1), Data(3, 1, 4, 1), Data(3, 2, 5, 1)}, {Trigger(1, 3), Trigger(4, 2)})
Older == Flow(<<Emitter(2), [Block("demux", 1, 2) EXCEPT !.misses = {2}], Block("mux", 2, 1),
                Request(1), Block("teleporter", 1, 1)>>,
  {Data(1, 1, 2, 1), Data(2, 1, 3, 1), Data(2, 2, 3, 2), Data(3, 1, 4, 0), Data(4, 1, 5, 1)},
  {Trigger(5, 1)})
\* A duplicator that waits for a mixer that fails, and is waited for.
Gated == Flow(<<Emitter(2), Emitter(3), Block("mixer", 2, 1), Duplicator(1), Request(1)>>,
  {Data(1, 1, 3, 1), Data(2, 1, 3, 2), Data(1, 1, 4, 1)}, {Trigger(3, 4), Trigger(4, 5)})
MCGated == {Gated}

Some == {Copies, Waiting, Older, Diamond, Barrier, Unequal(0), Unequal(1), Unequal(3), Nested(1), Nested(2), Chain, Twice,
         Circle, Wait}

\* Three nodes wired in every way.
Wires == {Data(1, 1, 2, 1), Data(1, 1, 3, 1), Missing(Data(1, 2, 3, 2)), Data(2, 1, 3, 1),
          Data(2, 1, 3, 2), Data(3, 1, 2, 1)}
Starts == {Trigger(1, 2), Trigger(2, 3), Trigger(3, 1)}
Wirings == {Flow(<<Emitter(2), Request(1), Block("mixer", 2, 1)>>, data, trig) :
              data \in SUBSET Wires, trig \in SUBSET Starts}

MCFlows == Some \cup Wirings
=============================================================================
