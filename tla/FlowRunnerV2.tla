----------------------------- MODULE FlowRunnerV2 -----------------------------
(***************************************************************************)
(* A run of a V2 flow (services/flow_runner_v2.py, run_flow): one task per *)
(* node, all at once.  A task is atomic between its awaits: on its trigger *)
(* gate, on the channel of each input in turn, on the executor and on a    *)
(* delay.  The watchdog may cancel the run at any moment.                  *)
(***************************************************************************)
EXTENDS FlowMigration

CONSTANTS
  Flows,        \* graphs a run may be asked for, old and invalid ones among them
  MaxTuples,    \* bound on the tuples whose outcome is chosen
  Deadline      \* whether the run may time out

VARIABLES
  flow,
  fails,        \* fails[n][i]: how many attempts at tuple i do not succeed
  chan,         \* _Channel per data connection: all that was pushed on it
  taken,        \* how much of it the target has taken from the queue
  sent,         \* out_counters: sent[n][p] positions pushed on an output
  gate,         \* gates: triggers still to fire, or released as a skip
  pc, round,    \* where a task is; the tuple it is collecting or working on
  input,        \* the joiner's record of each input
  counts, status, cancelled

outVars == <<chan, sent, gate, counts, status>>
vars == <<flow, fails, chan, taken, sent, gate, pc, round, input, counts, status, cancelled>>

Node == Nodes(flow)
Cfg(n) == flow.node[n]
Attempts(n) == Cfg(n).attempts
Done == \A n \in Node : pc[n] = "ended"

NoInput == [first |-> NoMessage, latched |-> FALSE, ended |-> FALSE]
NoCounts == [ok |-> 0, failed |-> 0, skipped |-> 0, emitted |-> 0]
NoRound == [index |-> 0, pending |-> {}, values |-> [i \in {} |-> NoMessage], attempt |-> 1]

\* run_flow migrates the flow, refuses an invalid graph and creates the tasks of
\* a valid one.
Init ==
  /\ flow \in {f \in {Migrated(g) : g \in Flows} : Valid(f)}
  /\ LET may == {n \in Node : Cfg(n).type \in {"request", "generator"}} IN
     fails \in [may -> [0 .. MaxTuples - 1 -> {0, Max({Attempts(n) : n \in Node})}]]
  /\ chan = [e \in flow.data |-> <<>>]
  /\ taken = [e \in flow.data |-> 0]
  /\ sent = [n \in Node |-> [p \in PortsOut(Cfg(n)) |-> 0]]
  /\ gate = [n \in Node |-> [left |-> Cardinality(Triggers(flow, n)), skip |-> FALSE]]
  /\ pc = [n \in Node |-> "gated"]
  /\ round = [n \in Node |-> NoRound]
  /\ input = [n \in Node |-> [i \in InPorts(flow, n) |-> NoInput]]
  /\ counts = [n \in Node |-> NoCounts]
  /\ status = [n \in Node |-> "running"]
  /\ cancelled = FALSE

-----------------------------------------------------------------------------
(* What a task tells the others.                                           *)

Nothing(n) == [p \in PortsOut(Cfg(n)) |-> <<>>]

\* Deviation: the items of every tuple are numbered from the start.
NumberedAnew(n, p, made) == [k \in DOMAIN made |-> At(made[k], k - 1)]

\* One counter per output, so that every branch sees the same positions.
Numbered(n, p, made) == [k \in DOMAIN made |-> At(made[k], sent[n][p] + k - 1)]

\* push_msg, close_all, abort_all: the messages made, then how the streams go on.
Send(n, made, how) ==
  LET new(p) == Numbered(n, p, made[p])
      last(p) == CASE how = "open"  -> <<>>
                   [] how = "eos"   -> <<EndOfStream(sent[n][p] + Len(made[p]))>>
                   [] how = "abort" -> <<Abort>>
  IN /\ sent' = [sent EXCEPT ![n] = [p \in DOMAIN @ |-> @[p] + Len(made[p])]]
     /\ chan' = [e \in DOMAIN chan |->
          IF e.from # n THEN chan[e]
          ELSE chan[e] \o [k \in DOMAIN new(e.out) |-> Along(e, new(e.out)[k])] \o last(e.out)]

Open(n) == gate[n].left = 0 \/ gate[n].skip

\* Deviation: a node that fails leaves the gates behind it waiting.
ReleaseIfDone(n, done) ==
  gate' = [m \in Node |->
    IF ~done \/ Open(m) \/ \A t \in Triggers(flow, m) : t.from # n THEN gate[m]
    ELSE [gate[m] EXCEPT !.left = @ - 1]]

\* fire_done, fail_done: a gate that is open already ignores both.
Release(n, done) ==
  gate' = [m \in Node |->
    IF Open(m) \/ \A t \in Triggers(flow, m) : t.from # n THEN gate[m]
    ELSE IF done THEN [gate[m] EXCEPT !.left = @ - 1] ELSE [gate[m] EXCEPT !.skip = TRUE]]

\* How the streams of a node close.
Closing(how, count) == IF how = "ok" THEN "eos" ELSE "abort"

\* finish_ok, finish_hard, finish_skipped and the two except branches.
Ends(n, made, count, how) ==
  /\ Send(n, made, Closing(how, count))
  /\ status' = [status EXCEPT ![n] =
       CASE how # "ok" -> how
         [] how = "ok" /\ count.failed > 0 -> "partial"
         [] how = "ok" /\ count.failed = 0 -> "success"]
  /\ counts' = [counts EXCEPT ![n] = count]
  /\ Release(n, how = "ok")
  /\ pc' = [pc EXCEPT ![n] = "ended"]

\* An accumulator pushes its array and its count when its input has ended.
Completing(n, made, count) ==
  IF Cfg(n).type = "accumulator"
  THEN [p \in {1, 2} |-> <<Item(Value(IF p = 1 THEN count.ok ELSE Scalar, 0))>>]
  ELSE made

-----------------------------------------------------------------------------
(* The loop over tuples.  in is the joiner's record after the step's read. *)

Reading(in) == {i \in DOMAIN in : ~in[i].latched /\ ~in[i].ended}
Latched(in) == [i \in {j \in DOMAIN in : in[j].latched} |-> in[i].first]

\* A tuple is booked; then the top of the loop: cancelled, at the end, or on.
Processed(n, values, fine, in) ==
  LET made == [p \in PortsOut(Cfg(n)) |-> MadeOf(flow, n, p, values, fine)]
      count == [counts[n] EXCEPT ![Booked(flow, n, values, fine)] = @ + 1,
                                 !.emitted = @ + Amount(flow, n, values)]
  IN /\ input' = [input EXCEPT ![n] = in]
     /\ \/ cancelled /\ Ends(n, made, count, "failed") /\ UNCHANGED round
        \/ /\ ~cancelled /\ Reading(in) = {}
           /\ Ends(n, Completing(n, made, count), count, "ok") /\ UNCHANGED round
        \/ /\ ~cancelled /\ Reading(in) # {}
           /\ Send(n, made, "open")
           /\ counts' = [counts EXCEPT ![n] = count]
           /\ pc' = [pc EXCEPT ![n] = "reading"]
           /\ round' = [round EXCEPT ![n] = [index |-> @.index + 1, pending |-> Reading(in),
                                             values |-> Latched(in), attempt |-> 1]]
           /\ UNCHANGED <<gate, status>>

\* Whether the attempt under way, or what has none, succeeds.
Fine(n) == n \in DOMAIN fails => round[n].attempt > fails[n][round[n].index]

\* A tuple is there: the executor is called, a delay begins, or it is done with.
Take(n, values, in) ==
  LET waits == Cfg(n).type \in {"request", "delay"} /\ Holes(values) = {}
      tooMany == counts[n].emitted + Amount(flow, n, values) > EmitMax
  IN \/ /\ tooMany
        /\ Ends(n, Nothing(n), counts[n], "failed")
        /\ input' = [input EXCEPT ![n] = in] /\ UNCHANGED round
     \/ /\ waits /\ ~(cancelled /\ Cfg(n).type = "delay")
        /\ pc' = [pc EXCEPT ![n] = IF Cfg(n).type = "request" THEN "executing" ELSE "delaying"]
        /\ round' = [round EXCEPT ![n].values = values, ![n].pending = {}]
        /\ input' = [input EXCEPT ![n] = in]
        /\ UNCHANGED outVars
     \/ /\ waits /\ cancelled /\ Cfg(n).type = "delay"
        /\ Ends(n, Nothing(n), counts[n], "failed")
        /\ input' = [input EXCEPT ![n] = in] /\ UNCHANGED round
     \/ /\ ~waits /\ ~tooMany
        /\ Processed(n, values, Fine(n), in)

\* The gate opens: the task begins, unless upstream failed or the run is over.
Start(n) ==
  /\ pc[n] = "gated" /\ Open(n)
  /\ \/ /\ gate[n].skip \/ cancelled
        /\ Ends(n, Nothing(n), NoCounts, "skipped")
        /\ UNCHANGED <<round, input>>
     \/ /\ ~gate[n].skip /\ ~cancelled /\ DOMAIN input[n] = {}
        /\ Take(n, round[n].values, input[n])
     \/ /\ ~gate[n].skip /\ ~cancelled /\ DOMAIN input[n] # {}
        /\ pc' = [pc EXCEPT ![n] = "reading"]
        /\ round' = [round EXCEPT ![n].pending = DOMAIN input[n]]
        /\ UNCHANGED <<outVars, input>>
  /\ UNCHANGED <<flow, fails, taken, cancelled>>

\* Every input has answered: a tuple, the end, or inputs of unequal length.
Judge(n, values, in) ==
  LET exhausted == {i \in DOMAIN in : in[i].ended /\ ~in[i].latched}
      fresh == {i \in DOMAIN values : ~in[i].latched}
  IN \/ /\ fresh = {}
        /\ Ends(n, Completing(n, Nothing(n), counts[n]), counts[n], "ok")
        /\ input' = [input EXCEPT ![n] = in] /\ UNCHANGED round
     \/ /\ fresh # {} /\ exhausted # {}
        /\ Ends(n, Nothing(n), counts[n], "failed")
        /\ input' = [input EXCEPT ![n] = in] /\ UNCHANGED round
     \/ fresh # {} /\ exhausted = {} /\ Take(n, values, in)

\* Deviation: an input that ends after one value is exhausted like any other.
JoinedUnlatched(in, message) ==
  CASE IsValue(message) -> [in EXCEPT !.first = IF @ = NoMessage THEN message ELSE @]
    [] ~IsValue(message) -> [in EXCEPT !.ended = TRUE]

\* _Joiner.next: one message of the next input in the order of names.  An input
\* that ends after one value is latched: every later tuple reuses it.
Joined(in, message) ==
  CASE IsValue(message) -> [in EXCEPT !.first = IF @ = NoMessage THEN message ELSE @]
    [] ~IsValue(message) ->
         [in EXCEPT !.ended = TRUE, !.latched = message.index = 1 /\ in.first # NoMessage]

Read(n) ==
  \E e \in Ins(flow, n) :
    LET message == chan[e][taken[e] + 1]
        in == [input[n] EXCEPT ![e.in] = Joined(@, message)]
        values == IF IsValue(message) THEN (e.in :> message) @@ round[n].values
                  ELSE IF in[e.in].latched THEN (e.in :> in[e.in].first) @@ round[n].values
                  ELSE round[n].values
        rest == round[n].pending \ {e.in}
    IN /\ pc[n] = "reading" /\ e.in = Min(round[n].pending)
       /\ taken[e] < Len(chan[e])
       /\ taken' = [taken EXCEPT ![e] = @ + 1]
       /\ \/ /\ message.kind = "abort"
             /\ Ends(n, Nothing(n), counts[n], "skipped") /\ UNCHANGED <<round, input>>
          \/ /\ message.kind # "abort" /\ rest # {} /\ cancelled
             /\ Ends(n, Nothing(n), counts[n], "failed") /\ UNCHANGED <<round, input>>
          \/ /\ message.kind # "abort" /\ rest # {} /\ ~cancelled
             /\ round' = [round EXCEPT ![n].pending = rest, ![n].values = values]
             /\ input' = [input EXCEPT ![n] = in]
             /\ UNCHANGED <<outVars, pc>>
          \/ message.kind # "abort" /\ rest = {} /\ Judge(n, values, in)
       /\ UNCHANGED <<flow, fails, cancelled>>

\* Of a request: whether it may be tried again, and whether the run is over.
LastAttempt(n) == round[n].attempt = Attempts(n)
CalledOff(n) == cancelled

\* The executor answers.  It is not interrupted, so a cancelled run learns of
\* it here; without a verified response the request is tried again, if it may.
Execute(n) ==
  /\ pc[n] = "executing"
  /\ \/ /\ CalledOff(n)
        /\ Ends(n, Nothing(n), counts[n], "failed") /\ UNCHANGED <<round, input>>
     \/ /\ ~CalledOff(n) /\ (Fine(n) \/ LastAttempt(n))
        /\ Processed(n, round[n].values, Fine(n), input[n])
     \/ /\ ~CalledOff(n) /\ ~Fine(n) /\ ~LastAttempt(n)
        /\ pc' = [pc EXCEPT ![n] = "retrying"]
        /\ UNCHANGED <<outVars, round, input>>
  /\ UNCHANGED <<flow, fails, taken, cancelled>>

\* _cancellable_delay over: the interval before the next attempt, or a delay
\* block.  The timer and the deadline may both be due: either may win.
WakeUp(n) ==
  /\ \/ /\ pc[n] = "retrying"
        /\ pc' = [pc EXCEPT ![n] = "executing"]
        /\ round' = [round EXCEPT ![n].attempt = @ + 1]
        /\ UNCHANGED <<outVars, input>>
     \/ pc[n] = "delaying" /\ Processed(n, round[n].values, TRUE, input[n])
  /\ UNCHANGED <<flow, fails, taken, cancelled>>

\* FlowCancelledError where a task waits; a message that is there wins.
Raise(n) ==
  /\ cancelled
  /\ \/ pc[n] \in {"retrying", "delaying"}
     \/ pc[n] = "reading" /\ \A e \in Ins(flow, n) :
          e.in = Min(round[n].pending) => taken[e] = Len(chan[e])
  /\ Ends(n, Nothing(n), counts[n], "failed")
  /\ UNCHANGED <<flow, fails, taken, round, input, cancelled>>

\* timeout_watchdog.
TimeOut ==
  /\ Deadline /\ ~cancelled /\ ~Done
  /\ cancelled' = TRUE
  /\ UNCHANGED <<flow, fails, chan, taken, sent, gate, pc, round, input, counts, status>>

Step(n) == Start(n) \/ Read(n) \/ Execute(n) \/ WakeUp(n) \/ Raise(n)
Next == TimeOut \/ \E n \in Node : Step(n)

\* The loop runs every task that can go on; the executor has its own timeout.
Fairness == \A n \in UNION {Nodes(f) : f \in Flows} : WF_vars(n \in Node /\ Step(n))
Spec == Init /\ [][Next]_vars /\ Fairness

\* The status the summary gives the run.
RunStatus ==
  CASE cancelled -> "cancelled"
    [] ~cancelled /\ \E n \in Node : status[n] \in {"failed", "partial"} -> "failed"
    [] OTHER -> "success"
=============================================================================
