---------------------------- MODULE ScriptRunner ----------------------------
(***************************************************************************)
(* Runs of a workspace script: the sidecar's streaming handler with one    *)
(* process entry per session (local_sidecar.py, run_local_script_direct,   *)
(* stop_workspace_script) and the app's Run and Stop (useScriptRunner.ts). *)
(* The session is one; a run's number orders the clicks.                   *)
(***************************************************************************)
EXTENDS Integers, FiniteSets

CONSTANTS MaxRuns, MaxStops, MaxPageLoads
ASSUME ScriptAssumption == MaxRuns \in Nat /\ MaxStops \in Nat /\ MaxPageLoads \in Nat

VARIABLES
  scripts,         \* run -> its handler and its process
  entry,           \* _running_processes of the session, or 0
  stopRequests,    \* POSTs of Stop: number -> where it is
  reader,          \* the run the page reads, or 0
  stopped,         \* runs Stop was clicked for while the page read them
  pageLoads

scriptVars == <<scripts, entry, stopRequests, reader, stopped, pageLoads>>

ScriptRuns == 1 .. MaxRuns
NoScript == [at |-> "none", process |-> "none", heard |-> FALSE]
ScriptsInit ==
  /\ scripts = [r \in ScriptRuns |-> NoScript] /\ entry = 0
  /\ stopRequests = [k \in {} |-> 0] /\ reader = 0 /\ stopped = {} /\ pageLoads = 0

Alive(r) == scripts[r].process = "alive"

\* handleRunScript: the button is Run as long as no run is read.
RunClicked(r) ==
  /\ reader = 0 /\ scripts[r] = NoScript /\ \A q \in 1 .. r - 1 : scripts[q] # NoScript
  /\ scripts' = [scripts EXCEPT ![r] = [at |-> "starts", process |-> "none", heard |-> TRUE]]
  /\ reader' = r
  /\ UNCHANGED <<entry, stopRequests, stopped, pageLoads>>

\* Once the process is there, it takes the session's entry, whosever that was.
ProcessStarts(r) ==
  /\ scripts[r].at = "starts"
  /\ scripts' = [scripts EXCEPT ![r].at = "streams", ![r].process = "alive"]
  /\ entry' = r
  /\ UNCHANGED <<stopRequests, reader, stopped, pageLoads>>

ProcessExits(r) ==
  /\ Alive(r) /\ scripts' = [scripts EXCEPT ![r].process = "ended"]
  /\ UNCHANGED <<entry, stopRequests, reader, stopped, pageLoads>>

\* Deviation: an orphan is left to itself.
LeftRunning(r) == scripts[r].process
\* process.terminate().
Terminated(r) == "ended"
\* The finally: the session's entry goes, even if it is a later run's.
Finally(r) ==
  /\ scripts' = [scripts EXCEPT ![r] = [at |-> "over", process |-> IF Alive(r) THEN Terminated(r) ELSE @.process,
                                        heard |-> FALSE]]
  /\ entry' = 0

\* The stream ends with the process, and so does the reading; or the handler is
\* cancelled because nobody listens any more.
StreamEnds(r) ==
  /\ scripts[r].at = "streams" /\ scripts[r].process = "ended" /\ Finally(r)
  /\ reader' = IF reader = r THEN 0 ELSE reader
  /\ UNCHANGED <<stopRequests, stopped, pageLoads>>
StreamCancelled(r) ==
  /\ scripts[r].at = "streams" /\ ~scripts[r].heard /\ Finally(r)
  /\ UNCHANGED <<stopRequests, reader, stopped, pageLoads>>
\* Cancelled while the process is being made: asyncio takes it back.
StartCancelled(r) ==
  /\ scripts[r].at = "starts" /\ ~scripts[r].heard
  /\ scripts' = [scripts EXCEPT ![r].at = "over"] /\ entry' = 0
  /\ UNCHANGED <<stopRequests, reader, stopped, pageLoads>>

StopPosted ==
  /\ Cardinality(DOMAIN stopRequests) < MaxStops
  /\ stopRequests' = [k \in DOMAIN stopRequests \cup {Cardinality(DOMAIN stopRequests) + 1} |->
                        IF k \in DOMAIN stopRequests THEN stopRequests[k] ELSE [at |-> "sent", run |-> 0]]
\* handleStopScript: the reader is cancelled, and the page can run again; then
\* the sidecar is asked, which is all as long as there is no response to read.
StopClicked ==
  /\ reader # 0 /\ StopPosted
  /\ \/ /\ scripts' = [scripts EXCEPT ![reader].heard = FALSE]
        /\ stopped' = stopped \cup {reader} /\ reader' = 0
     \/ scripts[reader].at = "starts" /\ UNCHANGED <<scripts, stopped, reader>>
  /\ UNCHANGED <<entry, pageLoads>>
\* stop_workspace_script: SIGTERM, half a second, and the entry goes, whosever
\* it is by then.
StopServed(k) ==
  /\ k \in DOMAIN stopRequests /\ stopRequests[k].at = "sent"
  /\ stopRequests' = [stopRequests EXCEPT ![k] = [at |-> IF entry = 0 THEN "over" ELSE "waits", run |-> entry]]
  /\ scripts' = IF entry # 0 /\ Alive(entry) THEN [scripts EXCEPT ![entry].process = "ended"] ELSE scripts
  /\ UNCHANGED <<entry, reader, stopped, pageLoads>>
StopOver(k) ==
  /\ k \in DOMAIN stopRequests /\ stopRequests[k].at = "waits"
  /\ stopRequests' = [stopRequests EXCEPT ![k].at = "over"] /\ entry' = 0
  /\ UNCHANGED <<scripts, reader, stopped, pageLoads>>

\* The page goes: on navigation the stream is drained unseen, on a reload the
\* connection closes.
PageLeft(reloaded) ==
  /\ reader # 0 /\ pageLoads < MaxPageLoads /\ pageLoads' = pageLoads + 1 /\ reader' = 0
  /\ scripts' = [scripts EXCEPT ![reader].heard = ~reloaded]
  /\ UNCHANGED <<entry, stopRequests, stopped>>

ScriptsNext ==
  \/ \E r \in ScriptRuns : \/ RunClicked(r) \/ ProcessStarts(r) \/ ProcessExits(r)
                           \/ StreamEnds(r) \/ StreamCancelled(r) \/ StartCancelled(r)
  \/ \E k \in 1 .. MaxStops : StopServed(k) \/ StopOver(k)
  \/ StopClicked \/ PageLeft(TRUE) \/ PageLeft(FALSE)

\* The sidecar serves; a script need not end by itself.
ScriptsServed ==
  \/ \E r \in ScriptRuns : ProcessStarts(r) \/ StreamEnds(r) \/ StreamCancelled(r)
  \/ \E k \in 1 .. MaxStops : StopServed(k) \/ StopOver(k)
ScriptsSpec == ScriptsInit /\ [][ScriptsNext]_scriptVars /\ WF_scriptVars(ScriptsServed)

-----------------------------------------------------------------------------
ScriptsTypeOK ==
  /\ entry \in 0 .. MaxRuns /\ reader \in 0 .. MaxRuns
  /\ \A r \in ScriptRuns :
       /\ scripts[r].at \in {"none", "starts", "streams", "over"}
       /\ scripts[r].process \in {"none", "alive", "ended"}
       /\ scripts[r].at = "over" => ~Alive(r)

\* Stop stops the run it was clicked for, though the entry it is found by may be
\* another run's, or gone with another run's cleanup.
StopStops == \A r \in ScriptRuns : (r \in stopped) ~> ~Alive(r)
=============================================================================
