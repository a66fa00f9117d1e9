--------------------------- MODULE SidecarProofs ----------------------------
(***************************************************************************)
(* What holds on one computer: of the history of runs and of the           *)
(* workspace's files, which the sidecar keeps, and of the launcher, which  *)
(* starts the sidecar.                                                     *)
(***************************************************************************)
EXTENDS FlowRunHistory, Launcher, WorkspaceFiles, TLAPS

-----------------------------------------------------------------------------
(***************************************************************************)
(* That the history of runs says "running" of what runs and of nothing     *)
(* else, for any number of runs and any size of the history.               *)
(*                                                                         *)
(* Two facts make it inductive: a run's number is new when its row is      *)
(* written, and no run is under way in a sidecar that is down.  The rest   *)
(* is what the operations on the table do to its running rows: pruning     *)
(* leaves them alone and finalizing takes one away.                        *)
(***************************************************************************)

Row == [status : {"running", "success", "failed", "cancelled"}, report : BOOLEAN, started : Int]
Run == [tracked : BOOLEAN, started : Int]
Running(rows) == {r \in DOMAIN rows : rows[r].status = "running"}
Tracked == {r \in DOMAIN agentRuns : agentRuns[r].tracked}

NumbersAreUsed ==
  /\ historyClock \in Nat
  /\ DOMAIN historyRows \subseteq 1 .. historyClock /\ DOMAIN agentRuns \subseteq 1 .. historyClock

HistoryInv ==
  /\ sidecarUp \in BOOLEAN
  /\ historyRows \in [DOMAIN historyRows -> Row] /\ agentRuns \in [DOMAIN agentRuns -> Run]
  /\ NumbersAreUsed
  /\ ~sidecarUp => DOMAIN agentRuns = {}
  /\ RunningMeansRunning

-----------------------------------------------------------------------------
(* The operations on the table.                                            *)

LEMMA PrunedKeepsRunning ==
  ASSUME NEW rows, rows \in [DOMAIN rows -> Row], NEW after \in Pruned(rows)
  PROVE  /\ DOMAIN after \subseteq DOMAIN rows /\ after \in [DOMAIN after -> Row]
         /\ Running(after) = Running(rows)
<1>1. PICK S : after = Pruning(rows, S)
  BY DEF Pruned
<1> DEFINE K == DOMAIN rows \ {r \in DOMAIN rows \ S : rows[r].status # "running"}
<1>2. after = [x \in K |-> rows[x]]
  BY <1>1 DEF Pruning, Without
<1>3. K \subseteq DOMAIN rows /\ \A r \in DOMAIN rows : rows[r].status = "running" => r \in K
  OBVIOUS
<1>4. DOMAIN after = K /\ \A x \in K : after[x] = rows[x]
  BY <1>2
<1>5. after \in [DOMAIN after -> Row]
  BY <1>2, <1>3
<1> QED
  BY <1>3, <1>4, <1>5 DEF Running

LEMMA FinalizedEndsOne ==
  ASSUME NEW rows, rows \in [DOMAIN rows -> Row], NEW r, NEW outcome \in Outcomes, NEW started \in Int
  PROVE  LET after == Finalized(rows, r, outcome, started)
         IN /\ DOMAIN after = DOMAIN rows /\ after \in [DOMAIN after -> Row]
            /\ Running(after) = Running(rows) \ {r}
<1> DEFINE after == Finalized(rows, r, outcome, started)
<1>1. CASE r \notin DOMAIN rows
  BY <1>1 DEF Finalized, Running
<1>2. CASE r \in DOMAIN rows
  <2> DEFINE one == [rows EXCEPT ![r].status = outcome.status]
             two == [one EXCEPT ![r].report = outcome.report]
  <2>1. outcome.status \in {"success", "failed", "cancelled"} /\ outcome.report \in BOOLEAN
    <3>1. CASE outcome \in {[status |-> s, report |-> TRUE] : s \in {"success", "failed", "cancelled"}}
      <4>1. PICK s \in {"success", "failed", "cancelled"} : outcome = [status |-> s, report |-> TRUE]
        BY <3>1
      <4> QED
        BY <4>1
    <3>2. CASE outcome = [status |-> "failed", report |-> FALSE]
      BY <3>2
    <3> QED
      BY <3>1, <3>2 DEF Outcomes
  <2>2. /\ one \in [DOMAIN rows -> Row] /\ one[r].status = outcome.status
        /\ \A x \in DOMAIN rows \ {r} : one[x] = rows[x]
    BY <1>2, <2>1 DEF Row
  <2>3. /\ two \in [DOMAIN rows -> Row] /\ two[r].status = outcome.status
        /\ \A x \in DOMAIN rows \ {r} : two[x] = rows[x]
    <3> HIDE DEF one
    <3> QED
      BY <1>2, <2>1, <2>2 DEF Row
  <2>4. after = [two EXCEPT ![r].started = started]
    BY <1>2 DEF Finalized
  <2>5. /\ after \in [DOMAIN rows -> Row] /\ after[r].status = outcome.status
        /\ \A x \in DOMAIN rows \ {r} : after[x] = rows[x]
    <3> HIDE DEF two, after
    <3> QED
      BY <1>2, <2>3, <2>4 DEF Row
  <2>6. DOMAIN after = DOMAIN rows
    BY <2>5
  <2> HIDE DEF after
  <2> QED
    BY <1>2, <2>1, <2>5, <2>6 DEF after, Running
<1> QED
  BY <1>1, <1>2

LEMMA WithAddsOne ==
  ASSUME NEW rows, rows \in [DOMAIN rows -> Row], NEW r, r \notin DOMAIN rows, NEW row \in Row
  PROVE  LET after == With(rows, r, row)
         IN /\ DOMAIN after = DOMAIN rows \cup {r} /\ after \in [DOMAIN after -> Row]
            /\ Running(after) = IF row.status = "running" THEN Running(rows) \cup {r} ELSE Running(rows)
BY DEF With, Running

LEMMA FailedStaleLeavesNone ==
  ASSUME NEW rows, rows \in [DOMAIN rows -> Row]
  PROVE  LET after == FailedStale(rows)
         IN DOMAIN after = DOMAIN rows /\ after \in [DOMAIN after -> Row] /\ Running(after) = {}
<1> DEFINE after == FailedStale(rows)
<1>1. DOMAIN after = DOMAIN rows
  BY DEF FailedStale
<1>2. \A r \in DOMAIN rows : after[r] \in Row /\ after[r].status # "running"
  BY DEF FailedStale, Row
<1>3. after \in [DOMAIN after -> Row]
  BY <1>1, <1>2 DEF FailedStale
<1> QED
  BY <1>1, <1>2, <1>3 DEF Running

-----------------------------------------------------------------------------
(* The steps.                                                              *)

LEMMA HistoryStarts == HistoryInit => HistoryInv
BY DEF HistoryInit, HistoryInv, NumbersAreUsed, RunningMeansRunning, Empty

LEMMA AgentStartsKeeps ==
  ASSUME HistoryInv, NEW r \in HistoryRuns, AgentStarts(r)
  PROVE  HistoryInv'
<1>1. PICK tracked \in BOOLEAN :
        /\ agentRuns' = With(agentRuns, r, [tracked |-> tracked, started |-> historyClock])
        /\ historyRows' = IF tracked
             THEN With(historyRows, r, [status |-> "running", report |-> FALSE, started |-> historyClock])
             ELSE historyRows
  BY DEF AgentStarts
<1>2. r = historyClock + 1 /\ historyClock' = r /\ sidecarUp /\ sidecarUp' = sidecarUp
  BY DEF AgentStarts, NewRun
<1>3. historyClock \in Nat /\ r \notin DOMAIN historyRows /\ r \notin DOMAIN agentRuns
  BY <1>2 DEF HistoryInv, NumbersAreUsed
<1>4. /\ DOMAIN agentRuns' = DOMAIN agentRuns \cup {r} /\ agentRuns' \in [DOMAIN agentRuns' -> Run]
      /\ Tracked' = IF tracked THEN Tracked \cup {r} ELSE Tracked
  BY <1>1, <1>3 DEF With, HistoryInv, Run, Tracked
<1> DEFINE row == [status |-> "running", report |-> FALSE, started |-> historyClock]
<1>5. /\ DOMAIN historyRows' \subseteq DOMAIN historyRows \cup {r}
      /\ historyRows' \in [DOMAIN historyRows' -> Row]
      /\ Running(historyRows') = IF tracked THEN Running(historyRows) \cup {r} ELSE Running(historyRows)
  <2>1. row \in Row
    BY <1>3 DEF Row
  <2> HIDE DEF row
  <2>2. CASE tracked
    <3>1. historyRows' = With(historyRows, r, row) /\ row.status = "running"
      BY <1>1, <2>2 DEF row
    <3>2. historyRows \in [DOMAIN historyRows -> Row]
      BY DEF HistoryInv
    <3>3. /\ DOMAIN With(historyRows, r, row) = DOMAIN historyRows \cup {r}
          /\ With(historyRows, r, row) \in [DOMAIN With(historyRows, r, row) -> Row]
          /\ Running(With(historyRows, r, row)) = Running(historyRows) \cup {r}
      BY <1>3, <2>1, <3>1, <3>2, WithAddsOne
    <3> QED
      BY <2>2, <3>1, <3>3
  <2>3. CASE ~tracked
    BY <1>1, <2>3 DEF HistoryInv
  <2> QED
    BY <2>2, <2>3
<1>6. Running(historyRows) = Tracked
  BY <1>2 DEF HistoryInv, RunningMeansRunning, Running, Tracked
<1>7. NumbersAreUsed'
  BY <1>2, <1>3, <1>4, <1>5 DEF HistoryInv, NumbersAreUsed
<1>8. RunningMeansRunning'
  BY <1>4, <1>5, <1>6 DEF RunningMeansRunning, Running, Tracked
<1> QED
  BY <1>2, <1>4, <1>5, <1>7, <1>8 DEF HistoryInv

LEMMA AgentEndsKeeps ==
  ASSUME HistoryInv, NEW r \in HistoryRuns, AgentEnds(r)
  PROVE  HistoryInv'
<1>1. PICK outcome \in Outcomes, started \in {agentRuns[r].started, agentRuns[r].started + 1} :
        IF agentRuns[r].tracked
        THEN historyRows' \in Pruned(Finalized(historyRows, r, outcome, started))
        ELSE historyRows' = historyRows
  BY DEF AgentEnds
<1>2. /\ r \in DOMAIN agentRuns /\ agentRuns' = Without(agentRuns, {r})
      /\ historyClock' = historyClock /\ sidecarUp /\ sidecarUp' = sidecarUp
  BY DEF AgentEnds
<1>3. started \in Int
  BY <1>1, <1>2 DEF HistoryInv, Run
<1>4. /\ DOMAIN agentRuns' = DOMAIN agentRuns \ {r} /\ agentRuns' \in [DOMAIN agentRuns' -> Run]
      /\ Tracked' = Tracked \ {r}
  BY <1>2 DEF Without, HistoryInv, Run, Tracked
<1>5. /\ DOMAIN historyRows' \subseteq DOMAIN historyRows
      /\ historyRows' \in [DOMAIN historyRows' -> Row]
      /\ Running(historyRows') = IF agentRuns[r].tracked THEN Running(historyRows) \ {r} ELSE Running(historyRows)
  <2> DEFINE ended == Finalized(historyRows, r, outcome, started)
  <2>1. DOMAIN ended = DOMAIN historyRows /\ ended \in [DOMAIN ended -> Row] /\ Running(ended) = Running(historyRows) \ {r}
    BY <1>3, FinalizedEndsOne DEF HistoryInv
  <2> HIDE DEF ended
  <2>2. CASE agentRuns[r].tracked
    <3>1. historyRows' \in Pruned(ended)
      BY <1>1, <2>2 DEF ended
    <3> QED
      BY <2>1, <2>2, <3>1, PrunedKeepsRunning
  <2>3. CASE ~agentRuns[r].tracked
    BY <1>1, <2>3 DEF HistoryInv
  <2> QED
    BY <2>2, <2>3
<1>6. Running(historyRows) = Tracked
  BY <1>2 DEF HistoryInv, RunningMeansRunning, Running, Tracked
<1>7. NumbersAreUsed'
  BY <1>2, <1>4, <1>5 DEF HistoryInv, NumbersAreUsed
<1>8. Running(historyRows') = Tracked'
  BY <1>2, <1>4, <1>5, <1>6 DEF Tracked
<1>9. RunningMeansRunning'
  BY <1>8 DEF RunningMeansRunning, Running, Tracked
<1> QED
  BY <1>2, <1>4, <1>5, <1>7, <1>9 DEF HistoryInv

LEMMA RegisterKeeps ==
  ASSUME HistoryInv, NEW r \in HistoryRuns, Register(r)
  PROVE  HistoryInv'
<1>1. PICK s \in {"success", "failed", "cancelled"}, started \in 0 .. historyClock :
        historyRows' \in Pruned(With(historyRows, r, [status |-> s, report |-> TRUE, started |-> started]))
  BY DEF Register
<1>2. /\ r = historyClock + 1 /\ historyClock' = r /\ UNCHANGED <<agentRuns, sidecarUp>>
  BY DEF Register, NewRun
<1>3. historyClock \in Nat /\ r \notin DOMAIN historyRows
  BY <1>2 DEF HistoryInv, NumbersAreUsed
<1> DEFINE row == [status |-> s, report |-> TRUE, started |-> started]
           more == With(historyRows, r, row)
<1>4. row \in Row /\ row.status # "running"
  BY <1>2, <1>3 DEF Row
<1> HIDE DEF row
<1>5. /\ DOMAIN more = DOMAIN historyRows \cup {r} /\ more \in [DOMAIN more -> Row]
      /\ Running(more) = Running(historyRows)
  BY <1>3, <1>4, WithAddsOne DEF HistoryInv
<1>6. historyRows' \in Pruned(more)
  BY <1>1 DEF row
<1> HIDE DEF more
<1>7. /\ DOMAIN historyRows' \subseteq DOMAIN historyRows \cup {r}
      /\ historyRows' \in [DOMAIN historyRows' -> Row] /\ Running(historyRows') = Running(historyRows)
  BY <1>5, <1>6, PrunedKeepsRunning
<1>8. NumbersAreUsed'
  BY <1>2, <1>3, <1>7 DEF HistoryInv, NumbersAreUsed
<1>9. RunningMeansRunning'
  BY <1>2, <1>7 DEF HistoryInv, RunningMeansRunning, Running
<1> QED
  BY <1>2, <1>7, <1>8, <1>9 DEF HistoryInv

LEMMA HistorySteps == HistoryInv /\ [HistoryNext]_historyVars => HistoryInv'
<1> SUFFICES ASSUME HistoryInv, [HistoryNext]_historyVars PROVE HistoryInv'
  OBVIOUS
<1>1. CASE \E r \in HistoryRuns : AgentStarts(r) \/ AgentEnds(r) \/ Register(r)
  BY <1>1, AgentStartsKeeps, AgentEndsKeeps, RegisterKeeps
<1>2. CASE SidecarStops
  BY <1>2 DEF SidecarStops, Empty, HistoryInv, NumbersAreUsed, RunningMeansRunning
<1>3. CASE SidecarStarts
  <2>1. /\ DOMAIN historyRows' = DOMAIN historyRows /\ historyRows' \in [DOMAIN historyRows' -> Row]
        /\ Running(historyRows') = {}
    BY <1>3, FailedStaleLeavesNone DEF SidecarStarts, HistoryInv
  <2>2. DOMAIN agentRuns' = {} /\ agentRuns' = agentRuns /\ historyClock' = historyClock /\ sidecarUp'
    BY <1>3 DEF SidecarStarts, HistoryInv
  <2> QED
    BY <2>1, <2>2 DEF HistoryInv, NumbersAreUsed, RunningMeansRunning, Running
<1>4. CASE PollStarts \/ PollAnswered \/ PollFails \/ PollShown \/ UNCHANGED historyVars
  <2>1. UNCHANGED <<historyRows, agentRuns, historyClock, sidecarUp>>
    BY <1>4 DEF PollStarts, PollAnswered, PollFails, PollShown, historyVars
  <2> QED
    BY <2>1 DEF HistoryInv, NumbersAreUsed, RunningMeansRunning
<1> QED
  BY <1>1, <1>2, <1>3, <1>4 DEF HistoryNext

\* While the sidecar serves, the rows that say "running" are exactly those of the
\* runs under way, through restarts and however much is pruned meanwhile
\* (local_store.py, prune_flow_runs and fail_stale_flow_runs).
THEOREM RunningRowsRun == HistorySpec => []RunningMeansRunning
<1>1. HistoryInv => RunningMeansRunning
  BY DEF HistoryInv
<1> QED
  BY <1>1, HistoryStarts, HistorySteps, PTL DEF HistorySpec

-----------------------------------------------------------------------------
(***************************************************************************)
(* That a launch keeps track of its process and of its data, for any       *)
(* number of launches, on either kind of system, as long as moves succeed  *)
(* and the bootstrap is left to finish.                                    *)
(*                                                                         *)
(* LauncherKeepsTrack alone is not inductive: it says nothing of what      *)
(* stops before the next launch, nor of a process that is not serving yet. *)
(* What makes it so is that processes at work belong to the launch that is *)
(* running, and that a launch moves the data before it has a process.      *)
(***************************************************************************)

\* A process is of a launch that has been, and at work only for the one that runs.
ProcessesOfLaunches ==
  \A n \in Launches :
    /\ n > launches => processes[n] = "none"
    /\ processes[n] \in Bootstrapping => window = "running" /\ n = launches

\* Before a launch has a process, nothing has the port.
PortIsFree == window = "launching" => \A n \in Launches : processes[n] # "serving"

\* Only the process of the launch that runs serves.
ServedByItsOwn ==
  window = "running" => \A n \in Launches : processes[n] = "serving" => n = launches

\* The data of an older version has come along once a launch has a process.
DataCameAlong ==
  /\ upgrade => dataDir = "whole" \/ (legacyDir = "there" /\ dataDir = "none")
  /\ upgrade /\ window = "running" => dataDir = "whole"

LauncherInv ==
  /\ LauncherTypeOK /\ (window # "off" => launches \in Launches)
  /\ ProcessesOfLaunches /\ PortIsFree /\ ServedByItsOwn /\ DataCameAlong

-----------------------------------------------------------------------------
LEMMA LauncherStarts == LauncherInit => LauncherInv
<1> SUFFICES ASSUME LauncherInit PROVE LauncherInv
  OBVIOUS
<1>1. venv \in {"none", "ready"} /\ upgrade \in BOOLEAN
  BY DEF LauncherInit
<1>2. \A n \in Launches : processes[n] = "none"
  BY DEF LauncherInit
<1>3. LauncherTypeOK
  BY <1>1, LauncherAssumption DEF LauncherInit, LauncherTypeOK
<1>4. DataCameAlong
  BY DEF LauncherInit, DataCameAlong
<1> QED
  BY <1>2, <1>3, <1>4
  DEF LauncherInit, LauncherInv, ProcessesOfLaunches, PortIsFree, ServedByItsOwn, Bootstrapping

\* A step of one process.
LEMMA ProcessesKeepLauncherInv ==
  ASSUME Undisturbed, LauncherInv, NEW n \in Launches,
         BeginsVenv(n) \/ MakesVenv(n) \/ Installs(n) \/ Starts(n) \/ SidecarFails(n)
  PROVE  LauncherInv'
<1> USE LauncherAssumption DEF LauncherInv, LauncherTypeOK, ProcessesOfLaunches, PortIsFree,
      ServedByItsOwn, DataCameAlong, Bootstrapping, Becomes, ProcessOnly
<1>1. CASE BeginsVenv(n)
  BY <1>1 DEF BeginsVenv
<1>2. CASE MakesVenv(n)
  BY <1>2 DEF MakesVenv
<1>3. CASE Installs(n)
  BY <1>3 DEF Installs
<1>4. CASE Starts(n)
  BY <1>4 DEF Starts
<1>5. CASE SidecarFails(n)
  BY <1>5 DEF SidecarFails
<1> QED
  BY <1>1, <1>2, <1>3, <1>4, <1>5

LEMMA LauncherSteps ==
  ASSUME Undisturbed, LauncherInv, [LauncherNext]_launcherVars
  PROVE  LauncherInv'
<1> USE LauncherAssumption
<1>1. CASE Launch
  <2>1. launches' \in Launches /\ launches' > launches
    BY <1>1 DEF Launch, LauncherInv, LauncherTypeOK, Launches
  <2>2. \A n \in Launches : processes'[n] = IF processes[n] = "serving" THEN "ended" ELSE processes[n]
    BY <1>1 DEF Launch, StaleStopped, LauncherInv, LauncherTypeOK
  <2>3. \A n \in Launches : processes[n] \notin Bootstrapping
    BY <1>1 DEF Launch, LauncherInv, ProcessesOfLaunches
  <2>4. LauncherTypeOK'
    BY <1>1, <2>1 DEF Launch, StaleStopped, LauncherInv, LauncherTypeOK, Launches, Bootstrapping
  <2> QED
    BY <1>1, <2>1, <2>2, <2>3, <2>4 
    DEF Launch, LauncherInv, LauncherTypeOK, ProcessesOfLaunches, PortIsFree, ServedByItsOwn, DataCameAlong,
        Launches, Bootstrapping
<1>2. CASE Spawns
  <2>1. upgrade => dataDir' = "whole"
    BY <1>2 DEF Spawns, Moved, Fenced, LauncherInv, DataCameAlong
  <2>2. LauncherTypeOK' /\ launches' \in Launches
    BY <1>2 DEF Spawns, Moved, Fenced, Becomes, LauncherInv, LauncherTypeOK, Launches, Bootstrapping
  <2> QED
    BY <1>2, <2>1, <2>2
    DEF Spawns, Becomes, LauncherInv, LauncherTypeOK, ProcessesOfLaunches, PortIsFree, ServedByItsOwn,
        DataCameAlong, Bootstrapping
<1>3. CASE Quit
  BY <1>3 DEF Quit, MayEnd, Settled, Becomes, LauncherInv, LauncherTypeOK, ProcessesOfLaunches, PortIsFree,
              ServedByItsOwn, DataCameAlong, Bootstrapping, Launches
<1>4. CASE Crash
  BY <1>4 DEF Crash, MayEnd, Settled, LauncherInv, LauncherTypeOK, ProcessesOfLaunches, PortIsFree,
              ServedByItsOwn, DataCameAlong, Bootstrapping
<1>5. CASE \E n \in Launches : BeginsVenv(n) \/ MakesVenv(n) \/ Installs(n) \/ Starts(n) \/ SidecarFails(n)
  BY <1>5, ProcessesKeepLauncherInv
<1>6. CASE UNCHANGED launcherVars
  BY <1>6 DEF launcherVars, LauncherInv, LauncherTypeOK, ProcessesOfLaunches, PortIsFree, ServedByItsOwn,
              DataCameAlong
<1> QED
  BY <1>1, <1>2, <1>3, <1>4, <1>5, <1>6 DEF LauncherNext

LEMMA LauncherInvSuffices == LauncherInv => LauncherKeepsTrack
BY DEF LauncherInv, LauncherTypeOK, ServedByItsOwn, DataCameAlong, LauncherKeepsTrack, SidecarStatus, Launches

\* However often the app is launched, quit and crashes, what serves it is the
\* process of its own launch, and the data of an older version is not left behind
\* (lib.rs, kill_stale_port_holder and migrate_legacy_data_dir).
THEOREM LaunchesKeepTrack ==
  ASSUME Undisturbed
  PROVE  LauncherSpec => []LauncherKeepsTrack
<1>1. LauncherInv /\ [LauncherNext]_launcherVars => LauncherInv'
  BY LauncherSteps
<1> QED
  BY <1>1, LauncherStarts, LauncherInvSuffices, PTL DEF LauncherSpec

-----------------------------------------------------------------------------
(***************************************************************************)
(* That a text is stored in no file but the one it was opened from, and    *)
(* that a deleted file does not come back, for any files and any number of *)
(* edits, recordings, resets and runs, as long as the user lets a load or  *)
(* a save end first (~Hurried).                                            *)
(*                                                                         *)
(* The property speaks of the disk and of the editor. What makes it        *)
(* inductive is where a text can be in between: in the timer of the auto-  *)
(* save, in the chain of saves, in a load that has read but not shown it.  *)
(* The invariant says of each of these whose text it is, and that the last *)
(* word about a file is the one the user wants.                            *)
(***************************************************************************)

AnyText == [of : WorkspaceFileNames \cup {NoFile}, n : Nat]
SaveCall == [file : WorkspaceFileNames, text : AnyText]
FileLoad == [file : WorkspaceFileNames, after : Nat, at : {"waits", "asked", "read"}, text : AnyText]

WorkspaceWellTyped ==
  /\ disk \in [WorkspaceFileNames -> AnyText] /\ wanted \in [WorkspaceFileNames -> AnyText]
  /\ selected \in WorkspaceFileNames /\ shownText \in AnyText
  /\ pendingSave \in SaveCall \cup {NoSave} /\ saveChain \in Seq(SaveCall)
  /\ saved \in Nat /\ fileSteps \in Nat /\ fileLoads \subseteq FileLoad

\* Text t, if there is one, was opened from f.
IsOf(t, f) == t # Gone /\ t.of = f
\* The user wants the file there, and what is to be stored in it is its own.
OwnSave(w, save) == w[save.file] # Gone /\ IsOf(save.text, save.file)

\* The files that may not be deleted are there, and so is the selected one.
FilesThere ==
  /\ \A f \in Protected \cup {selected} : disk[f] # Gone
  /\ \A f \in WorkspaceFileNames : disk[f] # Gone => wanted[f] # Gone /\ disk[f].of = f

\* What is to be saved was typed into the file it goes to, which is still there.
SavesAreOwn ==
  /\ pendingSave # NoSave => pendingSave.file = selected /\ OwnSave(wanted, pendingSave)
  /\ \A i \in DOMAIN saveChain : OwnSave(wanted, saveChain[i])

\* The editor shows the selected file unless a load of it is under way.
ShownIsSelected ==
  /\ fileLoads = {} => IsOf(shownText, selected)
  /\ \A load \in fileLoads :
       /\ load.file = selected /\ load.at = "read" => IsOf(load.text, selected)
       /\ load.file = selected

\* and a load is alone, with nothing pending.
LoadsAreAlone ==
  /\ \A a, b \in fileLoads : a = b
  /\ fileLoads # {} => pendingSave = NoSave

FilesInv == WorkspaceWellTyped /\ FilesThere /\ SavesAreOwn /\ ShownIsSelected /\ LoadsAreAlone

-----------------------------------------------------------------------------
LEMMA TextIs ==
  /\ \A f \in WorkspaceFileNames, n \in Nat : Text(f, n) \in AnyText /\ IsOf(Text(f, n), f)
  /\ Gone \in AnyText /\ Gone.of = NoFile
BY WorkspaceAssumption DEF Text, AnyText, IsOf, Gone

LEMMA NoSaveIsNone == NoSave \notin SaveCall /\ NoSave.file = NoFile
BY WorkspaceAssumption DEF NoSave, SaveCall

LEMMA FilesStart == WorkspaceInit => FilesInv
<1> SUFFICES ASSUME WorkspaceInit PROVE FilesInv
  OBVIOUS
<1>1. \A f \in WorkspaceFileNames : disk[f] = IF f \in Protected THEN Text(f, 0) ELSE Gone
  BY DEF WorkspaceInit
<1>2. disk \in [WorkspaceFileNames -> AnyText]
  BY TextIs DEF WorkspaceInit
<1>3. /\ selected = MainFile /\ MainFile \in Protected /\ Protected \subseteq WorkspaceFileNames
      /\ shownText = Text(MainFile, 0)
  BY WorkspaceAssumption, <1>1 DEF WorkspaceInit
<1>4. WorkspaceWellTyped
  BY <1>2, <1>3, TextIs DEF WorkspaceInit, WorkspaceWellTyped
<1>5. FilesThere
  BY <1>1, <1>3, TextIs DEF WorkspaceInit, FilesThere, IsOf
<1> QED
  BY <1>3, <1>4, <1>5, TextIs
  DEF WorkspaceInit, FilesInv, SavesAreOwn, ShownIsSelected, LoadsAreAlone

\* What is pending joins the chain.
LEMMA FlushKeeps ==
  ASSUME WorkspaceWellTyped, SavesAreOwn, NEW save \in SaveCall, OwnSave(wanted, save)
  PROVE  LET more == Append(saveChain, save)
         IN more \in Seq(SaveCall) /\ \A i \in DOMAIN more : OwnSave(wanted, more[i])
BY DEF WorkspaceWellTyped, SavesAreOwn

\* Selecting a file leaves nothing pending, and one load.
LEMMA SelectKeeps ==
  ASSUME ~Hurried, FilesInv, NEW f \in WorkspaceFileNames, SelectNow(f), fileLoads = {},
         FilesThere', UNCHANGED <<shownText, saved>>, fileSteps' \in Nat,
         disk' \in [WorkspaceFileNames -> AnyText], wanted' \in [WorkspaceFileNames -> AnyText],
         \A g \in WorkspaceFileNames : wanted[g] # Gone => wanted'[g] # Gone
  PROVE  FilesInv'
<1>1. selected' = f /\ pendingSave' = NoSave
  BY DEF SelectNow
<1>2. PICK after \in Nat : fileLoads' = {Load(f, after)}
  BY DEF SelectNow, FilesInv, WorkspaceWellTyped
<1>3. Load(f, after) \in FileLoad /\ Load(f, after).file = f /\ Load(f, after).at = "waits"
  BY TextIs DEF Load, FileLoad
<1>4. saveChain' \in Seq(SaveCall) /\ \A i \in DOMAIN saveChain' : OwnSave(wanted, saveChain'[i])
  BY FlushKeeps DEF SelectNow, FilesInv, Flushed, WorkspaceWellTyped, SavesAreOwn
<1>5. \A i \in DOMAIN saveChain' : saveChain'[i] \in SaveCall
  BY <1>4
<1>6. \A i \in DOMAIN saveChain' : OwnSave(wanted', saveChain'[i])
  BY <1>4, <1>5 DEF OwnSave, SaveCall
<1> QED
  BY <1>1, <1>2, <1>3, <1>4, <1>6
  DEF FilesInv, WorkspaceWellTyped, SavesAreOwn, ShownIsSelected, LoadsAreAlone

\* Loads go their way.
LEMMA LoadsKeep ==
  ASSUME ~Hurried, FilesInv, NEW load \in fileLoads, LoadAsks(load) \/ LoadRead(load) \/ LoadShown(load)
  PROVE  FilesInv'
<1>1. /\ fileLoads = {load} /\ load \in FileLoad /\ load.file = selected
      /\ UNCHANGED <<disk, selected, pendingSave, saveChain, saved, wanted, fileSteps>>
      /\ IsOf(disk[selected], selected)
  BY DEF FilesInv, WorkspaceWellTyped, LoadsAreAlone, ShownIsSelected, FilesThere, IsOf,
         LoadAsks, LoadRead, LoadShown
<1>2. FilesThere' /\ SavesAreOwn'
  BY <1>1 DEF FilesInv, FilesThere, SavesAreOwn, OwnSave
<1>3. CASE LoadAsks(load)
  <2> DEFINE next == [load EXCEPT !.at = "asked"]
  <2>1. fileLoads' = {next} /\ shownText' = shownText
    BY <1>1, <1>3 DEF LoadAsks
  <2>2. next \in FileLoad /\ next.file = selected /\ next.at = "asked"
    BY <1>1 DEF FileLoad
  <2> QED
    BY <1>1, <1>2, <2>1, <2>2 DEF FilesInv, WorkspaceWellTyped, ShownIsSelected, LoadsAreAlone
<1>4. CASE LoadRead(load)
  <2> DEFINE next == [load EXCEPT !.at = "read", !.text = disk[load.file]]
  <2>1. fileLoads' = {next} /\ shownText' = shownText
    BY <1>1, <1>4 DEF LoadRead
  <2>2. next \in FileLoad /\ next.file = selected /\ next.at = "read" /\ next.text = disk[selected]
    BY <1>1 DEF FileLoad, FilesInv, WorkspaceWellTyped
  <2> QED
    BY <1>1, <1>2, <2>1, <2>2 DEF FilesInv, WorkspaceWellTyped, ShownIsSelected, LoadsAreAlone
<1>5. CASE LoadShown(load)
  <2>1. fileLoads' = {} /\ shownText' = load.text /\ IsOf(load.text, selected)
    BY <1>1, <1>5 DEF LoadShown, FilesInv, ShownIsSelected, IsOf
  <2> QED
    BY <1>1, <1>2, <2>1 DEF FilesInv, WorkspaceWellTyped, ShownIsSelected, LoadsAreAlone, FileLoad
<1> QED
  BY <1>3, <1>4, <1>5

\* Whatever puts text of f into f, outside the editor.
LEMMA WritingKeeps ==
  ASSUME ~Hurried, FilesInv, NEW f \in WorkspaceFileNames, NEW t \in AnyText, IsOf(t, f),
         disk' = [disk EXCEPT ![f] = t],
         wanted' \in [WorkspaceFileNames -> AnyText], wanted'[f] # Gone,
         \A g \in WorkspaceFileNames : wanted[g] # Gone => wanted'[g] # Gone
  PROVE  (UNCHANGED selected => FilesThere') /\ disk' \in [WorkspaceFileNames -> AnyText]
         /\ \A save \in SaveCall : OwnSave(wanted, save) => OwnSave(wanted', save)
<1>1. \A g \in WorkspaceFileNames : disk'[g] = IF g = f THEN t ELSE disk[g]
  BY DEF FilesInv, WorkspaceWellTyped
<1>2. Protected \subseteq WorkspaceFileNames
  BY WorkspaceAssumption
<1>3. UNCHANGED selected => FilesThere'
  BY <1>1, <1>2 DEF FilesInv, FilesThere, WorkspaceWellTyped, IsOf
<1> QED
  BY <1>3 DEF FilesInv, WorkspaceWellTyped, OwnSave, SaveCall

LEMMA CreateKeeps ==
  ASSUME ~Hurried, FilesInv, NEW f \in WorkspaceFileNames, CreateFile(f)
  PROVE  FilesInv'
<1>1. /\ disk' = [disk EXCEPT ![f] = Text(f, 0)] /\ wanted' = [wanted EXCEPT ![f] = Text(f, 0)]
      /\ SelectNow(f) /\ fileLoads = {} /\ UNCHANGED <<shownText, saved>> /\ fileSteps' \in Nat
  BY DEF CreateFile, Patient, Step, FilesInv, WorkspaceWellTyped
<1>2. Text(f, 0) \in AnyText /\ IsOf(Text(f, 0), f)
  BY TextIs
<1>3. /\ wanted' \in [WorkspaceFileNames -> AnyText] /\ wanted'[f] # Gone
      /\ \A g \in WorkspaceFileNames : wanted[g] # Gone => wanted'[g] # Gone
      /\ \A g \in WorkspaceFileNames : disk'[g] = IF g = f THEN Text(f, 0) ELSE disk[g]
  BY <1>1, <1>2 DEF FilesInv, WorkspaceWellTyped, IsOf
<1>4. disk' \in [WorkspaceFileNames -> AnyText] /\ selected' = f
  BY <1>1, <1>2 DEF FilesInv, WorkspaceWellTyped, SelectNow
<1>5. Protected \subseteq WorkspaceFileNames
  BY WorkspaceAssumption
<1>6. FilesThere'
  BY <1>2, <1>3, <1>4, <1>5 DEF FilesInv, FilesThere, IsOf
<1> QED
  BY <1>1, <1>3, <1>4, <1>6, SelectKeeps

LEMMA DeleteKeeps ==
  ASSUME ~Hurried, FilesInv, NEW f \in WorkspaceFileNames, DeleteFile(f)
  PROVE  FilesInv'
<1>1. /\ f \notin Protected /\ fileLoads = {} /\ \A i \in DOMAIN saveChain : saveChain[i].file # f
      /\ disk' = [disk EXCEPT ![f] = Gone] /\ wanted' = [wanted EXCEPT ![f] = Gone]
      /\ UNCHANGED <<shownText, saved>> /\ fileSteps' \in Nat
      /\ selected' = IF selected = f THEN MainFile ELSE selected
  BY DEF DeleteFile, Patient, Step, FilesInv, WorkspaceWellTyped, SelectedWithout
<1>2. MainFile \in Protected /\ Protected \subseteq WorkspaceFileNames
  BY WorkspaceAssumption
<1>3. /\ disk' \in [WorkspaceFileNames -> AnyText] /\ wanted' \in [WorkspaceFileNames -> AnyText]
      /\ \A g \in WorkspaceFileNames \ {f} : disk'[g] = disk[g] /\ wanted'[g] = wanted[g]
      /\ disk'[f] = Gone
  BY <1>1, TextIs DEF FilesInv, WorkspaceWellTyped
<1>4. selected' \in WorkspaceFileNames \ {f} /\ FilesThere'
  BY <1>1, <1>2, <1>3 DEF FilesInv, FilesThere, WorkspaceWellTyped
<1>5. \A i \in DOMAIN saveChain : OwnSave(wanted', saveChain[i])
  <2>1. \A i \in DOMAIN saveChain : saveChain[i] \in SaveCall
    BY DEF FilesInv, WorkspaceWellTyped
  <2> QED
    BY <1>1, <1>3, <2>1 DEF FilesInv, SavesAreOwn, OwnSave, SaveCall
<1>6. pendingSave.file \in {selected, NoFile} /\ (pendingSave # NoSave => pendingSave.file = selected)
  BY NoSaveIsNone DEF FilesInv, SavesAreOwn
<1>7. CASE selected = f
  <2>1. /\ saveChain' = saveChain /\ pendingSave' = NoSave /\ fileLoads' = {Load(MainFile, saved)}
        /\ selected' = MainFile
    BY <1>1, <1>6, <1>7 DEF DeleteFile, Cancelled
  <2>2. /\ Load(MainFile, saved) \in FileLoad /\ Load(MainFile, saved).file = MainFile
        /\ Load(MainFile, saved).at = "waits"
    BY <1>2, TextIs DEF Load, FileLoad, FilesInv, WorkspaceWellTyped
  <2> QED
    BY <1>1, <1>3, <1>4, <1>5, <2>1, <2>2
    DEF FilesInv, WorkspaceWellTyped, SavesAreOwn, ShownIsSelected, LoadsAreAlone
<1>8. CASE selected # f
  <2>1. /\ pendingSave' = pendingSave /\ UNCHANGED <<saveChain, fileLoads>> /\ selected' = selected
    BY <1>1, <1>2, <1>6, <1>8, WorkspaceAssumption DEF DeleteFile, Cancelled
  <2>2. SavesAreOwn'
    BY <1>3, <1>5, <1>8, <2>1 DEF FilesInv, WorkspaceWellTyped, SavesAreOwn, OwnSave, SaveCall
  <2> QED
    BY <1>1, <1>3, <1>4, <2>1, <2>2
    DEF FilesInv, WorkspaceWellTyped, ShownIsSelected, LoadsAreAlone
<1> QED
  BY <1>7, <1>8

\* The user types, saves or runs what the editor shows; nothing is loading.
LEMMA EditorKeeps ==
  ASSUME ~Hurried, FilesInv, TypeText \/ SaveClicked \/ FlushSave
  PROVE  FilesInv'
<1>1. CASE TypeText
  <2> DEFINE t == Text(selected, fileSteps')
             save == [file |-> selected, text |-> t]
  <2>1. fileLoads = {} /\ fileSteps' \in Nat /\ shownText.of = selected
    BY <1>1 DEF TypeText, Step, FilesInv, WorkspaceWellTyped, ShownIsSelected, IsOf
  <2>2. t \in AnyText /\ IsOf(t, selected)
    BY <2>1, TextIs DEF FilesInv, WorkspaceWellTyped
  <2>3. /\ shownText' = t /\ pendingSave' = save /\ wanted' = [wanted EXCEPT ![selected] = t]
        /\ UNCHANGED <<disk, selected, saveChain, saved, fileLoads>>
    BY <1>1, <2>1 DEF TypeText
  <2> HIDE DEF t
  <2>4. save \in SaveCall /\ save.file = selected /\ save.text = t
    BY <2>2 DEF SaveCall, FilesInv, WorkspaceWellTyped
  <2> HIDE DEF save
  <2>5. /\ wanted' \in [WorkspaceFileNames -> AnyText] /\ wanted'[selected] = t
        /\ \A g \in WorkspaceFileNames : wanted[g] # Gone => wanted'[g] # Gone
    BY <2>2, <2>3 DEF FilesInv, WorkspaceWellTyped, IsOf
  <2>6. SavesAreOwn'
    BY <2>2, <2>3, <2>4, <2>5 DEF FilesInv, WorkspaceWellTyped, SavesAreOwn, OwnSave, SaveCall, IsOf
  <2>7. FilesThere'
    BY <2>3, <2>5, WorkspaceAssumption DEF FilesInv, FilesThere
  <2> QED
    BY <2>1, <2>2, <2>3, <2>4, <2>5, <2>6, <2>7
    DEF FilesInv, WorkspaceWellTyped, ShownIsSelected, LoadsAreAlone
<1>2. CASE SaveClicked \/ FlushSave
  <2>1. PICK save \in SaveCall : OwnSave(wanted, save) /\ saveChain' = Append(saveChain, save)
    <3>1. pendingSave \in SaveCall /\ OwnSave(wanted, pendingSave)
      BY <1>2 DEF SaveClicked, FlushSave, FilesInv, WorkspaceWellTyped, SavesAreOwn
    <3>2. CASE FlushSave
      BY <3>1, <3>2 DEF FlushSave, Flushed
    <3>3. CASE SaveClicked
      <4>1. fileLoads = {} /\ pendingSave.file = selected
        BY <3>3 DEF SaveClicked, Patient, FilesInv, SavesAreOwn
      <4>2. /\ [file |-> selected, text |-> shownText] \in SaveCall
            /\ OwnSave(wanted, [file |-> selected, text |-> shownText])
        BY <3>1, <4>1 DEF FilesInv, WorkspaceWellTyped, ShownIsSelected, SaveCall, OwnSave, IsOf
      <4> QED
        BY <3>3, <4>2 DEF SaveClicked
    <3> QED
      BY <1>2, <3>2, <3>3
  <2>2. saveChain' \in Seq(SaveCall) /\ \A i \in DOMAIN saveChain' : OwnSave(wanted, saveChain'[i])
    BY <2>1, FlushKeeps DEF FilesInv
  <2>3. /\ pendingSave' = NoSave
        /\ UNCHANGED <<disk, selected, shownText, saved, fileLoads, wanted, fileSteps>>
    BY <1>2 DEF SaveClicked, FlushSave
  <2> QED
    BY <2>2, <2>3
    DEF FilesInv, WorkspaceWellTyped, FilesThere, SavesAreOwn, OwnSave, ShownIsSelected, LoadsAreAlone
<1> QED
  BY <1>1, <1>2

LEMMA SaveLandsKeeps ==
  ASSUME ~Hurried, FilesInv, SaveLands
  PROVE  FilesInv'
<1> DEFINE save == Head(saveChain)
<1>1. /\ save \in SaveCall /\ OwnSave(wanted, save) /\ saveChain' \in Seq(SaveCall)
      /\ \A i \in DOMAIN saveChain' : OwnSave(wanted, saveChain'[i])
  BY DEF SaveLands, FilesInv, WorkspaceWellTyped, SavesAreOwn
<1>2. /\ disk' = [disk EXCEPT ![save.file] = save.text] /\ saved' \in Nat
      /\ UNCHANGED <<selected, shownText, pendingSave, fileLoads, wanted, fileSteps>>
  BY DEF SaveLands, FilesInv, WorkspaceWellTyped
<1> HIDE DEF save
<1>3. FilesThere' /\ disk' \in [WorkspaceFileNames -> AnyText]
  BY <1>1, <1>2, WritingKeeps DEF OwnSave, SaveCall, FilesInv, WorkspaceWellTyped
<1> QED
  BY <1>1, <1>2, <1>3
  DEF FilesInv, WorkspaceWellTyped, SavesAreOwn, OwnSave, ShownIsSelected, LoadsAreAlone

\* A reset and a run write the selected file themselves, the recorder its own.
LEMMA WritersKeep ==
  ASSUME ~Hurried, FilesInv, ResetFile \/ SaveAndRun \/ Recorded
  PROVE  FilesInv'
<1>1. fileLoads = {} /\ fileSteps' \in Nat /\ UNCHANGED <<selected, saveChain, saved>>
  BY DEF ResetFile, SaveAndRun, Recorded, Patient, Step, FilesInv, WorkspaceWellTyped
<1>2. selected \in WorkspaceFileNames /\ RecordingFile \in WorkspaceFileNames
  BY WorkspaceAssumption DEF FilesInv, WorkspaceWellTyped
<1>3. CASE ResetFile \/ SaveAndRun
  <2>1. pendingSave' = NoSave /\ UNCHANGED fileLoads
    BY <1>3, NoSaveIsNone DEF ResetFile, SaveAndRun, Cancelled, FilesInv, WorkspaceWellTyped, SaveCall
  <2>2. PICK t \in AnyText : /\ IsOf(t, selected) /\ shownText' = t
                             /\ disk' = [disk EXCEPT ![selected] = t]
                             /\ wanted' = wanted \/ wanted' = [wanted EXCEPT ![selected] = t]
    <3>1. CASE ResetFile
      BY <1>2, <3>1, TextIs DEF ResetFile
    <3>2. CASE SaveAndRun
      BY <1>1, <3>2 DEF SaveAndRun, FilesInv, WorkspaceWellTyped, ShownIsSelected
    <3> QED
      BY <1>3, <3>1, <3>2
  <2>3. wanted[selected] # Gone
    BY <1>2 DEF FilesInv, FilesThere
  <2>4. /\ wanted' \in [WorkspaceFileNames -> AnyText] /\ wanted'[selected] # Gone
        /\ \A g \in WorkspaceFileNames : wanted[g] # Gone => wanted'[g] # Gone
    BY <1>2, <2>2, <2>3 DEF FilesInv, WorkspaceWellTyped, IsOf
  <2>5. /\ FilesThere' /\ disk' \in [WorkspaceFileNames -> AnyText]
        /\ \A save \in SaveCall : OwnSave(wanted, save) => OwnSave(wanted', save)
    BY <1>1, <1>2, <2>2, <2>4, WritingKeeps
  <2>6. \A i \in DOMAIN saveChain : saveChain[i] \in SaveCall
    BY DEF FilesInv, WorkspaceWellTyped
  <2>7. SavesAreOwn'
    BY <1>1, <2>1, <2>5, <2>6 DEF FilesInv, SavesAreOwn
  <2> QED
    BY <1>1, <1>2, <2>1, <2>2, <2>4, <2>5, <2>7
    DEF FilesInv, WorkspaceWellTyped, ShownIsSelected, LoadsAreAlone
<1>4. CASE Recorded
  <2> DEFINE t == Text(RecordingFile, fileSteps')
             load == [file |-> RecordingFile, after |-> 0, at |-> "waits", text |-> Gone]
  <2>1. /\ disk' = [disk EXCEPT ![RecordingFile] = t] /\ wanted' = [wanted EXCEPT ![RecordingFile] = t]
        /\ UNCHANGED <<shownText, pendingSave>> /\ pendingSave.file # RecordingFile
        /\ fileLoads' = IF selected = RecordingFile THEN {load} ELSE {}
    BY <1>1, <1>4 DEF Recorded
  <2>2. t \in AnyText /\ IsOf(t, RecordingFile)
    BY <1>1, <1>2, TextIs
  <2> HIDE DEF t
  <2>3. load \in FileLoad /\ load.file = RecordingFile /\ load.at = "waits"
    BY <1>2, TextIs DEF FileLoad
  <2> HIDE DEF load
  <2>4. /\ wanted' \in [WorkspaceFileNames -> AnyText] /\ wanted'[RecordingFile] # Gone
        /\ \A g \in WorkspaceFileNames : wanted[g] # Gone => wanted'[g] # Gone
    BY <1>2, <2>1, <2>2 DEF FilesInv, WorkspaceWellTyped, IsOf
  <2>5. /\ FilesThere' /\ disk' \in [WorkspaceFileNames -> AnyText]
        /\ \A save \in SaveCall : OwnSave(wanted, save) => OwnSave(wanted', save)
    BY <1>1, <1>2, <2>1, <2>2, <2>4, WritingKeeps
  <2>6. \A i \in DOMAIN saveChain : saveChain[i] \in SaveCall
    BY DEF FilesInv, WorkspaceWellTyped
  <2>7. SavesAreOwn'
    BY <1>1, <2>1, <2>5, <2>6 DEF FilesInv, WorkspaceWellTyped, SavesAreOwn
  <2>8. WorkspaceWellTyped'
    BY <1>1, <2>1, <2>3, <2>4, <2>5 DEF FilesInv, WorkspaceWellTyped
  <2>9. ShownIsSelected' /\ LoadsAreAlone'
    BY <1>1, <2>1, <2>3 DEF FilesInv, SavesAreOwn, ShownIsSelected, LoadsAreAlone
  <2> QED
    BY <2>5, <2>7, <2>8, <2>9 DEF FilesInv
<1> QED
  BY <1>3, <1>4

\* As long as the user waits for loads and saves of a file, what is typed into
\* one file is never saved into another, and neither the debounce nor the chain
\* of saves brings a deleted file back (useWorkspaceFiles.ts, flushPendingSave).
THEOREM SavesGoHome ==
  ASSUME ~Hurried
  PROVE  WorkspaceSpec => []FilesKeepTheirOwn
<1>1. FilesInv => FilesKeepTheirOwn
  BY TextIs DEF FilesInv, FilesThere, FilesKeepTheirOwn
<1>2. FilesInv /\ [WorkspaceNext]_fileVars => FilesInv'
  <2> SUFFICES ASSUME FilesInv, [WorkspaceNext]_fileVars PROVE FilesInv'
    OBVIOUS
  <2>1. ASSUME NEW f \in WorkspaceFileNames, SelectFile(f) PROVE FilesInv'
    <3>1. /\ SelectNow(f) /\ fileLoads = {} /\ UNCHANGED <<disk, shownText, saved, wanted>>
          /\ fileSteps' \in Nat /\ disk[f] # Gone
      BY <2>1 DEF SelectFile, Patient, Step, FilesInv, WorkspaceWellTyped
    <3>2. FilesThere'
      BY <3>1 DEF SelectNow, FilesInv, FilesThere
    <3> QED
      BY <3>1, <3>2, SelectKeeps DEF FilesInv, WorkspaceWellTyped
  <2>2. CASE UNCHANGED fileVars
    BY <2>2 DEF fileVars, FilesInv, WorkspaceWellTyped, FilesThere, SavesAreOwn, OwnSave,
                ShownIsSelected, LoadsAreAlone
  <2> QED
    BY <2>1, <2>2, CreateKeeps, DeleteKeeps, LoadsKeep, EditorKeeps, SaveLandsKeeps, WritersKeep
    DEF WorkspaceNext
<1> QED
  BY <1>1, <1>2, FilesStart, PTL DEF WorkspaceSpec
=============================================================================
