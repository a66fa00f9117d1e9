------------------------------ MODULE PageTools ------------------------------
(***************************************************************************)
(* What drives the page of a browser session: scans, verifications, the    *)
(* AI's explorations, recording and the inspect overlay.  The buttons of   *)
(* the app (WebExplorerContext.tsx) disable one another by flags that      *)
(* messages of the sidecar set and reset; the sidecar runs scans and       *)
(* verifications in its command loop and explorations in tasks of their    *)
(* own (local_sidecar.py, browser.py).  An exploration and a verification  *)
(* take the overlay off, since it blocks the events they dispatch.         *)
(*                                                                         *)
(* There is one page, an element of it was picked, and the session lasts.  *)
(* Requests are numbered: number 0 is no request.                          *)
(***************************************************************************)
EXTENDS Naturals, Sequences

CONSTANTS
  MaxAsks,   \* bound on the requests for scans, verifications and explorations
  MaxToggles,\* bound on the clicks on Inspect and Record
  MaxSteps,  \* steps after which an exploration stops
  Watchful,   \* nothing is clicked until the last click shows, and a task begins
             \* before the loop takes another command
  Apart      \* no verification, recording or inspection is started while an
             \* exploration is under way, stopped or not

ASSUME PageToolsAssumption ==
  {MaxAsks, MaxToggles, MaxSteps} \subseteq Nat /\ {Watchful, Apart} \subseteq BOOLEAN

VARIABLES
  ui,          \* isExploring, isVerifying, isRecording, inspectMode,
               \* pageScanStatus and the request whose results are shown
  asks,        \* requests made
  toggles,     \* a bound
  toSidecar, toApp,  \* messages of the socket
  loop,        \* what the command loop is doing, and whether it took the overlay off
  tasks,       \* explorations: where they are, their steps, whether they took it off
  exploring,   \* session["explore_in_progress"]
  cancelled,   \* session["explore_cancelled"]
  inspectOn, recordingOn, \* session["inspect_enabled"], session["recording_enabled"]
  shield       \* the overlay is on the page

toolVars == <<ui, asks, toggles, toSidecar, toApp, loop, tasks, exploring, cancelled, inspectOn,
              recordingOn, shield>>

Requests == 1..MaxAsks
ToolCommand == [action: {"scan-page", "verify", "explore"}, ask: Requests]
               \union [action: {"stop-explore", "start-recording", "stop-recording"}]
               \union [action: {"toggle-inspect"}, enabled: BOOLEAN]
ToolMessage == [type: {"page_scan_started", "page_scan_error", "explore_started", "explore_step", "explore_error",
                       "verify_started", "verify_result", "recording_started", "recording_stopped"}]
               \union [type: {"page_scan_result", "explore_result"}, ask: Requests]

ToolsTypeOK ==
  /\ ui \in [exploring: BOOLEAN, verifying: BOOLEAN, recording: BOOLEAN, inspecting: BOOLEAN,
             scan: {"idle", "scanning", "done", "error"}, shows: 0..MaxAsks]
  /\ asks \in 0..MaxAsks /\ toggles \in 0..MaxToggles
  /\ toSidecar \in Seq(ToolCommand) /\ toApp \in Seq(ToolMessage)
  /\ loop \in [doing: {"none", "scan", "verify"}, ask: 0..MaxAsks, suspended: BOOLEAN]
  /\ tasks \in [Requests -> [at: {"none", "created", "looking", "acting", "finalizing"},
                             steps: 0..MaxSteps, suspended: BOOLEAN]]
  /\ {exploring, cancelled, inspectOn, recordingOn, shield} \subseteq BOOLEAN

Idling == [doing |-> "none", ask |-> 0, suspended |-> FALSE]
NoTask == [at |-> "none", steps |-> 0, suspended |-> FALSE]

ToolsInit ==
  /\ ui = [exploring |-> FALSE, verifying |-> FALSE, recording |-> FALSE, inspecting |-> FALSE,
           scan |-> "idle", shows |-> 0]
  /\ asks = 0 /\ toggles = 0 /\ toSidecar = <<>> /\ toApp = <<>> /\ loop = Idling
  /\ tasks = [n \in Requests |-> NoTask]
  /\ exploring = FALSE /\ cancelled = FALSE /\ inspectOn = FALSE /\ recordingOn = FALSE /\ shield = FALSE

Under(n) == tasks[n].at # "none"
Exploration == \E n \in Requests : Under(n)
ToolsAtRest == toSidecar = <<>> /\ toApp = <<>> /\ loop = Idling /\ ~Exploration

-----------------------------------------------------------------------------
(* The app.                                                                *)

Asks(action) == [action |-> action, ask |-> asks + 1]
Sends(commands) == toSidecar' = toSidecar \o commands
MayClick == Watchful => toSidecar = <<>> /\ toApp = <<>>
MayDrive == MayClick /\ (Apart => ~Exploration)
AppOnly == UNCHANGED <<toApp, loop, tasks, exploring, cancelled, inspectOn, recordingOn, shield>>

\* Deviation: a scan may be asked for while another or an exploration still runs.
ScanOfferedTooSoon == ~ui.verifying /\ ~ui.exploring /\ ~ui.recording
ScanOffered == ui.scan # "scanning" /\ ~ui.verifying /\ ~ui.exploring /\ ~ui.recording

ClickScan ==
  /\ MayClick /\ asks < MaxAsks /\ ScanOffered
  /\ ui' = [ui EXCEPT !.scan = "scanning", !.shows = 0]
  /\ asks' = asks + 1 /\ Sends(<<Asks("scan-page")>>) /\ UNCHANGED toggles /\ AppOnly

\* The card of the picked element looks at isVerifying only.
ClickVerify ==
  /\ MayDrive /\ asks < MaxAsks /\ ~ui.verifying
  /\ asks' = asks + 1 /\ Sends(<<Asks("verify")>>) /\ UNCHANGED <<ui, toggles>> /\ AppOnly

ClickExplore ==
  /\ MayClick /\ asks < MaxAsks /\ ~ui.exploring /\ ~ui.verifying /\ ~ui.recording
  /\ asks' = asks + 1 /\ Sends(<<Asks("explore")>>) /\ UNCHANGED <<ui, toggles>> /\ AppOnly

\* Control goes back to the user at once.
ClickStop ==
  /\ MayClick /\ ui.exploring
  /\ ui' = [ui EXCEPT !.exploring = FALSE]
  /\ Sends(<<[action |-> "stop-explore"]>>) /\ UNCHANGED <<asks, toggles>> /\ AppOnly

InspectCommand(on) == [action |-> "toggle-inspect", enabled |-> on]
ToggleIn(u) == [u EXCEPT !.inspecting = ~@]

\* The button, or Escape, which switches inspect off whatever is under way.
ClickInspect ==
  /\ MayClick /\ toggles < MaxToggles
  /\ \/ ui.inspecting
     \/ ~ui.verifying /\ ~ui.exploring /\ ~ui.recording /\ (Apart => ~Exploration)
  /\ ui' = ToggleIn(ui)
  /\ toggles' = toggles + 1 /\ Sends(<<InspectCommand(~ui.inspecting)>>) /\ UNCHANGED asks /\ AppOnly

\* When recording starts, inspect is switched off.
ClickRecord ==
  /\ MayDrive /\ toggles < MaxToggles /\ ~ui.verifying /\ ~ui.exploring
  /\ toggles' = toggles + 1
  /\ IF ui.recording
     THEN ui' = [ui EXCEPT !.recording = FALSE] /\ Sends(<<[action |-> "stop-recording"]>>)
     ELSE /\ ui' = [ui EXCEPT !.recording = TRUE, !.inspecting = FALSE]
          /\ Sends(<<[action |-> "start-recording"]>>
                   \o IF ui.inspecting THEN <<InspectCommand(FALSE)>> ELSE <<>>)
  /\ UNCHANGED asks /\ AppOnly

\* The drawer of results, or the error, is closed.
CloseResults ==
  /\ ui.shows # 0 \/ ui.scan = "error"
  /\ ui' = [ui EXCEPT !.scan = "idle", !.shows = 0]
  /\ UNCHANGED <<asks, toggles, toSidecar>> /\ AppOnly

\* ws.onmessage.
Handled(u, m) ==
  CASE m.type = "page_scan_started" -> [u EXCEPT !.scan = "scanning"]
    [] m.type = "page_scan_result" -> [u EXCEPT !.scan = "done", !.shows = m.ask]
    [] m.type = "page_scan_error" -> [u EXCEPT !.scan = "error"]
    [] m.type = "explore_started" -> [u EXCEPT !.exploring = TRUE, !.scan = "scanning", !.shows = 0]
    [] m.type = "explore_result" -> [u EXCEPT !.exploring = FALSE, !.scan = "done", !.shows = m.ask]
    [] m.type = "explore_error" -> [u EXCEPT !.exploring = FALSE, !.scan = "error"]
    [] m.type = "verify_started" -> [u EXCEPT !.verifying = TRUE]
    [] m.type = "verify_result" -> [u EXCEPT !.verifying = FALSE]
    [] m.type = "recording_started" -> [u EXCEPT !.recording = TRUE, !.inspecting = FALSE]
    [] m.type = "recording_stopped" -> [u EXCEPT !.recording = FALSE]
    [] OTHER -> u

Receive ==
  /\ toApp # <<>> /\ toApp' = Tail(toApp)
  /\ ui' = Handled(ui, toApp[1])
  /\ toSidecar' = IF toApp[1].type = "recording_started" /\ ui.inspecting /\ ~ui.recording
                  THEN Append(toSidecar, InspectCommand(FALSE)) ELSE toSidecar
  /\ UNCHANGED <<asks, toggles, loop, tasks, exploring, cancelled, inspectOn, recordingOn, shield>>

-----------------------------------------------------------------------------
(* The command loop.                                                       *)

Tell(m) == toApp' = Append(toApp, m)
Say(type) == [type |-> type]
Takes(action) ==
  /\ loop = Idling /\ toSidecar # <<>> /\ toSidecar[1].action = action
  /\ (Watchful => \A n \in Requests : tasks[n].at # "created")
  /\ toSidecar' = Tail(toSidecar)

TakeScan ==
  /\ Takes("scan-page")
  /\ loop' = [doing |-> "scan", ask |-> toSidecar[1].ask, suspended |-> FALSE]
  /\ Tell(Say("page_scan_started"))
  /\ UNCHANGED <<ui, asks, toggles, tasks, exploring, cancelled, inspectOn, recordingOn, shield>>

EndScan ==
  /\ loop.doing = "scan" /\ loop' = Idling
  /\ Tell([type |-> "page_scan_result", ask |-> loop.ask]) \/ Tell(Say("page_scan_error"))
  /\ UNCHANGED <<ui, asks, toggles, toSidecar, tasks, exploring, cancelled, inspectOn, recordingOn, shield>>

TakeVerify ==
  /\ Takes("verify")
  /\ loop' = [doing |-> "verify", ask |-> toSidecar[1].ask, suspended |-> inspectOn]
  /\ shield' = (shield /\ ~inspectOn)
  /\ Tell(Say("verify_started"))
  /\ UNCHANGED <<ui, asks, toggles, tasks, exploring, cancelled, inspectOn, recordingOn>>

\* Who took the overlay off puts it back, if inspect is still on.
\* Deviation: whether inspect is still on is not looked at.
BackRegardless(suspended) == shield' = (shield \/ suspended)
Back(suspended) == shield' = (shield \/ (suspended /\ inspectOn))
EndVerify ==
  /\ loop.doing = "verify" /\ loop' = Idling
  /\ Back(loop.suspended) /\ Tell(Say("verify_result"))
  /\ UNCHANGED <<ui, asks, toggles, toSidecar, tasks, exploring, cancelled, inspectOn, recordingOn>>

\* Ignored in silence while another exploration is under way.
TakeExplore ==
  /\ Takes("explore")
  /\ IF exploring THEN UNCHANGED <<tasks, toApp>>
     ELSE /\ tasks' = [tasks EXCEPT ![toSidecar[1].ask] = [NoTask EXCEPT !.at = "created"]]
          /\ Tell(Say("explore_started"))
  /\ UNCHANGED <<ui, asks, toggles, loop, exploring, cancelled, inspectOn, recordingOn, shield>>

TakeStop ==
  /\ Takes("stop-explore") /\ cancelled' = TRUE
  /\ UNCHANGED <<ui, asks, toggles, toApp, loop, tasks, exploring, inspectOn, recordingOn, shield>>

TakeToggle ==
  /\ Takes("toggle-inspect")
  /\ inspectOn' = toSidecar[1].enabled /\ shield' = inspectOn'
  /\ UNCHANGED <<ui, asks, toggles, toApp, loop, tasks, exploring, cancelled, recordingOn>>

TakeRecording ==
  /\ \/ Takes("start-recording") /\ recordingOn' = TRUE /\ Tell(Say("recording_started"))
     \/ Takes("stop-recording") /\ recordingOn' = FALSE /\ Tell(Say("recording_stopped"))
  /\ UNCHANGED <<ui, asks, toggles, loop, tasks, exploring, cancelled, inspectOn, shield>>

-----------------------------------------------------------------------------
(* An exploration.                                                         *)

Unmoved == UNCHANGED <<ui, asks, toggles, toSidecar, loop, inspectOn, recordingOn>>
At(n, where) == tasks' = [tasks EXCEPT ![n].at = where]

ExplorationBegins(n) ==
  /\ tasks[n].at = "created"
  /\ tasks' = [tasks EXCEPT ![n] = [at |-> "looking", steps |-> 0, suspended |-> inspectOn]]
  /\ exploring' = TRUE /\ cancelled' = FALSE /\ shield' = (shield /\ ~inspectOn)
  /\ Unmoved /\ UNCHANGED toApp

\* At the top of the loop it may have to end.  Otherwise it lists the elements
\* and asks the AI: it may find nothing, be told to finish, or choose one.
MustEnd(n) == cancelled \/ tasks[n].steps = MaxSteps
Looks(n) ==
  /\ tasks[n].at = "looking"
  /\ \/ At(n, "finalizing")
     \/ ~MustEnd(n) /\ At(n, "acting")
  /\ Unmoved /\ UNCHANGED <<toApp, exploring, cancelled, shield>>

\* The chosen element is acted on, or is disabled or cannot be located.
Acts(n) ==
  /\ tasks[n].at = "acting"
  /\ tasks' = [tasks EXCEPT ![n] = [at |-> "looking", steps |-> tasks[n].steps + 1,
                                     suspended |-> tasks[n].suspended]]
  /\ Tell(Say("explore_step"))
  /\ Unmoved /\ UNCHANGED <<exploring, cancelled, shield>>

ExplorationEnds(n) ==
  /\ \/ tasks[n].at = "finalizing" /\ Tell([type |-> "explore_result", ask |-> n])
     \/ tasks[n].at \in {"looking", "acting", "finalizing"} /\ Tell(Say("explore_error"))
  /\ tasks' = [tasks EXCEPT ![n] = NoTask]
  /\ exploring' = FALSE /\ Back(tasks[n].suspended)
  /\ Unmoved /\ UNCHANGED cancelled

-----------------------------------------------------------------------------
ToolsServed ==
  \/ Receive \/ TakeScan \/ EndScan \/ TakeVerify \/ EndVerify
  \/ TakeExplore \/ TakeStop \/ TakeToggle \/ TakeRecording
  \/ \E n \in Requests : ExplorationBegins(n) \/ Looks(n) \/ Acts(n) \/ ExplorationEnds(n)

ToolsNext ==
  \/ ClickScan \/ ClickVerify \/ ClickExplore \/ ClickStop \/ ClickInspect \/ ClickRecord \/ CloseResults
  \/ ToolsServed

\* Calls to the browser and to the AI have time limits, and the socket delivers.
ToolsSpec == ToolsInit /\ [][ToolsNext]_toolVars /\ WF_toolVars(ToolsServed)

-----------------------------------------------------------------------------
(* Properties.                                                             *)

\* docs/user-guide/web-explorer/workspace-and-scripts.md:27 and
\* element-inspection-and-pom.md:49: Inspect, Scan, Record and Explore exclude one
\* another.  When the page is acted on, by an exploration or a verification,
\* nobody else acts on it, its events are not blocked and they are not recorded
\* as the user's.
DrivesAlone ==
  LET acting == {n \in Requests : tasks[n].at = "acting"}
  IN /\ acting # {} => ~shield /\ ~recordingOn /\ loop.doing = "none" /\ \A m, n \in acting : m = n
     /\ loop.doing = "verify" => ~shield

\* WebExplorerContext.tsx:706-712: the results shown are never replaced by those of
\* an earlier request that ends late, such as an exploration that was stopped.
\* When nothing is under way, the buttons say what the page and the session are.
ResultsAreLast ==
  /\ \A n \in Requests : Under(n) => n > ui.shows
  /\ \A i \in DOMAIN toApp : toApp[i].type \in {"page_scan_result", "explore_result"} => toApp[i].ask > ui.shows
  /\ ToolsAtRest =>
       /\ ~ui.exploring /\ ~ui.verifying /\ ui.scan # "scanning" /\ ~exploring
       /\ ui.recording = recordingOn /\ ui.inspecting = inspectOn /\ shield = inspectOn
===============================================================================
