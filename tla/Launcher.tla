------------------------------- MODULE Launcher -------------------------------
(***************************************************************************)
(* The desktop launcher (src-tauri/src/lib.rs): at every start it ends     *)
(* whatever still listens on the sidecar's port, moves the data directory  *)
(* of older versions to its new place and spawns bootstrap_sidecar.py,     *)
(* which makes a virtual environment and becomes the sidecar.  The app can *)
(* be quit, or crash and leave its child behind.                           *)
(*                                                                         *)
(* One launcher runs at a time (the single-instance plugin).  Launches are *)
(* numbered, and so are the processes they spawn.                          *)
(***************************************************************************)
EXTENDS Naturals

CONSTANTS
  MaxLaunches, \* a bound
  OnWindows,   \* the bootstrap stays the parent of the sidecar
  Undisturbed  \* a move that was begun succeeds, and the app neither crashes nor is
               \* quit while the bootstrap is at work

ASSUME LauncherAssumption == MaxLaunches \in Nat /\ {OnWindows, Undisturbed} \subseteq BOOLEAN

VARIABLES
  window,     \* off, or launching, or running
  launches,
  processes,  \* per launch: what its process does
  legacyDir,  \* the data directory of older versions: there, or fenced off
  dataDir,    \* the data directory: what of the older versions' data is in it
  venv,
  upgrade     \* there was data of an older version, and none of this one

launcherVars == <<window, launches, processes, legacyDir, dataDir, venv, upgrade>>

Launches == 1..MaxLaunches
Bootstrapping == {"begun", "creating", "installing", "starting"}

LauncherTypeOK ==
  /\ window \in {"off", "launching", "running"} /\ launches \in 0..MaxLaunches
  /\ processes \in [Launches -> Bootstrapping \union {"none", "serving", "ended"}]
  /\ legacyDir \in {"none", "there", "fenced"} /\ dataDir \in {"none", "fresh", "part", "whole"}
  /\ venv \in {"none", "part", "bare", "ready"} /\ upgrade \in BOOLEAN

LauncherInit ==
  /\ window = "off" /\ launches = 0 /\ processes = [n \in Launches |-> "none"]
  /\ legacyDir \in {"none", "there"} /\ dataDir \in {"none", "fresh"}
  /\ venv \in IF <<legacyDir, dataDir>> = <<"none", "none">> THEN {"none"} ELSE {"none", "ready"}
  /\ upgrade = (legacyDir = "there" /\ dataDir = "none")

Becomes(n, what) == processes' = [processes EXCEPT ![n] = what]
Settled(n) == processes[n] \notin Bootstrapping
MayEnd == Undisturbed => \A n \in Launches : Settled(n)

-----------------------------------------------------------------------------
(* The launcher.                                                           *)

\* Deviation: the port is left to whoever has it.
NothingStopped(p) == p
StaleStopped(p) == [n \in Launches |-> IF p[n] = "serving" THEN "ended" ELSE p[n]]

Launch ==
  /\ window = "off" /\ launches < MaxLaunches
  /\ window' = "launching" /\ launches' = launches + 1
  /\ processes' = StaleStopped(processes)
  /\ UNCHANGED <<legacyDir, dataDir, venv, upgrade>>

\* migrate_dir renames, or else copies and removes; both may fail, the copying
\* half-way.
Moved ==
  /\ legacyDir = "there" /\ dataDir = "none"
  /\ \/ legacyDir' = "none" /\ dataDir' = "whole"
     \/ ~Undisturbed /\ UNCHANGED legacyDir /\ dataDir' \in {"none", "part", "whole"}

Fenced ==
  /\ legacyDir = "there" /\ dataDir # "none"
  /\ legacyDir' = "fenced" /\ UNCHANGED dataDir

Spawns ==
  /\ window = "launching" /\ window' = "running"
  /\ \/ Moved \/ Fenced
     \/ legacyDir # "there" /\ UNCHANGED <<legacyDir, dataDir>>
  /\ Becomes(launches, "begun") \/ Becomes(launches, "ended")
  /\ UNCHANGED <<launches, venv, upgrade>>

\* The child is killed.  On Windows that is the bootstrap and not the sidecar.
Quit ==
  /\ window = "running" /\ MayEnd /\ window' = "off"
  /\ IF OnWindows /\ processes[launches] = "serving" THEN UNCHANGED processes ELSE Becomes(launches, "ended")
  /\ UNCHANGED <<launches, legacyDir, dataDir, venv, upgrade>>

\* The child goes on.  A crash may come in the middle of the copying.
Crash ==
  /\ window # "off" /\ window' = "off" /\ MayEnd
  /\ \/ UNCHANGED dataDir
     \/ ~Undisturbed /\ window = "launching" /\ legacyDir = "there" /\ dataDir = "none" /\ dataDir' = "part"
  /\ UNCHANGED <<launches, processes, legacyDir, venv, upgrade>>

-----------------------------------------------------------------------------
(* The processes.                                                          *)

ProcessOnly == UNCHANGED <<window, launches, legacyDir, upgrade>>

\* A virtual environment is made unless its directory is there.
BeginsVenv(n) ==
  /\ processes[n] = "begun"
  /\ IF venv = "none"
     THEN /\ Becomes(n, "creating") /\ venv' = "part"
          /\ dataDir' = IF dataDir = "none" THEN "fresh" ELSE dataDir
     ELSE Becomes(n, "installing") /\ UNCHANGED <<venv, dataDir>>
  /\ ProcessOnly

MakesVenv(n) ==
  /\ processes[n] = "creating"
  /\ \/ Becomes(n, "installing") /\ venv' = "bare"
     \/ Becomes(n, "ended") /\ UNCHANGED venv
  /\ UNCHANGED dataDir /\ ProcessOnly

\* A failure to install is a warning.
Installs(n) ==
  /\ processes[n] = "installing" /\ Becomes(n, "starting")
  /\ \/ UNCHANGED venv
     \/ venv = "bare" /\ venv' = "ready"
  /\ UNCHANGED dataDir /\ ProcessOnly

\* Without its packages, or without the port, the sidecar ends at once.
Starts(n) ==
  /\ processes[n] = "starting"
  /\ Becomes(n, IF venv = "ready" /\ \A m \in Launches : processes[m] # "serving" THEN "serving" ELSE "ended")
  /\ UNCHANGED <<venv, dataDir>> /\ ProcessOnly

SidecarFails(n) ==
  /\ processes[n] = "serving" /\ Becomes(n, "ended")
  /\ UNCHANGED <<venv, dataDir>> /\ ProcessOnly

LauncherNext ==
  \/ Launch \/ Spawns \/ Quit \/ Crash
  \/ \E n \in Launches : BeginsVenv(n) \/ MakesVenv(n) \/ Installs(n) \/ Starts(n) \/ SidecarFails(n)

LauncherSpec == LauncherInit /\ [][LauncherNext]_launcherVars

-----------------------------------------------------------------------------
(* Properties.                                                             *)

\* backendStatus.ts, checkSidecarLoad.
SidecarStatus ==
  IF processes[launches] \in {"none", "ended"} THEN "error"
  ELSE IF \E n \in Launches : processes[n] = "serving" THEN "ok"
  ELSE "degraded"

\* Data of an older version is where the sidecar looks for it, or where the next
\* launch moves it from.  What serves the app is the process of this launch, which
\* the indicator watches and quitting kills: "ok" is never said of a process that
\* was left behind, nor is a served app told that its sidecar is not running
\* (lib.rs, kill_stale_port_holder).
LauncherKeepsTrack ==
  /\ upgrade => dataDir = "whole" \/ (legacyDir = "there" /\ dataDir = "none")
  /\ window = "running" =>
       \A n \in Launches : processes[n] = "serving" => n = launches /\ SidecarStatus = "ok"
===============================================================================
