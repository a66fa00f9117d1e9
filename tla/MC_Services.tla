------------------------------ MODULE MC_Services ------------------------------
(***************************************************************************)
(* Small instances of the cloud and of the sidecar's services.  They share *)
(* no state that their models keep, so one model-checking run takes them   *)
(* one at a time: service names the one whose steps are taken.             *)
(***************************************************************************)
EXTENDS CloudClients, LocalClients, FlowRunHistory, ScriptRunner, ExtensionBridge, WorkspaceFiles,
        BrowserTabs, BrowserLifecycle, PageTools, SignInRelay, Launcher

VARIABLE service

servicesVars == <<cloudVars, localVars, historyVars, scriptVars, bridgeVars, fileVars, tabVars,
                  lifecycleVars, toolVars, signInVars, launcherVars, service>>

ServicesInit ==
  /\ CloudInit /\ LocalInit /\ HistoryInit /\ ScriptsInit /\ BridgeInit /\ WorkspaceInit
  /\ TabsInit /\ LifecycleInit /\ ToolsInit /\ SignInInit
  /\ service \in {"cloud", "store", "history", "scripts", "bridge", "files", "tabs", "browser", "tools", "signin",
                 "launcher"}
  \* One of the launcher's initial states stands for it in the other services' runs.
  /\ LauncherInit
  /\ service # "launcher" => {venv, legacyDir, dataDir} = {"none"}

ServicesNext ==
  /\ UNCHANGED service
  /\ service # "cloud" => UNCHANGED cloudVars
  /\ service # "store" => UNCHANGED localVars
  /\ service # "history" => UNCHANGED historyVars
  /\ service # "scripts" => UNCHANGED scriptVars
  /\ service # "bridge" => UNCHANGED bridgeVars
  /\ service # "files" => UNCHANGED fileVars
  /\ service # "tabs" => UNCHANGED tabVars
  /\ service # "browser" => UNCHANGED lifecycleVars
  /\ service # "tools" => UNCHANGED toolVars
  /\ service # "signin" => UNCHANGED signInVars
  /\ service # "launcher" => UNCHANGED launcherVars
  /\ \/ service = "cloud" /\ CloudNext
     \/ service = "store" /\ LocalNext
     \/ service = "history" /\ HistoryNext
     \/ service = "scripts" /\ ScriptsNext
     \/ service = "bridge" /\ BridgeNext
     \/ service = "files" /\ WorkspaceNext
     \/ service = "tabs" /\ TabsNext
     \/ service = "browser" /\ LifecycleNext
     \/ service = "tools" /\ ToolsNext
     \/ service = "signin" /\ SignInNext
     \/ service = "launcher" /\ LauncherNext

\* The fairness of each component, while it is the one that runs.
ServicesSpec ==
  /\ ServicesInit /\ [][ServicesNext]_servicesVars
  /\ WF_historyVars(service = "history" /\ HistoryPolls)
  /\ WF_scriptVars(service = "scripts" /\ ScriptsServed)
  /\ \A s \in Sockets : WF_bridgeVars(service = "bridge" /\ SocketSettles(s))
  /\ WF_bridgeVars(service = "bridge" /\ TimerFires) /\ WF_bridgeVars(service = "bridge" /\ Alarm)
  /\ WF_fileVars(service = "files" /\ WorkspaceServed)
  /\ \A b \in BrowserSessions : WF_lifecycleVars(service = "browser" /\ Served(b))

-----------------------------------------------------------------------------
\* The values the services keep are always ones their code has a case for.
ServicesTypeOK ==
  /\ CloudTypeOK /\ LocalTypeOK /\ HistoryTypeOK /\ ScriptsTypeOK /\ BridgeTypeOK /\ WorkspaceTypeOK
  /\ TabsTypeOK /\ LifecycleTypeOK /\ ToolsTypeOK /\ SignInTypeOK
  /\ LauncherTypeOK
===============================================================================
