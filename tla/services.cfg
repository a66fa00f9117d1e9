SPECIFICATION ServicesSpec
CONSTANTS
 MaxDocs = 2
 MaxEdits = 1
 Names = {n1}
 NoDoc = nodoc
 NoPayload = nopayload
 Devices = {d1}
 LocalIds = {1, 2}
 NoRow = norow
 MaxRowVersion = 2
 RetainedRuns = 2
 ShownRuns = 1
 HistoryEnd = 3
 MaxRuns = 3
 MaxStops = 2
 MaxPageLoads = 1
 Sockets = {s1, s2, s3}
 NoSocket = nosocket
 Ports = 2
 SidecarPort = 1
 BridgeRequests = {q1}
 MaxStarts = 2
 MaxKills = 1
 WorkspaceFileNames = {main, rec, own}
 MainFile = main
 RecordingFile = rec
 Protected = {main, rec}
 NoFile = nofile
 MaxFileEdits = 6
 Hurried = FALSE
 Clients = {w1, w2}
 UniqueNames = TRUE
 CreateDropsContent = FALSE
 Serialized = TRUE
 MaxVersion = 2
 BrowserPages = {p1, p2, p3}
 NoPage = nopage
 MaxClicks = 3
 MaxReloads = 1
 Calm = TRUE
 BrowserSessions = {b1, b2}
 NoSession = nosession
 InOrder = TRUE
 MaxAsks = 3
 MaxToggles = 3
 MaxSteps = 2
 Watchful = TRUE
 Apart = TRUE
 MaxSignIns = 2
 MaxOutages = 1
 Unhurried = TRUE
 NoLateTabs = TRUE
 MaxLaunches = 3
 OnWindows = TRUE
 Undisturbed = TRUE
INVARIANTS ServicesTypeOK  FilesKeepTheirOwn ShownIsActive SessionStays DrivesAlone ResultsAreLast LauncherKeepsTrack
PROPERTIES ImplementsVersionedDocs EditsAreDirty HistoryIsShown StopStops  SessionsEnd  SignInArrives
\* The bounds let every service stop.
CHECK_DEADLOCK FALSE
