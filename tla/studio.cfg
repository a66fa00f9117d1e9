SPECIFICATION StudioSpec
CONSTANTS
 LegacyFlows = {1, 2}
 LegacyGraph <- MCGraph
 MaxLegacyRuns = 3
 DraftRequests = {a, b}
 DraftTexts = {t1, t2, t3}
 NoDraft = nodraft
 Hasty = FALSE
 ReadsFail = FALSE
 MaxCalls = 3
 TreeRoots = {"A", "B"}
 TreeNodes <- MCNodes
 TreeKind <- MCKind
 FirstTrees <- MCTrees
 MaxDepth = 5
 Overlap = FALSE
 MaxTreeOps = 2
 ExecRuns = {r1, r2}
 EnvKeys = {k1, k2}
 EnvValues = {0, 1}
 TokenLife = {1, 3}
 Margin = 1
 ExecEnd = 1
 CanvasFlows = {f1, f2}
 Blocks = {k1, k2, k3}
 MaxUndo = 2
 MaxCanvasEdits = 4
 MaxConnections = 3
 MaxCanvasCalls = 2
 PulledMeanwhile = FALSE
 RashUndo = FALSE
 RashCalls = FALSE
 Installations = {here, there}
 RequestNames = {rn}
 Nothing = nothing
 MaxRequestIds = 3
 MaxFlowIds = 2
INVARIANTS StudioTypeOK SummariesAreWhole   CanvasIsSound  LinksMeanTheSame
 
\* The bounds let every part stop.
CHECK_DEADLOCK FALSE
