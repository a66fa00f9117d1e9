------------------------------- MODULE MC_Studio -------------------------------
(***************************************************************************)
(* Small instances of the API studio's parts and of the request executor.  *)
(* They share no state that their models keep, so one model-checking run   *)
(* takes them one at a time: part names the one whose steps are taken.     *)
(***************************************************************************)
EXTENDS LegacyStudio, RequestDraft, CollectionTree, RequestExecutor, FlowCanvas,
        FlowTransfer

VARIABLE part

studioVars == <<legacyVars, draftVars, treeVars, execVars, canvasVars, transferVars, part>>

-----------------------------------------------------------------------------
\* A flow whose last request joins a loop and a verifier, and one
\* that delays and loops over nothing.
MCGraph == <<
  [kind |-> <<"looper", "verifier", "request">>, calls |-> <<2, 2, 1>>, edges |-> {<<1, 3>>, <<2, 3>>}],
  [kind |-> <<"delay", "looper">>, calls |-> <<1, 0>>, edges |-> {<<1, 2>>}] >>

\* Two roots: a chain of collections one short of the limit with a request in
\* it, and one that fills up when two levels are moved into it.
MCNodes == {"s1", "s2", "s3", "s4", "s5", "s6", "r1", "r2"}
MCKind == [n \in MCNodes |-> IF n \in {"r1", "r2"} THEN "request" ELSE "collection"]
MCTree(up) == [up |-> up, says |-> [n \in DOMAIN up |-> 0]]
MCTrees ==
  ("A" :> MCTree("s1" :> "A" @@ "s2" :> "s1" @@ "s3" :> "s2" @@ "r1" :> "s1"))
    @@ ("B" :> MCTree("s4" :> "B" @@ "s5" :> "s4"))

-----------------------------------------------------------------------------
\* A part that does not run starts in one state only.
StudioInit ==
  /\ LegacyInit /\ DraftInit /\ TreeInit /\ ExecInit /\ CanvasInit /\ TransferInit
  /\ part \in {"legacy", "draft", "tree", "executor", "canvas", "transfer"}
  /\ part # "legacy" => legacyShown = 1
  /\ part # "draft" => /\ text = CHOOSE t \in DraftTexts : TRUE
                       /\ \A r \in DraftRequests : savedText[r] = text /\ draftPref[r] = NoDraft
  /\ part # "executor" => \A k \in EnvKeys : execEnv[k] = 0

StudioNext ==
  /\ UNCHANGED part
  /\ part # "legacy" => UNCHANGED legacyVars
  /\ part # "draft" => UNCHANGED draftVars
  /\ part # "tree" => UNCHANGED treeVars
  /\ part # "executor" => UNCHANGED execVars
  /\ part # "canvas" => UNCHANGED canvasVars
  /\ part # "transfer" => UNCHANGED transferVars
  /\ \/ part = "legacy" /\ LegacyNext
     \/ part = "draft" /\ DraftNext
     \/ part = "tree" /\ TreeNext
     \/ part = "executor" /\ ExecNext
     \/ part = "canvas" /\ CanvasNext
     \/ part = "transfer" /\ TransferNext

StudioSpec == StudioInit /\ [][StudioNext]_studioVars

-----------------------------------------------------------------------------
\* The values the studios keep are always ones their code has a case for.
\* The trees, which take long to look at, stay as they are in the other parts.
StudioTypeOK ==
  /\ LegacyTypeOK /\ DraftTypeOK /\ ExecTypeOK /\ CanvasTypeOK /\ TransferTypeOK
  /\ part = "tree" => TreeTypeOK
===============================================================================
