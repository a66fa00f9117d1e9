----------------------------- MODULE FlowPromise -----------------------------
(***************************************************************************)
(* What a run promises to whoever started it: node by node it tells what   *)
(* the graph means.  Once the run is cancelled a node may fail or be       *)
(* skipped instead, but what still succeeds is what the graph means.       *)
(***************************************************************************)
VARIABLES
  meaning,      \* the status the graph gives each node
  told,         \* what the run has reported so far
  over          \* the run was cancelled

Untold == DOMAIN meaning \ DOMAIN told
PromiseInit == told = [n \in {} |-> "untold"] /\ over = FALSE
Tell ==
  \E n \in Untold :
    \E s \in {meaning[n]} \cup (IF over THEN {"failed", "skipped"} ELSE {}) :
      told' = [m \in DOMAIN told \cup {n} |-> IF m = n THEN s ELSE told[m]]
  /\ UNCHANGED <<meaning, over>>
CallOff == ~over /\ over' = TRUE /\ UNCHANGED <<meaning, told>>

PromiseVars == <<meaning, told, over>>
PromiseSpec == PromiseInit /\ [][Tell \/ CallOff]_PromiseVars /\ <>(Untold = {})
=============================================================================
