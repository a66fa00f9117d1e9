----------------------------- MODULE MC_Converge -----------------------------
(***************************************************************************)
(* The liveness run of the sync: of one entity type (SyncProperties), or   *)
(* of the references between two (SyncReferences).  A delete that races    *)
(* with Keep Local leaves the devices apart for ever, so users either      *)
(* delete or answer conflicts with the local side, never both.             *)
(***************************************************************************)
EXTENDS SyncProperties, SyncReferences

VARIABLE story    \* which of the two runs, and what users may do in the first

OneType == story \in {"delete", "keepLocal"}

ConvergeInit == Init /\ RefInit /\ story \in {"delete", "keepLocal", "references"}

ConvergeNext ==
  /\ UNCHANGED story
  /\ \/ OneType /\ Next /\ UNCHANGED refVars
     \/ story = "references" /\ RefNext /\ UNCHANGED vars
  /\ \A d \in Devices :
       /\ story = "delete" => ~KeepLocal(d)
       /\ story = "keepLocal" => ~UserDeletes(d)

\* EngineFairness and RefFairness, while it is their turn.
ConvergeSpec ==
  /\ ConvergeInit /\ [][ConvergeNext]_<<vars, refVars, story>>
  /\ WF_vars(OneType /\ CloudStep)
  /\ \A d \in Devices :
       /\ SF_vars(OneType /\ StartPass(d))
       /\ WF_vars(OneType /\ PassStep(d)) /\ WF_vars(OneType /\ DialogStep(d))
       /\ SF_vars(OneType /\ (KeepCloud(d) \/ (story = "keepLocal" /\ KeepLocal(d))))
  /\ \A d \in RefDevices :
       /\ WF_refVars(story = "references" /\ RefPassStep(d))
       /\ WF_refVars(story = "references" /\ SyncTimer(d))
===============================================================================
