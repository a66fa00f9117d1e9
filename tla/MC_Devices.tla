----------------------------- MODULE MC_Devices -----------------------------
(***************************************************************************)
(* Several devices that sync at the same time: one entity type in every    *)
(* detail (SyncProperties), or the references between two (SyncReferences).*)
(***************************************************************************)
EXTENDS SyncProperties, SyncReferences

VARIABLE subject    \* "rows" or "references"

DevicesInit == Init /\ RefInit /\ subject \in {"rows", "references"}

DevicesNext ==
  /\ UNCHANGED subject
  /\ \/ subject = "rows" /\ Next /\ UNCHANGED refVars
     \/ subject = "references" /\ RefNext /\ UNCHANGED vars

DevicesSpec == DevicesInit /\ [][DevicesNext]_<<vars, refVars, subject>>
=============================================================================
