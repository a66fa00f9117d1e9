------------------------------ MODULE SyncDiff ------------------------------
(***************************************************************************)
(* The decisions of a sync pass (runSync in syncEngine.ts).  The code      *)
(* makes them row by row while it walks the lists; they depend on nothing  *)
(* but the four responses the pass began with:                             *)
(*   localState  local sync-state: row -> [cloudId, dirty, base, deleted]  *)
(*   localList   local list: row -> content; tombstones are left out       *)
(*   cloudState  cloud sync-state: document -> [version, deleted]          *)
(*   cloudList   cloud list: document -> whole document; live ones only    *)
(* A row or document that is not in the domain was not in the response.    *)
(***************************************************************************)
EXTENDS SyncData

\* SyncConflict: the captured local content, the captured cloud document.
Conflict(l, p, i, doc) == [row |-> l, local |-> p, doc |-> i, cloud |-> doc]

\* An entry of mark-synced.
MarkEntry(i, v, deleted, p) ==
  [cloudId |-> i, base |-> v, deleted |-> deleted, resolved |-> p]

\* One push of pass 1: the row, the content it carries (NoPayload for a
\* delete), the request, and the conflict to report if the name is taken.
PushOf(l, p, req, collision) ==
  [row |-> l, local |-> p, request |-> req, collision |-> collision]

-----------------------------------------------------------------------------
(* Pass 1: rows to push. *)

\* Deviation: a refused create is never matched with the document it met.
NamesakeMissed(l, p, cloudList) == {}

\* cloudFull.find(d => d.name === outgoing.name): the first document listed.
Namesake(l, p, cloudList) ==
  LET same == {i \in DOMAIN cloudList : cloudList[i].payload.name = p.name} IN
  {Conflict(l, p, i, cloudList[i]) : i \in {j \in same : \A k \in same : j <= k}}

\* Deviation: every dirty row is POSTed, linked or not.
CreatesAnyDirty(localState, localList, cloudList) ==
  {PushOf(l, localList[l], [op |-> "create", payload |-> localList[l]],
          Namesake(l, localList[l], cloudList)) :
     l \in {k \in DOMAIN localState \cap DOMAIN localList : localState[k].dirty}}

Creates(localState, localList, cloudList) ==
  {PushOf(l, localList[l], [op |-> "create", payload |-> localList[l]],
          Namesake(l, localList[l], cloudList)) :
     l \in {k \in DOMAIN localState \cap DOMAIN localList :
              localState[k].cloudId = NoDoc /\ ~localState[k].deleted}}

\* Dirty rows whose document the cloud still knows.
DirtyKnown(localState, cloudState) ==
  {l \in DOMAIN localState :
     localState[l].cloudId \in DOMAIN cloudState /\ localState[l].dirty}

Deletes(localState, cloudState) ==
  {PushOf(l, NoPayload, [op |-> "delete", doc |-> localState[l].cloudId], {}) :
     l \in {k \in DirtyKnown(localState, cloudState) : localState[k].deleted}}

Updates(localState, localList, cloudState) ==
  {PushOf(l, localList[l],
          [op |-> "update", doc |-> localState[l].cloudId, payload |-> localList[l],
           expected |-> localState[l].base, force |-> FALSE], {}) :
     l \in {k \in DirtyKnown(localState, cloudState) \cap DOMAIN localList :
              ~localState[k].deleted}}

Pushes(localState, localList, cloudState, cloudList) ==
  Creates(localState, localList, cloudList)
    \cup Deletes(localState, cloudState)
    \cup Updates(localState, localList, cloudState)

-----------------------------------------------------------------------------
(* Pass 2: documents to pull. *)

LinkedRows(localState, i) == {l \in DOMAIN localState : localState[l].cloudId = i}

\* Documents no row is linked to become new rows.  The version comes from the
\* sync-state response, the content from the list response.
NewRecords(localState, cloudState, cloudList) ==
  {[cloudId |-> i, version |-> cloudState[i].version, payload |-> cloudList[i].payload] :
     i \in {j \in DOMAIN cloudState \cap DOMAIN cloudList :
              LinkedRows(localState, j) = {} /\ ~cloudState[j].deleted}}

\* localByCloudId: each linked document's row; of several rows with one cloud id
\* the last one listed wins, and the sync-state query has no ORDER BY.
LocalByCloudId(localState, cloudState) ==
  LET linked == {i \in DOMAIN cloudState : LinkedRows(localState, i) # {}} IN
  {f \in [linked -> DOMAIN localState] : \A i \in linked : f[i] \in LinkedRows(localState, i)}

\* Deviations: dirty rows are pulled over too; tombstones are not pulled.
StaleRowsEvenDirty(localState, cloudState, cloudList, byCloudId) ==
  {l \in {byCloudId[i] : i \in DOMAIN byCloudId} :
     LET i == localState[l].cloudId IN
     /\ cloudState[i].version > localState[l].base
     /\ cloudState[i].deleted \/ i \in DOMAIN cloudList}
StaleRowsListed(localState, cloudState, cloudList, byCloudId) ==
  {l \in {byCloudId[i] : i \in DOMAIN byCloudId} :
     LET i == localState[l].cloudId IN
     /\ ~localState[l].dirty
     /\ cloudState[i].version > localState[l].base
     /\ i \in DOMAIN cloudList}

\* Clean rows the cloud has moved past, as entries of mark-synced.
StaleRows(localState, cloudState, cloudList, byCloudId) ==
  {l \in {byCloudId[i] : i \in DOMAIN byCloudId} :
     LET i == localState[l].cloudId IN
     /\ ~localState[l].dirty
     /\ cloudState[i].version > localState[l].base
     /\ cloudState[i].deleted \/ i \in DOMAIN cloudList}

StaleMarks(localState, cloudState, cloudList, byCloudId) ==
  [l \in StaleRows(localState, cloudState, cloudList, byCloudId) |->
     LET i == localState[l].cloudId IN
     MarkEntry(i, cloudState[i].version, cloudState[i].deleted,
               IF cloudState[i].deleted THEN NoPayload ELSE cloudList[i].payload)]
=============================================================================
