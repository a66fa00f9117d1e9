----------------------------- MODULE LocalStore -----------------------------
(***************************************************************************)
(* The sidecar's local SQLite store (backend/db/local_store.py) of every   *)
(* device, for one entity type, under the routes of routes/local_store.py. *)
(* A route handler runs to completion without an await, so each is one     *)
(* step; a batch (pull, mark-synced) is one step too.                      *)
(***************************************************************************)
EXTENDS SyncData

CONSTANTS
  Devices,    \* the machines an account is signed in on
  LocalIds,   \* local row ids, numbered in the order they are issued (uuid4:
              \* fresh, never reissued; nothing depends on their order)
  NoRow       \* "no such row"

VARIABLES
  rows,       \* rows[d][l]: the row, or NoRow
  issued      \* issued[d]: the local ids ever assigned on the device

localVars == <<rows, issued>>

\* cloud_id, payload, version, base_version and deleted of the entities table.
Row ==
  [cloudId: DocIds \cup {NoDoc}, payload: Payload,
   version: Nat, base: Nat, deleted: BOOLEAN]

ASSUME LocalIdsAssumption == LocalIds \subseteq Nat
ASSUME NoRowAssumption == NoRow \notin Row

\* One entry of a mark-synced call; resolved is NoPayload on a confirmation.
Mark == [cloudId: DocIds, base: Nat, deleted: BOOLEAN,
         resolved: Payload \cup {NoPayload}]

\* One entry of a pull call.
PullEntry == [cloudId: DocIds, version: Nat, payload: Payload]

LocalTypeOK ==
  /\ rows \in [Devices -> [LocalIds -> Row \cup {NoRow}]]
  /\ issued \in [Devices -> SUBSET LocalIds]

LocalInit ==
  /\ rows = [d \in Devices |-> [l \in LocalIds |-> NoRow]]
  /\ issued = [d \in Devices |-> {}]

Stored(d)      == {l \in LocalIds : rows[d][l] # NoRow}
FreshIds(d)    == LocalIds \ issued[d]
NextIds(d, S)  == \A l \in S, k \in FreshIds(d) : k < l => k \in S
Dirty(row)     == row.version > row.base
Linked(row)    == row.cloudId # NoDoc
\* What LocalStore.list shows.
Visible(d)     == {l \in Stored(d) : ~rows[d][l].deleted}

-----------------------------------------------------------------------------

NewRow(p) ==
  [cloudId |-> NoDoc, payload |-> p, version |-> 1, base |-> 0, deleted |-> FALSE]

PulledRow(e) ==
  [cloudId |-> e.cloudId, payload |-> e.payload,
   version |-> e.version, base |-> e.version, deleted |-> FALSE]

EditedRow(row, p) == [row EXCEPT !.payload = p, !.version = row.version + 1]

BuriedRow(row) == [row EXCEPT !.deleted = TRUE, !.version = row.version + 1]

\* Deviations: base_version alone is moved; a confirmation writes its missing
\* payload.
SyncedRowKeepsVersion(row, m) ==
  [cloudId |-> m.cloudId,
   payload |-> IF m.resolved = NoPayload THEN row.payload ELSE m.resolved,
   version |-> row.version, base |-> m.base, deleted |-> m.deleted]
SyncedRowClobbered(row, m) ==
  [cloudId |-> m.cloudId, payload |-> m.resolved,
   version |-> m.base, base |-> m.base, deleted |-> m.deleted]

\* mark_synced collapses version onto the new base and, unless told
\* otherwise, brings the row back from a tombstone.
SyncedRow(row, m) ==
  [cloudId |-> m.cloudId,
   payload |-> IF m.resolved = NoPayload THEN row.payload ELSE m.resolved,
   version |-> m.base, base |-> m.base, deleted |-> m.deleted]

Create(d, l, p) ==
  /\ l \in FreshIds(d) /\ NextIds(d, {l})
  /\ rows' = [rows EXCEPT ![d][l] = NewRow(p)]
  /\ issued' = [issued EXCEPT ![d] = @ \cup {l}]

Update(d, l, p) ==
  /\ l \in Stored(d)
  /\ rows' = [rows EXCEPT ![d][l] = EditedRow(rows[d][l], p)]
  /\ UNCHANGED issued

\* A row the cloud has never seen is removed; others become tombstones.
Delete(d, l) ==
  /\ l \in Stored(d)
  /\ rows' = [rows EXCEPT ![d][l] =
                IF Linked(rows[d][l]) THEN BuriedRow(rows[d][l]) ELSE NoRow]
  /\ UNCHANGED issued

\* pull_entities: create_synced for every entry, each under a fresh id; no
\* check that a row with that cloud id exists already.
Pull(d, entries) ==
  \E id \in [entries -> FreshIds(d)] :
    /\ \A e, f \in entries : id[e] = id[f] => e = f
    /\ NextIds(d, {id[e] : e \in entries})
    /\ rows' = [rows EXCEPT ![d] =
         [l \in LocalIds |->
            IF \E e \in entries : id[e] = l
              THEN PulledRow(CHOOSE e \in entries : id[e] = l)
              ELSE rows[d][l]]]
    /\ issued' = [issued EXCEPT ![d] = @ \cup {id[e] : e \in entries}]

\* mark_synced for every entry of marks (a function on local ids); an entry
\* whose row is gone is skipped.
MarkSynced(d, marks) ==
  /\ rows' = [rows EXCEPT ![d] =
       [l \in LocalIds |->
          IF l \in DOMAIN marks /\ l \in Stored(d)
            THEN SyncedRow(rows[d][l], marks[l])
            ELSE rows[d][l]]]
  /\ UNCHANGED issued

-----------------------------------------------------------------------------
(* A clean row's counter never runs behind the base it was synced at: the  *)
(* dirty test (version > base_version) is meaningless otherwise.           *)
VersionNotBehindBase ==
  \A d \in Devices : \A l \in Stored(d) : rows[d][l].version >= rows[d][l].base
=============================================================================
