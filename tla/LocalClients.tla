---------------------------- MODULE LocalClients ----------------------------
(***************************************************************************)
(* The local store under windows that may call any of its routes at any    *)
(* time with any arguments: what the store itself guarantees, whatever the *)
(* sync engine does.                                                       *)
(***************************************************************************)
EXTENDS LocalStore

CONSTANT MaxRowVersion   \* bound on the versions callers bring in and edit up to

ASSUME MaxRowVersionAssumption == MaxRowVersion \in Nat

SomeMark ==
  [cloudId: DocIds, base: 0..MaxRowVersion, deleted: BOOLEAN,
   resolved: Payload \cup {NoPayload}]

SomePullEntry == [cloudId: DocIds, version: 0..MaxRowVersion, payload: Payload]

Editable(d) == {l \in Stored(d) : rows[d][l].version < MaxRowVersion}

LocalNext ==
  \E d \in Devices :
    \/ \E l \in LocalIds, p \in Payload : Create(d, l, p)
    \/ \E l \in Editable(d), p \in Payload : Update(d, l, p)
    \/ \E l \in Editable(d) : Delete(d, l)
    \/ \E e \in SomePullEntry : Pull(d, {e})
    \/ \E l \in LocalIds, m \in SomeMark : MarkSynced(d, [k \in {l} |-> m])

LocalSpec == LocalInit /\ [][LocalNext]_localVars

-----------------------------------------------------------------------------
(* Properties. *)

\* Saving or deleting a synced row always leaves it dirty, so that a later
\* pass pushes it.  This is what collapsing version onto base_version in
\* mark_synced is for (comment at local_store.py:405-409).
EditsAreDirty ==
  [][\A d \in Devices : \A l \in Stored(d) :
       \/ \E p \in Payload : Update(d, l, p)
       \/ Delete(d, l) /\ rows'[d][l] # NoRow
       => Dirty(rows'[d][l])]_localVars

\* A row linked to a cloud document is never unlinked and never just removed:
\* its deletion stays behind as a tombstone for the next pass to push.
LinkedRowsStay ==
  [][\A d \in Devices : \A l \in Stored(d) :
       Linked(rows[d][l]) => rows'[d][l] # NoRow /\ Linked(rows'[d][l])]_localVars
=============================================================================
