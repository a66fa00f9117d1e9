------------------------------ MODULE SyncData ------------------------------
(***************************************************************************)
(* The data the two stores of the local-first sync exchange.  A record's   *)
(* content is abstracted to what the sync properties tell apart: its name  *)
(* (the only field the cloud looks at) and the set of edits it is derived  *)
(* from.  An edit is a fresh number; saving a record adds one, so "content *)
(* Q was written by somebody who had seen P" is P.edits \subseteq Q.edits. *)
(***************************************************************************)
EXTENDS Naturals, FiniteSets

CONSTANTS
  MaxDocs,    \* bound: cloud documents are numbered in insertion order
  MaxEdits,   \* bound: how many edits all users make together
  Names,      \* the record names users choose from
  NoDoc,      \* "no such cloud document"; also a local row's NULL cloud_id
  NoPayload   \* "no payload": mark-synced without resolvedPayload

ASSUME BoundsAssumption == MaxDocs \in Nat /\ MaxEdits \in Nat

DocIds  == 1..MaxDocs
Edits   == 1..MaxEdits
Payload == [name: Names, edits: SUBSET Edits]

\* A cloud document: its version counter, tombstone flag and content.
Doc == [version: Nat, deleted: BOOLEAN, payload: Payload]

ASSUME SentinelAssumption ==
  /\ NoDoc \notin Doc /\ NoDoc \notin DocIds
  /\ NoPayload \notin Payload

\* Whoever wrote q had seen everything in p.
DerivesFrom(q, p) == p.edits \subseteq q.edits
=============================================================================
