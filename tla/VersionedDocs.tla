---------------------------- MODULE VersionedDocs ----------------------------
(***************************************************************************)
(* What the sync engine relies on in the cloud: a table of documents each  *)
(* of whose writes is one atomic step that bumps the version by exactly    *)
(* one.  A document appears at version 1, is never removed, and once it is *)
(* a tombstone it stays one (docs of services/sync_versioning.py: "bumping *)
(* its version"; "Marks a document deleted instead of removing it").       *)
(***************************************************************************)
EXTENDS SyncData

CONSTANT UniqueNames

VARIABLE docs

Init == docs = [i \in DocIds |-> NoDoc]

Live(i) == docs[i] # NoDoc /\ ~docs[i].deleted

\* A new document; with unique names, no live document has its name.
Insert(i, p) ==
  /\ docs[i] = NoDoc
  /\ UniqueNames => \A j \in DocIds : Live(j) => docs[j].payload.name # p.name
  /\ docs' = [docs EXCEPT ![i] = [version |-> 1, deleted |-> FALSE, payload |-> p]]

Replace(i, p) ==
  /\ docs[i] # NoDoc
  /\ docs' = [docs EXCEPT ![i].version = docs[i].version + 1, ![i].payload = p]

Bury(i) ==
  /\ docs[i] # NoDoc
  /\ docs' = [docs EXCEPT ![i].version = docs[i].version + 1, ![i].deleted = TRUE]

Next == \E i \in DocIds : Bury(i) \/ \E p \in Payload : Insert(i, p) \/ Replace(i, p)

Spec == Init /\ [][Next]_docs
=============================================================================
