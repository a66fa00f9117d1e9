---------------------------- MODULE CloudClients ----------------------------
(***************************************************************************)
(* The Cloud API under clients that may send any request at any time: any  *)
(* content, any expected_version, forced or not, for any document.         *)
(***************************************************************************)
EXTENDS CloudStore

CONSTANT MaxVersion   \* bound: clients stop writing to a document here

ASSUME MaxVersionAssumption == MaxVersion \in Nat

\* A forced update ignores expected_version, so one value stands for all.
AnyRequest ==
  [op: {"create"}, payload: Payload]
    \cup [op: {"update"}, doc: DocIds, payload: Payload,
          expected: 0..MaxVersion, force: {FALSE}]
    \cup [op: {"update"}, doc: DocIds, payload: Payload, expected: {0}, force: {TRUE}]
    \cup [op: {"delete"}, doc: DocIds]

\* The clients whose create is under way.
Creating == {c \in Clients : /\ handler[c].stage \in {"received", "staged"}
                             /\ handler[c].req.op = "create"}

\* Refused requests are always within bounds: they write nothing.
WithinBounds(req) ==
  \/ Missing(req) \/ Conflicting(req) \/ Colliding(req)
  \/ req.op = "create" /\ Cardinality(Creating) < Cardinality(Unused)
  \/ req.op # "create" /\ Exists(req.doc) /\ docs[req.doc].version < MaxVersion

SendAny(c) == \E req \in AnyRequest : WithinBounds(req) /\ Send(c, req)

CloudNext ==
  \E c \in Clients : SendAny(c) \/ Take(c) \/ Lose(c) \/ HandlerStep(c)

CloudSpec == CloudInit /\ [][CloudNext]_cloudVars

-----------------------------------------------------------------------------
(* What the cloud promises. *)

\* An update that named the version it expects and was accepted replaced
\* exactly that version: two clients that both saw version v cannot both
\* succeed (docstring of apply_versioned_update, sync_versioning.py:41-43).
NoLostUpdate ==
  [][\A c \in Clients :
       /\ Pending(c, "update") /\ ~handler[c].req.force
       /\ handler'[c].stage = "replied"
       => docs[handler[c].req.doc].version = handler[c].req.expected]_cloudVars

\* A tombstone is for ever, whatever updates (forced ones included) race with
\* the delete: apply_versioned_update never writes the deleted flag.
TombstonesArePermanent ==
  [][\A i \in DocIds :
       Exists(i) /\ docs[i].deleted => docs'[i] # NoDoc /\ docs'[i].deleted]_cloudVars

\* A create never adds a second live document with a taken name, for the kinds
\* whose create route checks (create_environment, create_profile).
CreateKeepsNamesUnique ==
  [][\A c \in Clients :
       UniqueNames /\ Pending(c, "create") /\ handler'[c].stage = "replied"
       => ~NameTaken(handler[c].req.payload.name)]_cloudVars

\* The atomic table the sync engine relies on.
Abstract == INSTANCE VersionedDocs
ImplementsVersionedDocs == Abstract!Spec
=============================================================================
