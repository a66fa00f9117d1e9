----------------------------- MODULE CloudStore -----------------------------
(***************************************************************************)
(* The Cloud API's versioned documents of one entity type: the create,     *)
(* update and delete routes (routes/flows.py, environments.py, profiles.py,*)
(* collections.py) over services/sync_versioning.py and MongoDB.           *)
(*                                                                         *)
(* Every mutating route is an asyncio handler with two awaits on MongoDB:  *)
(* it first reads (find_one), decides, and then writes (insert_one or      *)
(* find_one_and_update).  The two are separate steps here, so the handlers *)
(* of two clients interleave between them.                                 *)
(***************************************************************************)
EXTENDS SyncData

CONSTANTS
  Clients,             \* the callers; each has one request outstanding
  UniqueNames,         \* TRUE for environments and browser profiles
  CreateDropsContent,  \* TRUE for collections: POST takes a name only
  Serialized           \* TRUE when no two handlers overlap between the
                       \* read and the write (see README)

ASSUME CloudKnobsAssumption ==
  /\ UniqueNames \in BOOLEAN /\ CreateDropsContent \in BOOLEAN
  /\ Serialized \in BOOLEAN

VARIABLES
  docs,     \* the MongoDB collection
  handler   \* handler[c]: the route handler working for client c

cloudVars == <<docs, handler>>

-----------------------------------------------------------------------------
(* Requests, and the stages of the handler that serves one. *)

Request ==
  [op: {"create"}, payload: Payload]
    \cup [op: {"update"}, doc: DocIds, payload: Payload, expected: Nat, force: BOOLEAN]
    \cup [op: {"delete"}, doc: DocIds]

Idle          == [stage |-> "idle"]
Received(req) == [stage |-> "received", req |-> req]
\* After find_one: the version it saw (0 for a create, which has none).
Staged(req, v) == [stage |-> "staged", req |-> req, read |-> v]
Replied(status, id, doc) ==
  [stage |-> "replied", status |-> status, doc |-> id, result |-> doc]

Status  == {200, 400, 404, 409}
Handler ==
  {Idle} \cup [stage: {"received"}, req: Request]
         \cup [stage: {"staged"}, req: Request, read: Nat]
         \cup [stage: {"replied"}, status: Status, doc: DocIds \cup {NoDoc},
               result: Doc \cup {NoDoc}]

CloudTypeOK ==
  /\ docs \in [DocIds -> Doc \cup {NoDoc}]
  /\ handler \in [Clients -> Handler]

CloudInit ==
  /\ docs = [i \in DocIds |-> NoDoc]
  /\ handler = [c \in Clients |-> Idle]

Exists(i) == docs[i] # NoDoc
Live(i)   == Exists(i) /\ ~docs[i].deleted
Unused    == {i \in DocIds : ~Exists(i)}

-----------------------------------------------------------------------------
(* The client side of a call. *)

Send(c, req) ==
  /\ handler[c] = Idle
  /\ handler' = [handler EXCEPT ![c] = Received(req)]
  /\ UNCHANGED docs

\* The client takes the response.
Take(c) ==
  /\ handler[c].stage = "replied"
  /\ handler' = [handler EXCEPT ![c] = Idle]
  /\ UNCHANGED docs

\* The request never arrived, or its response did not: the client cannot tell.
Lose(c) ==
  /\ handler[c].stage \in {"received", "replied"}
  /\ handler' = [handler EXCEPT ![c] = Idle]
  /\ UNCHANGED docs

-----------------------------------------------------------------------------
(* The first await: read and decide. *)

Missing(req) == req.op # "create" /\ ~Exists(req.doc)

\* Deviation: the version comparison the wrong way round.
ConflictingBackwards(req) ==
  /\ req.op = "update" /\ Exists(req.doc)
  /\ ~req.force
  /\ docs[req.doc].version < req.expected

\* apply_versioned_update: expected_version given, no force, no match.
Conflicting(req) ==
  /\ req.op = "update" /\ Exists(req.doc)
  /\ ~req.force
  /\ docs[req.doc].version # req.expected

NameTaken(name) == \E i \in DocIds : Live(i) /\ docs[i].payload.name = name

Colliding(req) ==
  UniqueNames /\ req.op = "create" /\ NameTaken(req.payload.name)

MayRead == Serialized => \A o \in Clients : handler[o].stage # "staged"

Answer(c, status, id, doc) ==
  handler' = [handler EXCEPT ![c] = Replied(status, id, doc)]

RaiseNotFound(c) ==
  /\ handler[c].stage = "received" /\ MayRead
  /\ Missing(handler[c].req)
  /\ Answer(c, 404, NoDoc, NoDoc)
  /\ UNCHANGED docs

\* The 409 carries the current document.
RaiseConflict(c) ==
  /\ handler[c].stage = "received" /\ MayRead
  /\ Conflicting(handler[c].req)
  /\ Answer(c, 409, handler[c].req.doc, docs[handler[c].req.doc])
  /\ UNCHANGED docs

RaiseNameTaken(c) ==
  /\ handler[c].stage = "received" /\ MayRead
  /\ Colliding(handler[c].req)
  /\ Answer(c, 400, NoDoc, NoDoc)
  /\ UNCHANGED docs

FindOne(c) ==
  /\ handler[c].stage = "received" /\ MayRead
  /\ LET req == handler[c].req IN
       /\ ~Missing(req) /\ ~Conflicting(req) /\ ~Colliding(req)
       /\ handler' = [handler EXCEPT ![c] =
            Staged(req, IF req.op = "create" THEN 0 ELSE docs[req.doc].version)]
  /\ UNCHANGED docs

-----------------------------------------------------------------------------
(* The second await: write.  The write is unconditional: it does not look  *)
(* at the version again, and an update leaves the deleted flag alone.      *)

CreatedDoc(p) ==
  [version |-> 1, deleted |-> FALSE,
   payload |-> IF CreateDropsContent THEN [p EXCEPT !.edits = {}] ELSE p]

UpdatedDocSameVersion(doc, read, p) == [doc EXCEPT !.version = read, !.payload = p]

UpdatedDoc(doc, read, p) == [doc EXCEPT !.version = read + 1, !.payload = p]

BuriedDoc(doc, read) == [doc EXCEPT !.version = read + 1, !.deleted = TRUE]

Write(c, id, doc) ==
  /\ docs' = [docs EXCEPT ![id] = doc]
  /\ Answer(c, 200, id, doc)

Pending(c, op) == handler[c].stage = "staged" /\ handler[c].req.op = op

InsertOne(c) ==
  /\ Pending(c, "create")
  /\ \E i \in Unused :
       /\ \A j \in Unused : i <= j
       /\ Write(c, i, CreatedDoc(handler[c].req.payload))

UpdateOne(c) ==
  /\ Pending(c, "update")
  /\ LET req == handler[c].req IN
       Write(c, req.doc, UpdatedDoc(docs[req.doc], handler[c].read, req.payload))

SoftDelete(c) ==
  /\ Pending(c, "delete")
  /\ LET req == handler[c].req IN
       Write(c, req.doc, BuriedDoc(docs[req.doc], handler[c].read))

HandlerStep(c) ==
  \/ RaiseNotFound(c) \/ RaiseConflict(c) \/ RaiseNameTaken(c)
  \/ FindOne(c)
  \/ InsertOne(c) \/ UpdateOne(c) \/ SoftDelete(c)
=============================================================================
