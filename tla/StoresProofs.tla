---------------------------- MODULE StoresProofs ----------------------------
(***************************************************************************)
(* What the two stores guarantee: the local store of the sidecar, and the  *)
(* Cloud API.                                                              *)
(***************************************************************************)
EXTENDS LocalClients, CloudClients, TLAPS

-----------------------------------------------------------------------------
(***************************************************************************)
(* What the local store guarantees for any devices, row ids, names and     *)
(* bounds, whatever its callers do.  One inductive invariant carries all   *)
(* of it: rows are well typed, an id that holds a row has been issued (so  *)
(* a fresh id never overwrites one), and no row's version is behind the    *)
(* version it was synced at.                                               *)
(***************************************************************************)

\* A row id is issued before it holds a row.
StoredIsIssued == \A d \in Devices : Stored(d) \subseteq issued[d]

LocalInv == LocalTypeOK /\ StoredIsIssued /\ VersionNotBehindBase

-----------------------------------------------------------------------------
(* The rows the operations write. *)

\* Every row an operation writes is well typed, and never behind its base.
LEMMA NewRowGood ==
  ASSUME NEW p \in Payload
  PROVE  NewRow(p) \in Row /\ NewRow(p).version >= NewRow(p).base
BY DEF NewRow, Row

LEMMA PulledRowGood ==
  ASSUME NEW e \in PullEntry
  PROVE  /\ PulledRow(e) \in Row /\ PulledRow(e).version >= PulledRow(e).base
         /\ PulledRow(e).cloudId \in DocIds
BY DEF PulledRow, PullEntry, Row

LEMMA EditedRowGood ==
  ASSUME NEW row \in Row, row.version >= row.base, NEW p \in Payload
  PROVE  /\ EditedRow(row, p) \in Row
         /\ EditedRow(row, p).version > EditedRow(row, p).base
         /\ EditedRow(row, p).cloudId = row.cloudId
<1>1. PICK v \in Nat : v = row.version + 1
  BY DEF Row
<1>2. EditedRow(row, p) = [[row EXCEPT !.payload = p] EXCEPT !.version = v]
  BY <1>1 DEF EditedRow
<1>3. [row EXCEPT !.payload = p] \in Row
  BY DEF Row
<1>4. EditedRow(row, p) \in Row
  BY <1>2, <1>3 DEF Row
<1>5. /\ EditedRow(row, p).version = v
      /\ EditedRow(row, p).base = row.base
      /\ EditedRow(row, p).cloudId = row.cloudId
  BY <1>2 DEF Row
<1> QED
  BY <1>1, <1>4, <1>5 DEF Row

LEMMA BuriedRowGood ==
  ASSUME NEW row \in Row, row.version >= row.base
  PROVE  /\ BuriedRow(row) \in Row
         /\ BuriedRow(row).version > BuriedRow(row).base
         /\ BuriedRow(row).cloudId = row.cloudId
<1>1. PICK v \in Nat : v = row.version + 1
  BY DEF Row
<1>2. BuriedRow(row) = [[row EXCEPT !.deleted = TRUE] EXCEPT !.version = v]
  BY <1>1 DEF BuriedRow
<1>3. [row EXCEPT !.deleted = TRUE] \in Row
  BY DEF Row
<1>4. BuriedRow(row) \in Row
  BY <1>2, <1>3 DEF Row
<1>5. /\ BuriedRow(row).version = v
      /\ BuriedRow(row).base = row.base
      /\ BuriedRow(row).cloudId = row.cloudId
  BY <1>2 DEF Row
<1> QED
  BY <1>1, <1>4, <1>5 DEF Row

LEMMA SyncedRowGood ==
  ASSUME NEW row \in Row, NEW m \in Mark
  PROVE  /\ SyncedRow(row, m) \in Row
         /\ SyncedRow(row, m).version >= SyncedRow(row, m).base
         /\ SyncedRow(row, m).cloudId \in DocIds
BY DEF SyncedRow, Mark, Row

-----------------------------------------------------------------------------
(* What a step can have done to one row. *)

\* The outcomes a step of any caller can have for row l of device d.
Written(d, l) ==
  \/ rows'[d][l] = rows[d][l]
  \/ rows[d][l] = NoRow /\ \E p \in Payload : rows'[d][l] = NewRow(p)
  \/ rows[d][l] = NoRow /\ \E e \in PullEntry : rows'[d][l] = PulledRow(e)
  \/ rows[d][l] # NoRow /\ \E p \in Payload : rows'[d][l] = EditedRow(rows[d][l], p)
  \/ rows[d][l] # NoRow /\ rows'[d][l] = BuriedRow(rows[d][l])
  \/ rows[d][l] # NoRow /\ ~Linked(rows[d][l]) /\ rows'[d][l] = NoRow
  \/ rows[d][l] # NoRow /\ \E m \in Mark : rows'[d][l] = SyncedRow(rows[d][l], m)

\* The shape of the two variables, without what the rows hold.
Shape ==
  /\ DOMAIN rows = Devices /\ rows = [d \in Devices |-> rows[d]]
  /\ \A d \in Devices : DOMAIN rows[d] = LocalIds /\ rows[d] = [l \in LocalIds |-> rows[d][l]]
  /\ issued \in [Devices -> SUBSET LocalIds]

\* Every step changes rows only in one of those ways, keeps the shape of the
\* variables, never withdraws an id, and issues the ids of the rows it adds.
LEMMA StepWrites ==
  ASSUME LocalInv, LocalNext
  PROVE  /\ Shape'
         /\ \A d \in Devices : \A l \in LocalIds : Written(d, l)
         /\ \A d \in Devices : issued[d] \subseteq issued'[d]
         /\ \A d \in Devices : \A l \in LocalIds :
              rows[d][l] = NoRow /\ rows'[d][l] # NoRow => l \in issued'[d]
<1> USE DEF LocalInv, LocalTypeOK
<1>1. PICK d \in Devices :
        \/ \E l \in LocalIds, p \in Payload : Create(d, l, p)
        \/ \E l \in Editable(d), p \in Payload : Update(d, l, p)
        \/ \E l \in Editable(d) : Delete(d, l)
        \/ \E e \in SomePullEntry : Pull(d, {e})
        \/ \E l \in LocalIds, m \in SomeMark : MarkSynced(d, [k \in {l} |-> m])
  BY DEF LocalNext
<1>2. CASE \E l \in LocalIds, p \in Payload : Create(d, l, p)
  <2>1. PICK l \in LocalIds, p \in Payload : Create(d, l, p)
    BY <1>2
  <2>2. rows[d][l] = NoRow
    BY <2>1 DEF Create, FreshIds, StoredIsIssued, Stored
  <2> QED
    BY <2>1, <2>2 DEF Create, Written, Shape
<1>3. CASE \E l \in Editable(d), p \in Payload : Update(d, l, p)
  <2>1. PICK l \in LocalIds, p \in Payload : rows[d][l] # NoRow /\ Update(d, l, p)
    BY <1>3 DEF Editable, Stored
  <2>2. \A c \in Devices : \A k \in LocalIds : rows'[c][k] =
          IF c = d /\ k = l THEN EditedRow(rows[d][l], p) ELSE rows[c][k]
    BY <2>1 DEF Update
  <2> QED
    BY <2>1, <2>2 DEF Update, Written, Shape
<1>4. CASE \E l \in Editable(d) : Delete(d, l)
  <2>1. PICK l \in LocalIds : rows[d][l] # NoRow /\ Delete(d, l)
    BY <1>4 DEF Editable, Stored
  <2>2. \A c \in Devices : \A k \in LocalIds : rows'[c][k] =
          IF c = d /\ k = l
            THEN IF Linked(rows[d][l]) THEN BuriedRow(rows[d][l]) ELSE NoRow
            ELSE rows[c][k]
    BY <2>1 DEF Delete
  <2> QED
    BY <2>1, <2>2 DEF Delete, Written, Shape
<1>5. CASE \E e \in SomePullEntry : Pull(d, {e})
  <2>1. PICK e \in SomePullEntry : Pull(d, {e})
    BY <1>5
  <2>2. e \in PullEntry
    BY <2>1, MaxRowVersionAssumption DEF SomePullEntry, PullEntry
  <2>3. PICK id \in [{e} -> FreshIds(d)] :
          /\ rows' = [rows EXCEPT ![d] =
               [l \in LocalIds |-> IF \E f \in {e} : id[f] = l
                                     THEN PulledRow(CHOOSE f \in {e} : id[f] = l)
                                     ELSE rows[d][l]]]
          /\ issued' = [issued EXCEPT ![d] = @ \cup {id[f] : f \in {e}}]
    BY <2>1 DEF Pull
  <2>4. id[e] \in LocalIds /\ rows[d][id[e]] = NoRow
    BY <2>3 DEF FreshIds, StoredIsIssued, Stored
  <2>5. \A l \in LocalIds : rows'[d][l] = IF l = id[e] THEN PulledRow(e) ELSE rows[d][l]
    BY <2>3
  <2> QED
    BY <2>2, <2>3, <2>4, <2>5 DEF Written, Shape
<1>6. CASE \E l \in LocalIds, m \in SomeMark : MarkSynced(d, [k \in {l} |-> m])
  <2>1. PICK l \in LocalIds, m \in SomeMark : MarkSynced(d, [k \in {l} |-> m])
    BY <1>6
  <2>2. m \in Mark
    BY <2>1, MaxRowVersionAssumption DEF SomeMark, Mark
  <2>3. \A k \in LocalIds : rows'[d][k] =
          IF k = l /\ rows[d][k] # NoRow THEN SyncedRow(rows[d][k], m) ELSE rows[d][k]
    BY <2>1 DEF MarkSynced, Stored
  <2> QED
    BY <2>1, <2>2, <2>3 DEF MarkSynced, Written, Shape
<1> QED
  BY <1>1, <1>2, <1>3, <1>4, <1>5, <1>6

-----------------------------------------------------------------------------
(* The invariant. *)

LEMMA LocalInvInit == ASSUME LocalInit PROVE LocalInv
BY NoRowAssumption
   DEF LocalInit, LocalInv, LocalTypeOK, StoredIsIssued, VersionNotBehindBase, Stored

LEMMA LocalInvNext ==
  ASSUME LocalInv, LocalNext
  PROVE  LocalInv'
<1> USE DEF LocalInv
<1>1. /\ Shape'
      /\ \A d \in Devices : \A l \in LocalIds : Written(d, l)
      /\ \A d \in Devices : issued[d] \subseteq issued'[d]
      /\ \A d \in Devices : \A l \in LocalIds :
           rows[d][l] = NoRow /\ rows'[d][l] # NoRow => l \in issued'[d]
  BY StepWrites
<1>2. \A d \in Devices : \A l \in LocalIds :
        \/ rows'[d][l] = NoRow
        \/ rows'[d][l] \in Row /\ rows'[d][l].version >= rows'[d][l].base
  <2> SUFFICES ASSUME NEW d \in Devices, NEW l \in LocalIds
               PROVE  \/ rows'[d][l] = NoRow
                      \/ rows'[d][l] \in Row /\ rows'[d][l].version >= rows'[d][l].base
    OBVIOUS
  <2>1. \/ rows[d][l] = NoRow
        \/ rows[d][l] \in Row /\ rows[d][l].version >= rows[d][l].base
    BY DEF LocalTypeOK, VersionNotBehindBase, Stored
  <2>2. CASE rows'[d][l] = rows[d][l]
    BY <2>1, <2>2
  <2>3. CASE \E p \in Payload : rows'[d][l] = NewRow(p)
    BY <2>3, NewRowGood
  <2>4. CASE \E e \in PullEntry : rows'[d][l] = PulledRow(e)
    BY <2>4, PulledRowGood
  <2>5. CASE rows[d][l] # NoRow /\ \E p \in Payload : rows'[d][l] = EditedRow(rows[d][l], p)
    <3>1. PICK p \in Payload : rows'[d][l] = EditedRow(rows[d][l], p)
      BY <2>5
    <3>2. /\ EditedRow(rows[d][l], p) \in Row
          /\ EditedRow(rows[d][l], p).version > EditedRow(rows[d][l], p).base
      BY <2>1, <2>5, EditedRowGood
    <3> QED
      BY <3>1, <3>2 DEF Row
  <2>6. CASE rows[d][l] # NoRow /\ rows'[d][l] = BuriedRow(rows[d][l])
    <3>1. /\ BuriedRow(rows[d][l]) \in Row
          /\ BuriedRow(rows[d][l]).version > BuriedRow(rows[d][l]).base
      BY <2>1, <2>6, BuriedRowGood
    <3> QED
      BY <2>6, <3>1 DEF Row
  <2>7. CASE rows'[d][l] = NoRow
    BY <2>7
  <2>8. CASE rows[d][l] # NoRow /\ \E m \in Mark : rows'[d][l] = SyncedRow(rows[d][l], m)
    BY <2>1, <2>8, SyncedRowGood
  <2> QED
    BY <1>1, <2>2, <2>3, <2>4, <2>5, <2>6, <2>7, <2>8 DEF Written
<1>3. LocalTypeOK'
  BY <1>1, <1>2 DEF Shape, LocalTypeOK
<1>4. StoredIsIssued'
  <2> SUFFICES ASSUME NEW d \in Devices, NEW l \in LocalIds, rows'[d][l] # NoRow
               PROVE  l \in issued'[d]
    BY DEF StoredIsIssued, Stored
  <2>1. CASE rows[d][l] = NoRow
    BY <1>1, <2>1
  <2>2. CASE rows[d][l] # NoRow
    BY <1>1, <2>2 DEF StoredIsIssued, Stored
  <2> QED
    BY <2>1, <2>2
<1>5. VersionNotBehindBase'
  BY <1>2 DEF VersionNotBehindBase, Stored
<1> QED
  BY <1>3, <1>4, <1>5

\* The inductive invariant holds in every state, whatever the callers do.
THEOREM LocalInvHolds == LocalSpec => []LocalInv
<1>1. LocalInit => LocalInv
  BY LocalInvInit
<1>2. LocalInv /\ [LocalNext]_localVars => LocalInv'
  <2>1. CASE LocalNext
    BY <2>1, LocalInvNext
  <2>2. ASSUME LocalInv, UNCHANGED localVars PROVE LocalInv'
    BY <2>2 DEF localVars, LocalInv, LocalTypeOK, StoredIsIssued,
                VersionNotBehindBase, Stored
  <2> QED
    BY <2>1, <2>2
<1> QED
  BY <1>1, <1>2, PTL DEF LocalSpec

\* The store's rows are always well typed.
THEOREM LocalTypeCorrect == LocalSpec => []LocalTypeOK
BY LocalInvHolds, PTL DEF LocalInv

\* No row's counter is ever behind the version the row was synced at.
THEOREM VersionNeverBehindBase == LocalSpec => []VersionNotBehindBase
BY LocalInvHolds, PTL DEF LocalInv

-----------------------------------------------------------------------------
(* Action properties. *)

\* Saving or deleting a row that stays in the store always leaves it dirty:
\* this is where "no version behind its base" is needed.
THEOREM EditsAlwaysDirty == LocalSpec => EditsAreDirty
<1> DEFINE Dirties ==
      \A d \in Devices : \A l \in Stored(d) :
        \/ \E p \in Payload : Update(d, l, p)
        \/ Delete(d, l) /\ rows'[d][l] # NoRow
        => Dirty(rows'[d][l])
<1>1. LocalInv => Dirties
  <2> SUFFICES ASSUME LocalInv, NEW d \in Devices, NEW l \in LocalIds, rows[d][l] # NoRow,
                      \/ \E p \in Payload : Update(d, l, p)
                      \/ Delete(d, l) /\ rows'[d][l] # NoRow
               PROVE  Dirty(rows'[d][l])
    BY DEF Stored
  <2>1. rows[d][l] \in Row /\ rows[d][l].version >= rows[d][l].base
    BY DEF LocalInv, LocalTypeOK, VersionNotBehindBase, Stored
  <2>2. CASE \E p \in Payload : Update(d, l, p)
    <3>1. PICK p \in Payload : Update(d, l, p)
      BY <2>2
    <3>2. rows'[d][l] = EditedRow(rows[d][l], p)
      BY <3>1 DEF Update, LocalInv, LocalTypeOK
    <3> QED
      BY <2>1, <3>2, EditedRowGood DEF Dirty
  <2>3. CASE Delete(d, l) /\ rows'[d][l] # NoRow
    <3>1. rows'[d][l] = BuriedRow(rows[d][l])
      BY <2>3 DEF Delete, LocalInv, LocalTypeOK
    <3> QED
      BY <2>1, <3>1, BuriedRowGood DEF Dirty
  <2> QED
    BY <2>2, <2>3
<1>2. LocalInv => [Dirties]_localVars
  BY <1>1
<1> QED
  BY <1>2, LocalInvHolds, PTL DEF EditsAreDirty

\* A linked row is never unlinked and never just removed.
THEOREM LinkedRowsAlwaysStay == LocalSpec => LinkedRowsStay
<1> DEFINE Stay ==
      \A d \in Devices : \A l \in Stored(d) :
        Linked(rows[d][l]) => rows'[d][l] # NoRow /\ Linked(rows'[d][l])
<1>1. LocalInv /\ LocalNext => Stay
  <2> SUFFICES ASSUME LocalInv, LocalNext,
                      NEW d \in Devices, NEW l \in LocalIds, rows[d][l] # NoRow,
                      Linked(rows[d][l])
               PROVE  rows'[d][l] # NoRow /\ Linked(rows'[d][l])
    BY DEF Stored
  <2>1. Written(d, l)
    BY StepWrites
  <2>2. rows[d][l] \in Row /\ rows[d][l].version >= rows[d][l].base
    BY DEF LocalInv, LocalTypeOK, VersionNotBehindBase, Stored
  <2>3. CASE \E p \in Payload : rows'[d][l] = EditedRow(rows[d][l], p)
    BY <2>2, <2>3, EditedRowGood, NoRowAssumption DEF Linked
  <2>4. CASE rows'[d][l] = BuriedRow(rows[d][l])
    BY <2>2, <2>4, BuriedRowGood, NoRowAssumption DEF Linked
  <2>5. CASE \E m \in Mark : rows'[d][l] = SyncedRow(rows[d][l], m)
    BY <2>2, <2>5, SyncedRowGood, NoRowAssumption, SentinelAssumption DEF Linked
  <2> QED
    BY <2>1, <2>3, <2>4, <2>5 DEF Written
<1>2. LocalInv /\ [LocalNext]_localVars => [Stay]_localVars
  BY <1>1
<1> QED
  BY <1>2, LocalInvHolds, PTL DEF LinkedRowsStay, LocalSpec

-----------------------------------------------------------------------------
(***************************************************************************)
(* What the Cloud API guarantees for any clients, documents and contents.  *)
(* Types and the permanence of tombstones hold however the handlers        *)
(* interleave.  That no accepted update is lost, that names stay unique    *)
(* and that the API implements a table of atomic writes is proved for the  *)
(* case in which no two handlers overlap between read and write; TLC shows *)
(* that each of the three fails otherwise.                                 *)
(***************************************************************************)

\* A handler that is about to change a document has found it.
StagedExists ==
  \A c \in Clients :
    handler[c].stage = "staged" /\ handler[c].req.op # "create" => Exists(handler[c].req.doc)

\* A handler that is about to update read the version its client expected.
ReadAsExpected ==
  \A c \in Clients :
    Pending(c, "update") /\ ~handler[c].req.force => handler[c].read = handler[c].req.expected

CloudInv == CloudTypeOK /\ StagedExists /\ ReadAsExpected

\* No two handlers are between read and write.
Exclusive ==
  \A b, c \in Clients :
    handler[b].stage = "staged" /\ handler[c].stage = "staged" => b = c

\* What a handler read is still so when it writes.
ReadIsCurrent ==
  \A c \in Clients : handler[c].stage = "staged" =>
    /\ handler[c].req.op # "create" => handler[c].read = docs[handler[c].req.doc].version
    /\ ~Colliding(handler[c].req)

SerialInv == CloudInv /\ Exclusive /\ ReadIsCurrent

-----------------------------------------------------------------------------
(* Requests, handlers and documents. *)

\* What a request of each kind carries.
LEMMA RequestFields ==
  ASSUME NEW req \in Request
  PROVE  /\ req.op \in {"create", "update", "delete"}
         /\ req.op \in {"create", "update"} => req.payload \in Payload
         /\ req.op \in {"update", "delete"} => req.doc \in DocIds
         /\ req.op = "update" => req.expected \in Nat /\ req.force \in BOOLEAN
BY DEF Request

\* What a handler in each stage holds.
LEMMA HandlerFields ==
  ASSUME NEW h \in Handler
  PROVE  /\ h.stage \in {"idle", "received", "staged", "replied"}
         /\ h.stage \in {"received", "staged"} => h.req \in Request
         /\ h.stage = "staged" => h.read \in Nat
BY DEF Handler, Idle

LEMMA HandlerStages ==
  /\ Idle \in Handler /\ Idle.stage = "idle"
  /\ \A req \in Request :
       /\ Received(req) \in Handler
       /\ Received(req).stage = "received" /\ Received(req).req = req
  /\ \A req \in Request, v \in Nat :
       /\ Staged(req, v) \in Handler
       /\ Staged(req, v).stage = "staged"
       /\ Staged(req, v).req = req /\ Staged(req, v).read = v
  /\ \A status \in Status, id \in DocIds \cup {NoDoc}, doc \in Doc \cup {NoDoc} :
       /\ Replied(status, id, doc) \in Handler
       /\ Replied(status, id, doc).stage = "replied"
<1>1. Idle \in Handler /\ Idle.stage = "idle"
  BY DEF Handler, Idle
<1>2. ASSUME NEW req \in Request
      PROVE  /\ Received(req) \in Handler
             /\ Received(req).stage = "received" /\ Received(req).req = req
  BY <1>2 DEF Handler, Received
<1>3. ASSUME NEW req \in Request, NEW v \in Nat
      PROVE  /\ Staged(req, v) \in Handler
             /\ Staged(req, v).stage = "staged"
             /\ Staged(req, v).req = req /\ Staged(req, v).read = v
  BY <1>3 DEF Handler, Staged
<1>4. ASSUME NEW status \in Status, NEW id \in DocIds \cup {NoDoc}, NEW doc \in Doc \cup {NoDoc}
      PROVE  /\ Replied(status, id, doc) \in Handler
             /\ Replied(status, id, doc).stage = "replied"
  BY <1>4 DEF Handler, Replied
<1> QED
  BY <1>1, <1>2, <1>3, <1>4

\* The clients send requests only.
LEMMA RequestsSent == AnyRequest \subseteq Request
<1> SUFFICES ASSUME NEW req \in AnyRequest PROVE req \in Request
  OBVIOUS
<1>1. 0..MaxVersion \subseteq Nat /\ {0} \subseteq Nat /\ {FALSE} \subseteq BOOLEAN /\ {TRUE} \subseteq BOOLEAN
  BY MaxVersionAssumption
<1>2. CASE req \in [op: {"create"}, payload: Payload]
  BY <1>2 DEF Request
<1>3. CASE req \in [op: {"update"}, doc: DocIds, payload: Payload,
                   expected: 0..MaxVersion, force: {FALSE}]
  BY <1>1, <1>3 DEF Request
<1>4. CASE req \in [op: {"update"}, doc: DocIds, payload: Payload, expected: {0}, force: {TRUE}]
  BY <1>1, <1>4 DEF Request
<1>5. CASE req \in [op: {"delete"}, doc: DocIds]
  BY <1>5 DEF Request
<1> QED
  BY <1>2, <1>3, <1>4, <1>5 DEF AnyRequest

\* A created document is alive at version 1 and keeps its name.
LEMMA CreatedDocGood ==
  ASSUME NEW p \in Payload
  PROVE  /\ CreatedDoc(p) \in Doc
         /\ CreatedDoc(p).payload \in Payload /\ CreatedDoc(p).payload.name = p.name
         /\ CreatedDoc(p) = [version |-> 1, deleted |-> FALSE,
                             payload |-> CreatedDoc(p).payload]
<1>1. [p EXCEPT !.edits = {}] \in Payload /\ [p EXCEPT !.edits = {}].name = p.name
  BY DEF Payload
<1> QED
  BY <1>1 DEF CreatedDoc, Doc

\* An update bumps what the handler read, sets the content, and nothing else.
LEMMA UpdatedDocGood ==
  ASSUME NEW doc \in Doc, NEW v \in Nat, NEW p \in Payload
  PROVE  /\ UpdatedDoc(doc, v, p) \in Doc
         /\ UpdatedDoc(doc, v, p).version = v + 1
         /\ UpdatedDoc(doc, v, p).payload = p
         /\ UpdatedDoc(doc, v, p).deleted = doc.deleted
<1>1. PICK w \in Nat : w = v + 1
  OBVIOUS
<1>2. UpdatedDoc(doc, v, p) = [[doc EXCEPT !.version = w] EXCEPT !.payload = p]
  BY <1>1 DEF UpdatedDoc
<1>3. [doc EXCEPT !.version = w] \in Doc
  BY DEF Doc
<1> QED
  BY <1>1, <1>2, <1>3 DEF Doc

\* A delete bumps what the handler read, and keeps the content.
LEMMA BuriedDocGood ==
  ASSUME NEW doc \in Doc, NEW v \in Nat
  PROVE  /\ BuriedDoc(doc, v) \in Doc
         /\ BuriedDoc(doc, v).version = v + 1
         /\ BuriedDoc(doc, v).payload = doc.payload
         /\ BuriedDoc(doc, v).deleted = TRUE
<1>1. PICK w \in Nat : w = v + 1
  OBVIOUS
<1>2. BuriedDoc(doc, v) = [[doc EXCEPT !.version = w] EXCEPT !.deleted = TRUE]
  BY <1>1 DEF BuriedDoc
<1>3. [doc EXCEPT !.version = w] \in Doc
  BY DEF Doc
<1> QED
  BY <1>1, <1>2, <1>3 DEF Doc

-----------------------------------------------------------------------------
(* The steps. *)

\* A step that leaves the documents alone and stages nothing: a call is sent,
\* taken or lost, or the handler refuses it.
Passive(c, h) ==
  /\ handler[c].stage # "staged" /\ h.stage # "staged"
  /\ UNCHANGED docs

\* The handler has read and will write.
Reads(c, h) ==
  LET req == handler[c].req IN
  /\ handler[c].stage = "received" /\ MayRead
  /\ ~Missing(req) /\ ~Conflicting(req) /\ ~Colliding(req)
  /\ h.stage = "staged" /\ h.req = req
  /\ req.op # "create" => h.read = docs[req.doc].version
  /\ UNCHANGED docs

Inserts(c) ==
  /\ Pending(c, "create")
  /\ \E i \in DocIds : /\ docs[i] = NoDoc
                       /\ docs' = [docs EXCEPT ![i] = CreatedDoc(handler[c].req.payload)]
Updates(c) ==
  /\ Pending(c, "update")
  /\ docs' = [docs EXCEPT ![handler[c].req.doc] =
                UpdatedDoc(docs[handler[c].req.doc], handler[c].read, handler[c].req.payload)]
Buries(c) ==
  /\ Pending(c, "delete")
  /\ docs' = [docs EXCEPT ![handler[c].req.doc] =
                BuriedDoc(docs[handler[c].req.doc], handler[c].read)]

\* Every step is of one of these kinds and changes one handler.
LEMMA StepKinds ==
  ASSUME CloudInv, CloudNext
  PROVE  \E c \in Clients, h \in Handler :
           /\ handler' = [handler EXCEPT ![c] = h]
           /\ \/ Passive(c, h)
              \/ Reads(c, h)
              \/ h.stage = "replied" /\ (Inserts(c) \/ Updates(c) \/ Buries(c))
<1>1. PICK c \in Clients : SendAny(c) \/ Take(c) \/ Lose(c) \/ HandlerStep(c)
  BY DEF CloudNext
<1>2. /\ handler[c] \in Handler
      /\ docs \in [DocIds -> Doc \cup {NoDoc}]
      /\ handler[c].stage \in {"received", "staged"} => handler[c].req \in Request
      /\ handler[c].stage = "staged" => handler[c].read \in Nat
  BY HandlerFields DEF CloudInv, CloudTypeOK
<1>3. CASE SendAny(c)
  <2>1. PICK req \in Request : Send(c, req)
    BY <1>3, RequestsSent DEF SendAny
  <2>2. Received(req) \in Handler /\ Received(req).stage = "received"
    BY HandlerStages
  <2>3. handler' = [handler EXCEPT ![c] = Received(req)]
    BY <2>1 DEF Send
  <2>4. Passive(c, Received(req))
    BY <2>1, <2>2 DEF Send, Passive, Idle
  <2> QED
    BY <2>2, <2>3, <2>4
<1>4. CASE Take(c) \/ Lose(c)
  <2>1. Idle \in Handler /\ Idle.stage = "idle"
    BY HandlerStages
  <2>2. handler' = [handler EXCEPT ![c] = Idle] /\ Passive(c, Idle)
    BY <1>4, <2>1 DEF Take, Lose, Passive
  <2> QED
    BY <2>1, <2>2
<1>5. CASE RaiseNotFound(c)
  <2>1. Replied(404, NoDoc, NoDoc) \in Handler /\ Replied(404, NoDoc, NoDoc).stage = "replied"
    BY HandlerStages DEF Status
  <2>2. /\ handler' = [handler EXCEPT ![c] = Replied(404, NoDoc, NoDoc)]
        /\ Passive(c, Replied(404, NoDoc, NoDoc))
    BY <1>5, <2>1 DEF RaiseNotFound, Answer, Passive
  <2> QED
    BY <2>1, <2>2
<1>6. CASE RaiseConflict(c)
  <2> DEFINE req == handler[c].req
  <2>1. req.doc \in DocIds /\ docs[req.doc] \in Doc \cup {NoDoc}
    BY <1>2, <1>6, RequestFields DEF RaiseConflict, Conflicting
  <2>2. /\ Replied(409, req.doc, docs[req.doc]) \in Handler
        /\ Replied(409, req.doc, docs[req.doc]).stage = "replied"
    BY <2>1, HandlerStages DEF Status
  <2>3. /\ handler' = [handler EXCEPT ![c] = Replied(409, req.doc, docs[req.doc])]
        /\ Passive(c, Replied(409, req.doc, docs[req.doc]))
    BY <1>6, <2>2 DEF RaiseConflict, Answer, Passive
  <2> QED
    BY <2>2, <2>3
<1>7. CASE RaiseNameTaken(c)
  <2>1. Replied(400, NoDoc, NoDoc) \in Handler /\ Replied(400, NoDoc, NoDoc).stage = "replied"
    BY HandlerStages DEF Status
  <2>2. /\ handler' = [handler EXCEPT ![c] = Replied(400, NoDoc, NoDoc)]
        /\ Passive(c, Replied(400, NoDoc, NoDoc))
    BY <1>7, <2>1 DEF RaiseNameTaken, Answer, Passive
  <2> QED
    BY <2>1, <2>2
<1>8. CASE FindOne(c)
  <2> DEFINE req == handler[c].req
             v   == IF req.op = "create" THEN 0 ELSE docs[req.doc].version
  <2>1. req \in Request /\ handler[c].stage = "received" /\ ~Missing(req)
    BY <1>2, <1>8 DEF FindOne
  <2>2. v \in Nat
    <3>1. CASE req.op = "create"
      BY <3>1
    <3>2. CASE req.op # "create"
      BY <1>2, <2>1, <3>2, RequestFields DEF Missing, Exists, Doc
    <3> QED
      BY <3>1, <3>2
  <2>3. /\ Staged(req, v) \in Handler /\ Staged(req, v).stage = "staged"
        /\ Staged(req, v).req = req /\ Staged(req, v).read = v
    BY <2>1, <2>2, HandlerStages
  <2>4. handler' = [handler EXCEPT ![c] = Staged(req, v)]
    BY <1>8 DEF FindOne
  <2>5. Reads(c, Staged(req, v))
    BY <1>8, <2>3 DEF FindOne, Reads
  <2> QED
    BY <2>3, <2>4, <2>5
<1>9. CASE InsertOne(c)
  <2> DEFINE doc == CreatedDoc(handler[c].req.payload)
  <2>1. Pending(c, "create") /\ doc \in Doc
    BY <1>2, <1>9, RequestFields, CreatedDocGood DEF InsertOne, Pending
  <2>2. PICK i \in DocIds : docs[i] = NoDoc /\ Write(c, i, doc)
    BY <1>9 DEF InsertOne, Unused, Exists
  <2>3. Replied(200, i, doc) \in Handler /\ Replied(200, i, doc).stage = "replied"
    BY <2>1, HandlerStages DEF Status
  <2> QED
    BY <2>1, <2>2, <2>3 DEF Write, Answer, Inserts
<1>10. CASE UpdateOne(c)
  <2> DEFINE req == handler[c].req
             doc == UpdatedDoc(docs[req.doc], handler[c].read, req.payload)
  <2>1. /\ Pending(c, "update") /\ req.doc \in DocIds /\ docs[req.doc] \in Doc
        /\ req.payload \in Payload
    BY <1>2, <1>10, RequestFields DEF UpdateOne, Pending, CloudInv, StagedExists, Exists
  <2>2. doc \in Doc
    BY <1>2, <2>1, UpdatedDocGood DEF Pending
  <2>3. Replied(200, req.doc, doc) \in Handler /\ Replied(200, req.doc, doc).stage = "replied"
    BY <2>1, <2>2, HandlerStages DEF Status
  <2> QED
    BY <1>10, <2>1, <2>3 DEF UpdateOne, Write, Answer, Updates
<1>11. CASE SoftDelete(c)
  <2> DEFINE req == handler[c].req
             doc == BuriedDoc(docs[req.doc], handler[c].read)
  <2>1. Pending(c, "delete") /\ req.doc \in DocIds /\ docs[req.doc] \in Doc
    BY <1>2, <1>11, RequestFields DEF SoftDelete, Pending, CloudInv, StagedExists, Exists
  <2>2. doc \in Doc
    BY <1>2, <2>1, BuriedDocGood DEF Pending
  <2>3. Replied(200, req.doc, doc) \in Handler /\ Replied(200, req.doc, doc).stage = "replied"
    BY <2>1, <2>2, HandlerStages DEF Status
  <2> QED
    BY <1>11, <2>1, <2>3 DEF SoftDelete, Write, Answer, Buries
<1> QED
  BY <1>1, <1>3, <1>4, <1>5, <1>6, <1>7, <1>8, <1>9, <1>10, <1>11 DEF HandlerStep

-----------------------------------------------------------------------------
(* Types, and tombstones: however the handlers interleave. *)

\* A step keeps every document, and every tombstone a tombstone.
LEMMA DocSteps ==
  ASSUME CloudInv, CloudNext
  PROVE  /\ docs' \in [DocIds -> Doc \cup {NoDoc}]
         /\ \A i \in DocIds : Exists(i) =>
              Exists(i)' /\ (docs[i].deleted => docs'[i].deleted)
<1>1. PICK c \in Clients, h \in Handler :
        \/ Passive(c, h) \/ Reads(c, h) \/ Inserts(c) \/ Updates(c) \/ Buries(c)
  BY StepKinds
<1>2. /\ docs \in [DocIds -> Doc \cup {NoDoc}]
      /\ handler[c].stage = "staged" => handler[c].req \in Request /\ handler[c].read \in Nat
  BY HandlerFields DEF CloudInv, CloudTypeOK
<1> DEFINE req == handler[c].req
<1>3. CASE Passive(c, h) \/ Reads(c, h)
  BY <1>2, <1>3 DEF Passive, Reads, Exists
<1>4. CASE Inserts(c)
  <2>1. CreatedDoc(req.payload) \in Doc
    BY <1>2, <1>4, RequestFields, CreatedDocGood DEF Inserts, Pending
  <2> QED
    BY <1>2, <1>4, <2>1 DEF Inserts, Exists
<1>5. CASE Updates(c)
  <2> DEFINE doc == UpdatedDoc(docs[req.doc], handler[c].read, req.payload)
  <2>1. /\ req.doc \in DocIds /\ docs[req.doc] \in Doc
        /\ req.payload \in Payload /\ handler[c].read \in Nat
    BY <1>2, <1>5, RequestFields DEF Updates, Pending, CloudInv, StagedExists, Exists
  <2>2. doc \in Doc /\ doc.deleted = docs[req.doc].deleted
    BY <2>1, UpdatedDocGood
  <2>3. docs' = [docs EXCEPT ![req.doc] = doc]
    BY <1>5 DEF Updates
  <2> QED
    BY <1>2, <2>1, <2>2, <2>3, SentinelAssumption DEF Exists
<1>6. CASE Buries(c)
  <2> DEFINE doc == BuriedDoc(docs[req.doc], handler[c].read)
  <2>1. /\ req.doc \in DocIds /\ docs[req.doc] \in Doc /\ handler[c].read \in Nat
    BY <1>2, <1>6, RequestFields DEF Buries, Pending, CloudInv, StagedExists, Exists
  <2>2. doc \in Doc /\ doc.deleted
    BY <2>1, BuriedDocGood
  <2>3. docs' = [docs EXCEPT ![req.doc] = doc]
    BY <1>6 DEF Buries
  <2> QED
    BY <1>2, <2>1, <2>2, <2>3, SentinelAssumption DEF Exists
<1> QED
  BY <1>1, <1>3, <1>4, <1>5, <1>6

LEMMA CloudInvInit == ASSUME CloudInit PROVE CloudInv
<1>1. handler \in [Clients -> Handler] /\ \A c \in Clients : handler[c].stage = "idle"
  BY HandlerStages DEF CloudInit
<1> QED
  BY <1>1 DEF CloudInit, CloudInv, CloudTypeOK, StagedExists, ReadAsExpected, Pending

LEMMA CloudInvNext == ASSUME CloudInv, CloudNext PROVE CloudInv'
<1>1. PICK c \in Clients, h \in Handler :
        /\ handler' = [handler EXCEPT ![c] = h]
        /\ \/ Passive(c, h)
           \/ Reads(c, h)
           \/ h.stage = "replied" /\ (Inserts(c) \/ Updates(c) \/ Buries(c))
  BY StepKinds
<1>2. h.stage = "staged" => Reads(c, h)
  BY <1>1 DEF Passive
<1>3. \A b \in Clients : handler'[b] = IF b = c THEN h ELSE handler[b]
  BY <1>1 DEF CloudInv, CloudTypeOK
<1>4. CloudTypeOK'
  BY <1>1, DocSteps DEF CloudInv, CloudTypeOK
<1>5. handler[c].stage = "received" => handler[c].req \in Request
  BY HandlerFields DEF CloudInv, CloudTypeOK
<1>6. StagedExists'
  <2> SUFFICES ASSUME NEW b \in Clients, handler'[b].stage = "staged",
                      handler'[b].req.op # "create"
               PROVE  docs'[handler'[b].req.doc] # NoDoc
    BY DEF StagedExists, Exists
  <2>1. CASE b = c
    BY <1>2, <1>3, <2>1 DEF Reads, Missing, Exists
  <2>2. CASE b # c
    <3>1. handler'[b] = handler[b] /\ Exists(handler[b].req.doc)
      BY <1>3, <2>2 DEF CloudInv, StagedExists
    <3>2. handler[b].req.doc \in DocIds
      BY <3>1, HandlerFields, RequestFields DEF CloudInv, CloudTypeOK
    <3> QED
      BY <3>1, <3>2, DocSteps DEF Exists
  <2> QED
    BY <2>1, <2>2
<1>7. ReadAsExpected'
  <2> SUFFICES ASSUME NEW b \in Clients, handler'[b].stage = "staged",
                      handler'[b].req.op = "update", ~handler'[b].req.force
               PROVE  handler'[b].read = handler'[b].req.expected
    BY DEF ReadAsExpected, Pending
  <2>1. CASE b = c
    BY <1>2, <1>3, <2>1 DEF Reads, Missing, Conflicting
  <2>2. CASE b # c
    BY <1>3, <2>2 DEF CloudInv, ReadAsExpected, Pending
  <2> QED
    BY <2>1, <2>2
<1> QED
  BY <1>4, <1>6, <1>7 DEF CloudInv

\* The inductive invariant of the API holds however its handlers interleave.
THEOREM CloudInvHolds == CloudSpec => []CloudInv
<1>1. CloudInit => CloudInv
  BY CloudInvInit
<1>2. CloudInv /\ [CloudNext]_cloudVars => CloudInv'
  <2>1. CASE CloudNext
    BY <2>1, CloudInvNext
  <2>2. ASSUME CloudInv, UNCHANGED cloudVars PROVE CloudInv'
    BY <2>2 DEF cloudVars, CloudInv, CloudTypeOK, StagedExists, ReadAsExpected, Exists, Pending
  <2> QED
    BY <2>1, <2>2
<1> QED
  BY <1>1, <1>2, PTL DEF CloudSpec

\* Documents, requests and responses are always well typed.
THEOREM CloudTypeCorrect == CloudSpec => []CloudTypeOK
BY CloudInvHolds, PTL DEF CloudInv

\* A tombstone is for ever, whatever updates race with the delete.
THEOREM TombstonesStay == CloudSpec => TombstonesArePermanent
<1> DEFINE Stay == \A i \in DocIds :
      Exists(i) /\ docs[i].deleted => docs'[i] # NoDoc /\ docs'[i].deleted
<1>1. CloudInv /\ [CloudNext]_cloudVars => [Stay]_cloudVars
  BY DocSteps DEF Exists
<1> QED
  BY <1>1, CloudInvHolds, PTL DEF CloudSpec, TombstonesArePermanent

-----------------------------------------------------------------------------
(* The API as a table of atomic writes: no two handlers overlap. *)

LEMMA SerialInvInit == ASSUME CloudInit PROVE SerialInv
<1>1. \A c \in Clients : handler[c].stage = "idle"
  BY HandlerStages DEF CloudInit
<1> QED
  BY <1>1, CloudInvInit DEF SerialInv, Exclusive, ReadIsCurrent

LEMMA SerialInvNext ==
  ASSUME Serialized, SerialInv, CloudNext
  PROVE  SerialInv'
<1>1. CloudInv /\ CloudInv'
  BY CloudInvNext DEF SerialInv
<1>2. PICK c \in Clients, h \in Handler :
        /\ handler' = [handler EXCEPT ![c] = h]
        /\ \/ Passive(c, h)
           \/ Reads(c, h)
           \/ h.stage = "replied" /\ (Inserts(c) \/ Updates(c) \/ Buries(c))
  BY <1>1, StepKinds
<1>3. \A b \in Clients : handler'[b] = IF b = c THEN h ELSE handler[b]
  BY <1>1, <1>2 DEF CloudInv, CloudTypeOK
<1>4. h.stage = "staged" => Reads(c, h)
  BY <1>2 DEF Passive
<1>5. Exclusive'
  <2> SUFFICES ASSUME NEW a \in Clients, NEW b \in Clients,
                      handler'[a].stage = "staged", handler'[b].stage = "staged"
               PROVE  a = b
    BY DEF Exclusive
  <2> QED
    BY <1>3, <1>4 DEF SerialInv, Exclusive, Reads, MayRead
<1>6. ReadIsCurrent'
  <2> SUFFICES ASSUME NEW b \in Clients, handler'[b].stage = "staged"
               PROVE  /\ handler'[b].req.op # "create" =>
                           handler'[b].read = docs'[handler'[b].req.doc].version
                      /\ UniqueNames /\ handler'[b].req.op = "create" =>
                           \A i \in DocIds : docs'[i] # NoDoc /\ ~docs'[i].deleted =>
                             docs'[i].payload.name # handler'[b].req.payload.name
    BY DEF ReadIsCurrent, Colliding, NameTaken, Live, Exists
  <2>1. CASE b = c
    <3>1. Reads(c, h) /\ handler'[b] = h
      BY <1>3, <1>4, <2>1
    <3> QED
      BY <3>1 DEF Reads, Colliding, NameTaken, Live, Exists
  <2>2. CASE b # c
    <3>1. handler'[b] = handler[b]
      BY <1>3, <2>2
    <3>2. handler[c].stage # "staged"
      BY <2>2, <3>1 DEF SerialInv, Exclusive
    <3>3. docs' = docs
      BY <1>2, <3>2 DEF Passive, Reads, Inserts, Updates, Buries, Pending
    <3> QED
      BY <3>1, <3>3 DEF SerialInv, ReadIsCurrent, Colliding, NameTaken, Live, Exists
  <2> QED
    BY <2>1, <2>2
<1> QED
  BY <1>1, <1>5, <1>6 DEF SerialInv

\* While no two handlers overlap, what one has read holds when it writes.
THEOREM SerialInvHolds ==
  ASSUME Serialized
  PROVE  CloudSpec => []SerialInv
<1>1. CloudInit => SerialInv
  BY SerialInvInit
<1>2. SerialInv /\ [CloudNext]_cloudVars => SerialInv'
  <2>1. CASE CloudNext
    BY <2>1, SerialInvNext
  <2>2. ASSUME SerialInv, UNCHANGED cloudVars PROVE SerialInv'
    BY <2>2 DEF cloudVars, SerialInv, CloudInv, CloudTypeOK, StagedExists, ReadAsExpected,
                Exclusive, ReadIsCurrent, Colliding, NameTaken, Live, Exists, Pending
  <2> QED
    BY <2>1, <2>2
<1> QED
  BY <1>1, <1>2, PTL DEF CloudSpec

\* Then an accepted update replaced exactly the version its client expected.
THEOREM SerialUpdatesNotLost ==
  ASSUME Serialized
  PROVE  CloudSpec => NoLostUpdate
<1> DEFINE Kept == \A c \in Clients :
      /\ Pending(c, "update") /\ ~handler[c].req.force
      /\ handler'[c].stage = "replied"
      => docs[handler[c].req.doc].version = handler[c].req.expected
<1>1. SerialInv => [Kept]_cloudVars
  BY DEF SerialInv, CloudInv, ReadAsExpected, ReadIsCurrent, Pending
<1> QED
  BY <1>1, SerialInvHolds, PTL DEF NoLostUpdate

\* Then a create never doubles a live name, where the route checks.
THEOREM SerialNamesUnique ==
  ASSUME Serialized
  PROVE  CloudSpec => CreateKeepsNamesUnique
<1> DEFINE Kept == \A c \in Clients :
      UniqueNames /\ Pending(c, "create") /\ handler'[c].stage = "replied"
      => ~NameTaken(handler[c].req.payload.name)
<1>1. SerialInv => [Kept]_cloudVars
  BY DEF SerialInv, ReadIsCurrent, Colliding, Pending
<1> QED
  BY <1>1, SerialInvHolds, PTL DEF CreateKeepsNamesUnique

-----------------------------------------------------------------------------
(* Refinement. *)

\* The two modules extend the same data.
LEMMA SameData ==
  /\ Abstract!DocIds = DocIds /\ Abstract!Payload = Payload
BY DEF Abstract!DocIds, DocIds, Abstract!Payload, Payload, Abstract!Edits, Edits

\* Every step is an atomic write of the table, or leaves the table alone.
LEMMA SerialStepRefines ==
  ASSUME SerialInv, CloudNext
  PROVE  Abstract!Next \/ docs' = docs
<1>1. PICK c \in Clients, h \in Handler :
        \/ Passive(c, h) \/ Reads(c, h) \/ Inserts(c) \/ Updates(c) \/ Buries(c)
  BY StepKinds DEF SerialInv
<1>2. /\ docs \in [DocIds -> Doc \cup {NoDoc}]
      /\ handler[c].stage = "staged" => handler[c].req \in Request /\ handler[c].read \in Nat
  BY HandlerFields DEF SerialInv, CloudInv, CloudTypeOK
<1> DEFINE req == handler[c].req
<1>3. CASE Passive(c, h) \/ Reads(c, h)
  BY <1>3 DEF Passive, Reads
<1>4. CASE Inserts(c)
  <2> DEFINE p == CreatedDoc(req.payload).payload
  <2>1. PICK i \in DocIds : /\ docs[i] = NoDoc
                            /\ docs' = [docs EXCEPT ![i] = CreatedDoc(req.payload)]
    BY <1>4 DEF Inserts
  <2>2. /\ p \in Payload /\ p.name = req.payload.name
        /\ CreatedDoc(req.payload) = [version |-> 1, deleted |-> FALSE, payload |-> p]
    BY <1>2, <1>4, RequestFields, CreatedDocGood DEF Inserts, Pending
  <2>3. UniqueNames => \A j \in DocIds : Abstract!Live(j) => docs[j].payload.name # p.name
    BY <1>4, <2>2 DEF Inserts, Pending, SerialInv, ReadIsCurrent, Colliding, NameTaken,
                      Live, Exists, Abstract!Live
  <2>4. Abstract!Insert(i, p)
    BY <2>1, <2>2, <2>3, SameData DEF Abstract!Insert
  <2> QED
    BY <2>1, <2>2, <2>4, SameData DEF Abstract!Next
<1>5. CASE Updates(c)
  <2>1. /\ req.doc \in DocIds /\ docs[req.doc] \in Doc /\ docs[req.doc] # NoDoc
        /\ req.payload \in Payload /\ handler[c].read = docs[req.doc].version
    BY <1>2, <1>5, RequestFields
       DEF Updates, Pending, SerialInv, ReadIsCurrent, CloudInv, StagedExists, Exists
  <2>2. docs' = [docs EXCEPT ![req.doc] =
                   [docs[req.doc] EXCEPT !.version = docs[req.doc].version + 1,
                                         !.payload = req.payload]]
    BY <1>5, <2>1 DEF Updates, UpdatedDoc
  <2>3. Abstract!Replace(req.doc, req.payload)
    BY <1>2, <2>1, <2>2 DEF Abstract!Replace
  <2> QED
    BY <2>1, <2>3, SameData DEF Abstract!Next
<1>6. CASE Buries(c)
  <2>1. /\ req.doc \in DocIds /\ docs[req.doc] \in Doc /\ docs[req.doc] # NoDoc
        /\ handler[c].read = docs[req.doc].version
    BY <1>2, <1>6, RequestFields
       DEF Buries, Pending, SerialInv, ReadIsCurrent, CloudInv, StagedExists, Exists
  <2>2. docs' = [docs EXCEPT ![req.doc] =
                   [docs[req.doc] EXCEPT !.version = docs[req.doc].version + 1,
                                         !.deleted = TRUE]]
    BY <1>6, <2>1 DEF Buries, BuriedDoc
  <2>3. Abstract!Bury(req.doc)
    BY <1>2, <2>1, <2>2 DEF Abstract!Bury
  <2> QED
    BY <2>1, <2>3, SameData DEF Abstract!Next
<1> QED
  BY <1>1, <1>3, <1>4, <1>5, <1>6

\* While no two handlers overlap, the API implements the table of atomic
\* writes that the sync engine relies on.
THEOREM SerialRefinement ==
  ASSUME Serialized
  PROVE  CloudSpec => ImplementsVersionedDocs
<1>1. CloudInit => Abstract!Init
  BY SameData DEF CloudInit, Abstract!Init
<1>2. SerialInv /\ [CloudNext]_cloudVars => [Abstract!Next]_docs
  BY SerialStepRefines DEF cloudVars
<1> QED
  BY <1>1, <1>2, SerialInvHolds, PTL DEF CloudSpec, ImplementsVersionedDocs, Abstract!Spec
=============================================================================
