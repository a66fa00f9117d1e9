--------------------------- MODULE SyncInvariants ---------------------------
(***************************************************************************)
(* What is true of the sync of one entity type between its steps: the      *)
(* inductive invariants behind SyncProperties.  They come in layers, each  *)
(* with the switches of SyncEngine it needs, and are stated of values (the *)
(* rows of a device, what its window holds, a handler, the documents), so  *)
(* that a step of one device plainly leaves those of the others alone.     *)
(***************************************************************************)
EXTENDS SyncProperties

Known == {i \in DocIds : Cloud!Exists(i)}

-----------------------------------------------------------------------------
(* Everything is well typed, names existing documents only, and answers    *)
(* what was asked: whatever the switches say.                              *)

\* f is a function from a subset of S to T.
Partial(f, S, T) == DOMAIN f \subseteq S /\ f \in [DOMAIN f -> T]

\* An entry of the local sync-state response, of mark-synced, of pull.
StateEntry(D) == [cloudId: D \cup {NoDoc}, dirty: BOOLEAN, base: Nat, deleted: BOOLEAN]
MarkOf(D) == [cloudId: D, base: Nat, deleted: BOOLEAN, resolved: Payload \cup {NoPayload}]
PullOf(D) == [cloudId: D, version: Nat, payload: Payload]

PassTyped(p, D) ==
  /\ DOMAIN p = DOMAIN NoPass
  /\ p.pc \in {"idle", "reading", "pushing", "calling", "marking"}
  /\ p.localState = NotRead \/ Partial(p.localState, LocalIds, StateEntry(D))
  /\ p.localList = NotRead \/ Partial(p.localList, LocalIds, Payload)
  /\ p.cloudState = NotRead \/ Partial(p.cloudState, D, [version: Nat, deleted: BOOLEAN])
  /\ p.cloudList = NotRead \/ Partial(p.cloudList, D, Doc)
  /\ p.pushes \subseteq PushCall(D)
  /\ p.pulls \subseteq PullOf(D) /\ Partial(p.marks, LocalIds, MarkOf(D))
  /\ p.found \subseteq CardOf(D)

\* The request behind what the dialog waits for.
DialogRequest(r) ==
  IF r.stage = "recreating"
    THEN [op |-> "create", payload |-> r.card.local]
    ELSE [op |-> "update", doc |-> r.doc, payload |-> r.card.local,
          expected |-> 0, force |-> TRUE]

\* Handler h works for request req, or has answered it; 404 is never answered.
Serves(h, req, D) ==
  /\ h.stage # "replied" => h.req = req
  /\ h.stage = "replied" =>
       /\ h.status # 404
       /\ h.status # 400 => h.doc \in D /\ h.result \in Doc
       /\ h.status = 409 => req.op = "update" /\ ~req.force
       /\ h.status = 400 => req.op = "create"

\* A handler at work is the one of the call that the pass, or the dialog, waits for.
CallsOK(p, r, push, dialog, D) ==
  /\ p.pc \in {"calling", "marking"} => p.current \in PushCall(D)
  /\ p.pc = "marking" => p.mark \in MarkOf(D)
  /\ push.stage # "idle" => p.pc = "calling" /\ Serves(push, p.current.request, D)
  /\ dialog.stage # "idle" =>
       /\ r # NoCall /\ r.stage \in {"recreating", "forcing"}
       /\ Serves(dialog, DialogRequest(r), D)
  /\ r # NoCall /\ r.stage # "recreating" => r.doc \in D

WindowOK(p, cards, r, push, dialog, D) ==
  /\ PassTyped(p, D)
  /\ cards \subseteq CardOf(D)
  /\ r \in Resolution(D) \cup {NoCall}
  /\ push \in Cloud!Handler /\ dialog \in Cloud!Handler
  /\ CallsOK(p, r, push, dialog, D)

StoreOK(rs, ids, D) ==
  /\ rs \in [LocalIds -> Local!Row \cup {NoRow}]
  /\ ids \subseteq LocalIds
  /\ \A l \in LocalIds : rs[l] # NoRow => l \in ids /\ rs[l].cloudId \in D \cup {NoDoc}

\* The variables are functions on the devices, the clients and the documents.
Shape ==
  /\ rows = [d \in Devices |-> rows[d]] /\ issued = [d \in Devices |-> issued[d]]
  /\ pass = [d \in Devices |-> pass[d]]
  /\ conflicts = [d \in Devices |-> conflicts[d]]
  /\ resolution = [d \in Devices |-> resolution[d]]
  /\ handler = [c \in Clients |-> handler[c]]

SyncTypeOK ==
  /\ Shape
  /\ docs \in [DocIds -> Doc \cup {NoDoc}]
  /\ lastEdit \in 0..MaxEdits /\ faults \in Nat
  /\ \A d \in Devices :
       /\ StoreOK(rows[d], issued[d], Known)
       /\ WindowOK(pass[d], conflicts[d], resolution[d],
                   handler[Pusher(d)], handler[Dialog(d)], Known)

-----------------------------------------------------------------------------
(* What a pass holds agrees with its device's rows, as long as the user    *)
(* does not act during it.                                                 *)

StoredIn(rs) == {l \in LocalIds : rs[l] # NoRow}
\* The sync-state and the list response as the rows would answer now.
StateOf(rs) ==
  [l \in StoredIn(rs) |->
     [cloudId |-> rs[l].cloudId, dirty |-> Local!Dirty(rs[l]),
      base |-> rs[l].base, deleted |-> rs[l].deleted]]
ListOf(rs) == [l \in {k \in StoredIn(rs) : ~rs[k].deleted} |-> rs[l].payload]

\* The rows a pass has something to do with: new or dirty ones.
ToPush(rs) == {l \in StoredIn(rs) : Local!Dirty(rs[l]) \/ ~Local!Linked(rs[l])}

\* The push carries what its row holds.
PushTrue(rs, q) ==
  /\ q.row \in ToPush(rs)
  /\ q.local = IF rs[q.row].deleted THEN NoPayload ELSE rs[q.row].payload
  /\ \A k \in q.collision : k.row = q.row /\ k.local = q.local
  /\ rs[q.row].deleted <=> q.request.op = "delete"
  /\ IF q.request.op = "create"
       THEN ~Local!Linked(rs[q.row])
       ELSE Local!Linked(rs[q.row]) /\ q.request.doc = rs[q.row].cloudId
  /\ q.request.op = "update" => q.request.expected = rs[q.row].base /\ ~q.request.force

\* The card shows what its row holds.
CardTrue(rs, k) ==
  k.row \in StoredIn(rs) /\ ~rs[k.row].deleted /\ k.local = rs[k.row].payload

UnderWay(p) == IF p.pc \in {"calling", "marking"} THEN {p.current} ELSE {}

PassTrue(p, r, rs) ==
  /\ p.pc # "idle" => r = NoCall
  /\ p.pc = "idle" => p = NoPass
  /\ p.pc = "reading" =>
       /\ p.localState \in {NotRead, StateOf(rs)} /\ p.localList \in {NotRead, ListOf(rs)}
       /\ p.pushes = {} /\ p.found = {} /\ p.pulls = {} /\ DOMAIN p.marks = {}
  /\ \A q \in p.pushes \cup UnderWay(p) : PushTrue(rs, q) /\ \A k \in p.found : k.row # q.row
  /\ \A q, o \in p.pushes \cup UnderWay(p) : q.row = o.row => q = o
  /\ \A q \in UnderWay(p) : q \notin p.pushes
  /\ p.pc = "marking" =>
       p.mark.resolved = NoPayload /\ p.mark.deleted = rs[p.current.row].deleted
  /\ \A k \in p.found : CardTrue(rs, k) /\ k.row \in ToPush(rs)
  /\ DOMAIN p.marks \subseteq StoredIn(rs) \ ToPush(rs)

LocalTrue == \A d \in Devices : PassTrue(pass[d], resolution[d], rows[d])

-----------------------------------------------------------------------------
(* What is held of a document is what it was at that version, and a row    *)
(* follows its document, as long as one device acts at a time.             *)

\* At version v document i held p.
Snapshot(D, i, v, p) == v <= D[i].version /\ (v = D[i].version => p = D[i].payload)

\* A row's content comes from its document's, as long as the document has
\* not moved on; and its counter is not behind the version it was synced at.
RowTrue(D, row) ==
  /\ row.version >= row.base
  /\ Local!Linked(row) =>
       /\ row.base <= D[row.cloudId].version
       /\ row.base = D[row.cloudId].version /\ ~row.deleted =>
            /\ DerivesFrom(row.payload, D[row.cloudId].payload)
            /\ ~Local!Dirty(row) => row.payload = D[row.cloudId].payload

CardShown(D, k) == Snapshot(D, k.doc, k.cloud.version, k.cloud.payload)

MarkTrue(D, m) ==
  /\ m.base <= D[m.cloudId].version
  /\ ~m.deleted => m.resolved # NoPayload /\ Snapshot(D, m.cloudId, m.base, m.resolved)

StateOfDocs(D, known) == [i \in known |-> [version |-> D[i].version, deleted |-> D[i].deleted]]

ServedTrue(D, h, req) ==
  /\ h.stage = "staged" /\ req.op # "create" =>
       /\ h.read = D[req.doc].version
       /\ req.op = "update" => req.force \/ req.expected = D[req.doc].version
  /\ h.stage = "replied" /\ h.status \in {200, 409} =>
       /\ h.result = D[h.doc]
       /\ req.op # "create" => h.doc = req.doc
       /\ h.status = 200 /\ req.op # "delete" => D[h.doc].payload = req.payload

SeenTrue(D, known, p, cards, r, rs) ==
  /\ p.pc = "reading" =>
       /\ p.cloudState \in {NotRead, StateOfDocs(D, known)}
       /\ p.cloudList # NotRead => \A i \in DOMAIN p.cloudList : p.cloudList[i] = D[i]
  /\ \A l \in StoredIn(rs) : RowTrue(D, rs[l])
  /\ \A e \in p.pulls : Snapshot(D, e.cloudId, e.version, e.payload)
  /\ \A l \in DOMAIN p.marks : MarkTrue(D, p.marks[l])
  /\ \A k \in p.found : CardShown(D, k)
  /\ \A q \in p.pushes \cup UnderWay(p) : \A k \in q.collision : CardShown(D, k)
  /\ p.pc = "idle" => \A k \in cards : CardShown(D, k) /\ CardTrue(rs, k)
  /\ p.pc = "marking" =>
       /\ p.mark.base <= D[p.mark.cloudId].version
       /\ ~p.mark.deleted => Snapshot(D, p.mark.cloudId, p.mark.base, rs[p.current.row].payload)
  /\ r # NoCall => r.card \in cards
  /\ r # NoCall /\ r.stage = "marking" => Snapshot(D, r.doc, r.version, r.card.local)

OnlyOneActs == \A d, e \in Devices : d = e \/ Quiet(d) \/ Quiet(e)

CallsTrue(D, p, r, push, dialog) ==
  /\ push.stage # "idle" => ServedTrue(D, push, p.current.request)
  /\ dialog.stage # "idle" => ServedTrue(D, dialog, DialogRequest(r))

CloudTrue ==
  /\ OnlyOneActs
  /\ \A d \in Devices :
       /\ SeenTrue(docs, Known, pass[d], conflicts[d], resolution[d], rows[d])
       /\ CallsTrue(docs, pass[d], resolution[d], handler[Pusher(d)], handler[Dialog(d)])

-----------------------------------------------------------------------------
(* A pass forgets no dirty row, as long as no call is lost.                *)

Kept(p, rs, l) ==
  \/ \E q \in p.pushes \cup UnderWay(p) : q.row = l
  \/ \E k \in p.found : k.row = l

NoneForgotten(p, rs) ==
  /\ p.pc = "reading" /\ p.cloudState # NotRead =>
       \A l \in StoredIn(rs) : Local!Linked(rs[l]) => rs[l].cloudId \in DOMAIN p.cloudState
  /\ p.pc \in {"pushing", "calling", "marking"} =>
       \A l \in StoredIn(rs) :
         Local!Linked(rs[l]) /\ Local!Dirty(rs[l]) => Kept(p, rs, l)

AllRemembered == \A d \in Devices : NoneForgotten(pass[d], rows[d])

-----------------------------------------------------------------------------
(* A pass leaves no row behind in silence, as long as no call is lost and  *)
(* one device acts at a time: whatever name a create may still meet is in  *)
(* the list it read, or that of a document the pass itself has written.    *)

\* An update of document i that the pass still has to send will be refused.
Outdated(D, p, i) ==
  \A q \in p.pushes \cup UnderWay(p) :
    q.request.op = "update" /\ q.request.doc = i => q.request.expected < D[i].version

\* Row k shows document i, or will once it is confirmed, until the pass ends.
ShowsDoc(D, p, push, rs, k, i) ==
  /\ k \in StoredIn(rs) /\ k \notin DOMAIN p.marks /\ ~rs[k].deleted
  /\ Outdated(D, p, i)
  /\ \/ rs[k].cloudId = i
     \/ /\ p.pc = "calling" /\ p.current.row = k
        /\ push.stage = "replied" /\ push.status = 200 /\ push.doc = i
     \/ p.pc = "marking" /\ p.current.row = k /\ p.mark.cloudId = i

ShownDoc(D, p, push, rs, i) == \E k \in LocalIds : ShowsDoc(D, p, push, rs, k, i)

\* The name of row l is that of a document which another row shows.
Blocked(D, known, p, push, rs, l) ==
  \E i \in known : D[i].payload.name = rs[l].payload.name /\ ShownDoc(D, p, push, rs, i)

\* If call q is refused, its card is at hand or its row is blocked.
Foreseen(D, known, p, push, rs, q) ==
  q.request.op = "create" /\ q.collision = {} =>
    \A i \in known :
      ~D[i].deleted /\ D[i].payload.name = q.request.payload.name => ShownDoc(D, p, push, rs, i)

NoneMissed(D, known, p, push, rs) ==
  /\ p.pc = "reading" /\ p.cloudList # NotRead =>
       \A i \in known : D[i].deleted \/ i \in DOMAIN p.cloudList
  /\ \A q \in p.pushes : Foreseen(D, known, p, push, rs, q)
  /\ p.pc = "calling" =>
       IF push.stage # "replied" THEN Foreseen(D, known, p, push, rs, p.current)
       ELSE push.status = 400 /\ p.current.collision = {} =>
              Blocked(D, known, p, push, rs, p.current.row)
  /\ p.pc = "marking" /\ p.current.request.op # "create" =>
       p.mark.cloudId = p.current.request.doc
  /\ p.pc \in {"pushing", "calling", "marking"} =>
       \A l \in StoredIn(rs) : ~Local!Linked(rs[l]) /\ ~rs[l].deleted =>
         Kept(p, rs, l) \/ Blocked(D, known, p, push, rs, l)

AllAnswered ==
  faults = 0 =>
    /\ AllRemembered
    /\ \A d \in Devices : NoneMissed(docs, Known, pass[d], handler[Pusher(d)], rows[d])

-----------------------------------------------------------------------------
(* Everything that is held or sent for a document is a version of its      *)
(* record, as long as names need not be unique, a create keeps the content *)
(* and the user does not act during a pass.  H is a history: the record of *)
(* each edit (own) and of each document (rec), after n edits; a record is  *)
(* numbered by its first edit.                                             *)

Version(H, p, r) == r \in p.edits /\ p.edits \subseteq 1..H.n /\ \A e \in p.edits : H.own[e] = r
About(H, p, i) == Version(H, p, H.rec[i])

Unheld(rs, i) == \A k \in StoredIn(rs) : rs[k].cloudId # i
HeldBy(rs, i, l) == \A k \in StoredIn(rs) : rs[k].cloudId = i => k = l

RowDescends(H, rs, l) ==
  IF Local!Linked(rs[l])
    THEN About(H, rs[l].payload, rs[l].cloudId) /\ HeldBy(rs, rs[l].cloudId, l)
    ELSE \E r \in 1..H.n : Version(H, rs[l].payload, r)

CardDescends(H, D, rs, k) ==
  /\ k.row \in StoredIn(rs) /\ rs[k.row].cloudId = k.doc
  /\ About(H, k.local, k.doc) /\ About(H, k.cloud.payload, k.doc)
  /\ k.cloud.deleted => D[k.doc].deleted

\* Document i is the one the push under way is about.
Lands(H, p, rs, i) ==
  IF p.current.request.op = "create"
    THEN /\ About(H, rs[p.current.row].payload, i)
         /\ Unheld(rs, i) /\ \A e \in p.pulls : e.cloudId # i
    ELSE i = p.current.request.doc

PassDescends(H, D, p, rs, push) ==
  /\ p.pc = "reading" /\ p.cloudList # NotRead =>
       \A i \in DOMAIN p.cloudList : About(H, p.cloudList[i].payload, i)
  /\ \A e \in p.pulls : About(H, e.payload, e.cloudId) /\ Unheld(rs, e.cloudId)
  /\ \A e, f \in p.pulls : e.cloudId = f.cloudId => e = f
  /\ \A l \in DOMAIN p.marks :
       /\ p.marks[l].cloudId = rs[l].cloudId
       /\ p.marks[l].resolved # NoPayload => About(H, p.marks[l].resolved, p.marks[l].cloudId)
  /\ \A k \in p.found : CardDescends(H, D, rs, k)
  /\ push.stage = "replied" =>
       /\ push.status # 400 /\ Lands(H, p, rs, push.doc)
       /\ push.status = 409 => /\ About(H, push.result.payload, push.doc)
                               /\ push.result.deleted => D[push.doc].deleted
  /\ p.pc = "marking" => Lands(H, p, rs, p.mark.cloudId)

\* Document i is one "keep local" may put the card's content into.
Target(H, rs, k, i) == H.rec[i] = H.rec[k.doc] /\ HeldBy(rs, i, k.row)

DialogDescends(H, D, r, rs, dialog) ==
  r # NoCall =>
    /\ CardDescends(H, D, rs, r.card)
    /\ IF r.stage # "recreating" THEN Target(H, rs, r.card, r.doc)
       ELSE /\ r.card.cloud.deleted
            /\ dialog.stage = "replied" =>
                 dialog.status # 400 /\ Target(H, rs, r.card, dialog.doc)

DeviceDescends(H, D, p, cards, r, rs, push, dialog) ==
  /\ \A l \in StoredIn(rs) : RowDescends(H, rs, l)
  /\ PassDescends(H, D, p, rs, push)
  /\ \A k \in cards : CardDescends(H, D, rs, k)
  /\ DialogDescends(H, D, r, rs, dialog)

\* The push of row l has made its document, the row just does not know yet.
Landed(p, push, l) ==
  /\ p.pc \in {"calling", "marking"} /\ p.current.row = l
  /\ p.pc = "calling" => push.stage = "replied"

Unlinked(rs) == {l \in StoredIn(rs) : ~Local!Linked(rs[l])}

\* As long as no call is lost: a record has one document unless it was deleted,
\* none while a row of it waits for one, and one such row.
Single(H, D, known) ==
  \A i, j \in known :
    i # j /\ H.rec[i] = H.rec[j] => \E k \in known : D[k].deleted /\ H.rec[k] = H.rec[i]
WaitsForOne(H, known, p, push, rs) ==
  \A l \in Unlinked(rs) : Landed(p, push, l) \/ \A i \in known : ~About(H, rs[l].payload, i)
Apart(H, all) ==
  \A d, e \in Devices : \A l \in Unlinked(all[d]), k \in Unlinked(all[e]) : \A r \in 1..H.n :
    Version(H, all[d][l].payload, r) /\ Version(H, all[e][k].payload, r) => d = e /\ l = k

Once(H) ==
  /\ Single(H, docs, Known) /\ Apart(H, rows)
  /\ \A d \in Devices : WaitsForOne(H, Known, pass[d], handler[Pusher(d)], rows[d])

History(H) ==
  /\ DOMAIN H = {"own", "rec", "n"} /\ H.n = lastEdit
  /\ H.own \in [Edits -> Nat] /\ \A e \in 1..lastEdit : H.own[e] \in 1..lastEdit
  /\ H.rec \in [DocIds -> Nat]
  /\ \A i \in Known : H.rec[i] \in 1..lastEdit /\ About(H, docs[i].payload, i)

Descends(H) ==
  /\ History(H)
  /\ \A d \in Devices :
       DeviceDescends(H, docs, pass[d], conflicts[d], resolution[d], rows[d],
                      handler[Pusher(d)], handler[Dialog(d)])
  /\ faults = 0 => Once(H)

AllDescends == \E H : Descends(H)
=============================================================================
