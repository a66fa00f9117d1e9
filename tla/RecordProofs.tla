---------------------------- MODULE RecordProofs ----------------------------
(***************************************************************************)
(* No record is doubled by the sync, and none is left behind.  First the   *)
(* descent of contents: every document, row, card and call is a version of *)
(* one record, and goes where that record is (Descends of SyncInvariants). *)
(* Then what a pass foresees of the names that are taken (NoneMissed).     *)
(* Both rest on the types and on LocalTrue of SyncProofs, the second on    *)
(* CloudTrue too.                                                          *)
(***************************************************************************)
EXTENDS SyncProofs, FiniteSetTheorems, WellFoundedInduction

-----------------------------------------------------------------------------
(* Histories. *)

\* G goes on from H, which knew of the documents in known.
Later(H, G, known) ==
  /\ H.n \in Nat /\ G.n \in Nat /\ H.n <= G.n
  /\ \A e \in 1..H.n : G.own[e] = H.own[e]
  /\ \A i \in known : G.rec[i] = H.rec[i]

LEMMA VersionLater ==
  ASSUME NEW H, NEW G, NEW known, Later(H, G, known)
  PROVE  /\ \A p, r : Version(H, p, r) => Version(G, p, r)
         /\ \A p, i : i \in known /\ About(H, p, i) => About(G, p, i)
         /\ 1..H.n \subseteq 1..G.n
<1>1. 1..H.n \subseteq 1..G.n
  BY DEF Later
<1>2. \A p, r : Version(H, p, r) => Version(G, p, r)
  BY <1>1 DEF Later, Version
<1> QED
  BY <1>1, <1>2 DEF Later, About

\* A content is of one record.
LEMMA OneRecord ==
  ASSUME NEW H, NEW p, NEW r, NEW s, Version(H, p, r), Version(H, p, s)
  PROVE  r = s
BY DEF Version

-----------------------------------------------------------------------------
(* Rows. *)

\* A row is linked to the document that is its alone; the others stay.
LEMMA RowLinked ==
  ASSUME NEW H, NEW rs, NEW rt, NEW l \in StoredIn(rs),
         \A k \in LocalIds \ {l} : rt[k] = rs[k],
         rt[l] # NoRow, Local!Linked(rt[l]),
         About(H, rt[l].payload, rt[l].cloudId), HeldBy(rs, rt[l].cloudId, l),
         \A k \in StoredIn(rs) : RowDescends(H, rs, k)
  PROVE  StoredIn(rt) = StoredIn(rs) /\ \A k \in StoredIn(rt) : RowDescends(H, rt, k)
<1>1. StoredIn(rt) = StoredIn(rs) /\ l \in LocalIds
  BY DEF StoredIn
<1>2. RowDescends(H, rt, l)
  BY <1>1 DEF RowDescends, HeldBy, StoredIn
<1>3. ASSUME NEW k \in StoredIn(rs), k # l PROVE RowDescends(H, rt, k)
  <2>1. rt[k] = rs[k] /\ RowDescends(H, rs, k)
    BY <1>3 DEF StoredIn
  <2>2. CASE Local!Linked(rs[k])
    <3>1. HeldBy(rt, rt[k].cloudId, k)
      BY <1>1, <1>3, <2>1, <2>2 DEF HeldBy, RowDescends, StoredIn
    <3> QED
      BY <2>1, <2>2, <3>1 DEF RowDescends
  <2>3. CASE ~Local!Linked(rs[k])
    BY <2>1, <2>3 DEF RowDescends
  <2> QED
    BY <2>2, <2>3
<1> QED
  BY <1>1, <1>2, <1>3

\* Rows keep their documents; what is written is about them.
LEMMA RowsKeepLinks ==
  ASSUME NEW H, NEW rs, NEW rt, StoredIn(rt) = StoredIn(rs),
         \A k \in StoredIn(rs) :
           /\ rt[k].cloudId = rs[k].cloudId
           /\ \/ rt[k].payload = rs[k].payload
              \/ Local!Linked(rs[k]) /\ About(H, rt[k].payload, rs[k].cloudId),
         \A k \in StoredIn(rs) : RowDescends(H, rs, k)
  PROVE  \A k \in StoredIn(rt) : RowDescends(H, rt, k)
<1> SUFFICES ASSUME NEW k \in StoredIn(rs) PROVE RowDescends(H, rt, k)
  OBVIOUS
<1>1. RowDescends(H, rs, k) /\ (Local!Linked(rt[k]) <=> Local!Linked(rs[k]))
  BY DEF Local!Linked
<1>2. CASE Local!Linked(rs[k])
  <2>1. HeldBy(rt, rt[k].cloudId, k)
    BY <1>1, <1>2 DEF RowDescends, HeldBy
  <2> QED
    BY <1>1, <1>2, <2>1 DEF RowDescends
<1>3. CASE ~Local!Linked(rs[k])
  BY <1>1, <1>3 DEF RowDescends
<1> QED
  BY <1>2, <1>3

\* Cards stay true of rows that keep their documents.
LEMMA CardsKeep ==
  ASSUME NEW H, NEW D, NEW rs, NEW rt, NEW shown,
         \A k \in shown : CardDescends(H, D, rs, k),
         \A k \in shown : k.row \in StoredIn(rt) /\ rt[k.row].cloudId = rs[k.row].cloudId
  PROVE  \A k \in shown : CardDescends(H, D, rt, k)
BY DEF CardDescends

LEMMA IdleDescends ==
  ASSUME NEW H, NEW D, NEW rs, NEW push, push.stage # "replied"
  PROVE  PassDescends(H, D, NoPass, rs, push)
BY DEF PassDescends, NoPass

-----------------------------------------------------------------------------
(* A step of device d. *)

Before(d, H) ==
  DeviceDescends(H, docs, pass[d], conflicts[d], resolution[d], rows[d],
                 handler[Pusher(d)], handler[Dialog(d)])
After(d, H) ==
  DeviceDescends(H, docs, pass'[d], conflicts'[d], resolution'[d], rows'[d],
                 handler'[Pusher(d)], handler'[Dialog(d)])

LEMMA DeviceFacts ==
  ASSUME SyncTypeOK, LocalTrue, NEW d \in Devices
  PROVE  /\ Shape /\ PassTyped(pass[d], Known) /\ PassTrue(pass[d], resolution[d], rows[d])
         /\ StoreOK(rows[d], issued[d], Known) /\ StoredIn(rows[d]) \subseteq LocalIds
         /\ conflicts[d] \subseteq CardOf(Known)
         /\ pass[d].pc # "idle" => resolution[d] = NoCall
         /\ pass[d].pc = "idle" => pass[d] = NoPass
         /\ pass[d].pc # "calling" => handler[Pusher(d)].stage = "idle"
BY HandlerParts DEF SyncTypeOK, WindowOK, CallsOK, LocalTrue, PassTrue, StoredIn

\* While a pass runs there is no resolution.
LEMMA PassAfter ==
  ASSUME SyncTypeOK, LocalTrue, NEW d \in Devices, NEW H, pass[d].pc # "idle",
         resolution'[d] = resolution[d],
         \A l \in StoredIn(rows'[d]) : RowDescends(H, rows'[d], l),
         \A k \in conflicts'[d] : CardDescends(H, docs, rows'[d], k),
         PassDescends(H, docs, pass'[d], rows'[d], handler'[Pusher(d)])
  PROVE  After(d, H)
BY DeviceFacts DEF After, DeviceDescends, DialogDescends

LEMMA ReadDescends ==
  ASSUME SyncTypeOK, LocalTrue, ~EditDuringPass, NEW H, NEW d \in Devices, Before(d, H),
         \A i \in Known : About(H, docs[i].payload, i),
         StartPass(d) \/ Read(d) \/ ReadFails(d)
  PROVE  After(d, H)
<1> DEFINE p == pass[d]  n == pass'[d]  rs == rows[d]
<1>1. Shape /\ PassTyped(p, Known) /\ PassTrue(p, resolution[d], rs)
  BY DeviceFacts
<1>2. CASE StartPass(d)
  <2>1. /\ p = NoPass /\ n = [NoPass EXCEPT !.pc = "reading"] /\ PassAlone(d)
        /\ resolution[d] = NoCall /\ handler[Pusher(d)].stage = "idle"
    BY <1>1, <1>2, DeviceFacts, StartPassDoes DEF StartPass, At, NoPass
  <2>2. PassDescends(H, docs, n, rs, handler[Pusher(d)])
    BY <2>1 DEF PassDescends, NoPass
  <2> QED
    BY <2>1, <2>2 DEF Before, After, DeviceDescends, DialogDescends, PassAlone, SameStore, SameCalls
<1>3. CASE Read(d)
  <2>1. PassAlone(d) /\ p.pc = "reading" /\ p.found = {} /\ p.pulls = {} /\ DOMAIN p.marks = {}
    BY <1>1, <1>3, ReadDoes DEF PassTrue
  <2>2. /\ n.pc = "reading" /\ n.found = {} /\ n.pulls = {} /\ n.marks = p.marks
        /\ n.cloudList = p.cloudList \/ \E S \in SUBSET Known : n.cloudList = [i \in S |-> docs[i]]
    BY <1>1, <1>3, <2>1, ReadDoes, ZenonT(60) DEF PassTyped, NoPass
  <2>3. n.cloudList # NotRead =>
          \A i \in DOMAIN n.cloudList : About(H, n.cloudList[i].payload, i)
    <3>1. CASE n.cloudList = p.cloudList
      BY <2>1, <3>1 DEF Before, DeviceDescends, PassDescends
    <3>2. ASSUME NEW S \in SUBSET Known, n.cloudList = [i \in S |-> docs[i]]
          PROVE  \A i \in DOMAIN n.cloudList : About(H, n.cloudList[i].payload, i)
      <4> HIDE DEF n
      <4> QED
        BY <3>2
    <3> QED
      BY <2>2, <3>1, <3>2
  <2>4. handler[Pusher(d)].stage = "idle"
    BY <2>1, DeviceFacts
  <2> HIDE DEF n
  <2>5. PassDescends(H, docs, n, rs, handler[Pusher(d)])
    BY <2>1, <2>2, <2>3, <2>4 DEF PassDescends
  <2> QED
    BY <2>1, <2>5, PassAfter DEF Before, DeviceDescends, PassAlone, SameStore, SameCalls, n
<1>4. CASE ReadFails(d)
  <2>1. /\ p.pc = "reading" /\ SameStore(d) /\ SameCalls(d) /\ resolution'[d] = resolution[d]
        /\ n = NoPass /\ conflicts'[d] = {}
    BY <1>1, <1>4, ReadFailsDoes
  <2>2. handler'[Pusher(d)].stage # "replied" /\ rows'[d] = rs
    BY <2>1, DeviceFacts DEF SameStore, SameCalls
  <2> QED
    BY <2>1, <2>2, IdleDescends, PassAfter DEF Before, DeviceDescends
<1> QED
  BY <1>2, <1>3, <1>4

LEMMA DecideDescends ==
  ASSUME SyncTypeOK, LocalTrue, NEW H, NEW d \in Devices, Before(d, H), Decide(d)
  PROVE  After(d, H)
<1> DEFINE p == pass[d]  n == pass'[d]  rs == rows[d]
           ls == p.localState  cs == p.cloudState  cl == p.cloudList
<1>1. /\ Shape /\ PassTyped(p, Known) /\ PassTrue(p, resolution[d], rs)
      /\ handler[Pusher(d)].stage = "idle"
  <2>1. Shape
    BY DeviceFacts
  <2> QED
    BY <2>1, DeviceFacts, DecideDoes
<1>2. /\ PassAlone(d) /\ p.pc = "reading"
      /\ NotRead \notin {ls, p.localList, cs, cl}
  BY <1>1, DecideDoes
<1>3. PICK f \in LocalByCloudId(ls, cs) : n = Decided(p, f)
  BY <1>1, DecideDoes
<1>4. /\ DOMAIN ls = StoredIn(rs) /\ \A l \in StoredIn(rs) : ls[l].cloudId = rs[l].cloudId
  <2>1. ls = StateOf(rs)
    BY <1>1, <1>2 DEF PassTrue
  <2> QED
    BY <2>1 DEF StateOf
<1>5. \A i \in DOMAIN cl : About(H, cl[i].payload, i)
  BY <1>2 DEF Before, DeviceDescends, PassDescends
<1>6. /\ n.pc = "pushing" /\ n.found = {} /\ n.pulls = NewRecords(ls, cs, cl)
      /\ n.marks = StaleMarks(ls, cs, cl, f)
  BY <1>3 DEF Decided, NoPass
<1> HIDE DEF n, ls, cs, cl
<1>7. \A e \in n.pulls : About(H, e.payload, e.cloudId) /\ Unheld(rs, e.cloudId)
  BY <1>4, <1>5, <1>6 DEF NewRecords, LinkedRows, Unheld
<1>8. \A e, o \in n.pulls : e.cloudId = o.cloudId => e = o
  BY <1>6 DEF NewRecords
<1>9. ASSUME NEW l \in DOMAIN n.marks
      PROVE  /\ n.marks[l].cloudId = rs[l].cloudId
             /\ n.marks[l].resolved # NoPayload => About(H, n.marks[l].resolved, n.marks[l].cloudId)
  <2>1. l \in StaleRows(ls, cs, cl, f)
    BY <1>6, <1>9 DEF StaleMarks
  <2>2. /\ l \in DOMAIN ls
        /\ LET i == ls[l].cloudId IN
             cs[i].deleted \/ i \in DOMAIN cl
    BY <2>1 DEF StaleRows, LocalByCloudId, LinkedRows
  <2>3. /\ n.marks[l].cloudId = ls[l].cloudId
        /\ n.marks[l].resolved =
             IF cs[ls[l].cloudId].deleted THEN NoPayload ELSE cl[ls[l].cloudId].payload
    BY <1>6, <2>1 DEF StaleMarks, MarkEntry
  <2> QED
    BY <1>4, <1>5, <2>2, <2>3
<1>10. PassDescends(H, docs, n, rs, handler[Pusher(d)])
  BY <1>1, <1>6, <1>7, <1>8, <1>9 DEF PassDescends
<1> QED
  BY <1>2, <1>10, PassAfter DEF Before, DeviceDescends, PassAlone, SameStore, SameCalls, n

LEMMA PushDescends ==
  ASSUME SyncTypeOK, LocalTrue, NEW H, NEW d \in Devices, Before(d, H), Push(d)
  PROVE  After(d, H)
<1> DEFINE p == pass[d]  n == pass'[d]  rs == rows[d]
<1>1. Shape /\ PassTyped(p, Known)
  BY DeviceFacts
<1>2. /\ SameStore(d) /\ conflicts'[d] = conflicts[d] /\ resolution'[d] = resolution[d]
      /\ p.pc = "pushing"
  BY <1>1, PushDoes
<1>3. PICK q \in p.pushes :
        handler'[Pusher(d)] = Cloud!Received(q.request) /\ n = StartPush(p, q)
  BY <1>1, PushDoes
<1>4. /\ n.pc = "calling" /\ n.found = p.found /\ n.pulls = p.pulls /\ n.marks = p.marks
      /\ handler'[Pusher(d)].stage = "received"
  BY <1>1, <1>3 DEF StartPush, PassTyped, NoPass, Cloud!Received
<1> HIDE DEF n
<1>5. PassDescends(H, docs, n, rs, handler'[Pusher(d)])
  BY <1>2, <1>4 DEF Before, DeviceDescends, PassDescends
<1> QED
  BY <1>2, <1>5, PassAfter DEF Before, DeviceDescends, SameStore, n

\* What a pass holds once its call is over.
LEMMA NextDescends ==
  ASSUME NEW H, NEW D, NEW rs, NEW p, NEW push, PassTyped(p, Known), p.pc \in {"calling", "marking"},
         PassDescends(H, D, p, rs, push), NEW next, next.stage # "replied",
         NEW found, \A k \in found : CardDescends(H, D, rs, k)
  PROVE  PassDescends(H, D, NextPush(p, found), rs, next)
<1> DEFINE n == NextPush(p, found)
<1>1. n.pc = "pushing" /\ n.found = found /\ n.pulls = p.pulls /\ n.marks = p.marks
  BY DEF NextPush, PassTyped, NoPass
<1> HIDE DEF n
<1>2. PassDescends(H, D, n, rs, next)
  BY <1>1 DEF PassDescends
<1> QED
  BY <1>2 DEF n

LEMMA AnswerDescends ==
  ASSUME SyncTypeOK, LocalTrue, NEW H, NEW d \in Devices, Before(d, H),
         PushAccepted(d) \/ PushConflicts(d) \/ PushCollides(d) \/ PushLost(d)
  PROVE  After(d, H)
<1> DEFINE p == pass[d]  n == pass'[d]  rs == rows[d]  push == handler[Pusher(d)]  q == p.current
<1>1. Shape /\ PassTyped(p, Known) /\ PassTrue(p, resolution[d], rs)
  BY DeviceFacts
<1>2. Taken(d)
  BY <1>1, PushAcceptedDoes, PushConflictsDoes, PushCollidesDoes, PushLostDoes, ZenonT(60)
<1>3. /\ p.pc = "calling" /\ SameStore(d) /\ rows'[d] = rs
      /\ conflicts'[d] = conflicts[d] /\ resolution'[d] = resolution[d]
      /\ handler'[Pusher(d)].stage = "idle"
  BY <1>2, IdleHandler DEF Taken, SameStore
<1>4. /\ PassDescends(H, docs, p, rs, push)
      /\ \A l \in StoredIn(rs) : RowDescends(H, rs, l)
      /\ \A k \in conflicts[d] : CardDescends(H, docs, rs, k)
  BY DEF Before, DeviceDescends
<1>5. /\ PushTrue(rs, q) /\ q.row \in StoredIn(rs)
      /\ q \in PushCall(Known) /\ (push.stage = "replied" => Serves(push, q.request, Known))
  BY <1>1, <1>3 DEF PassTrue, PushTrue, ToPush, UnderWay, SyncTypeOK, WindowOK, CallsOK
<1>6. ASSUME NEW found, \A k \in found : CardDescends(H, docs, rs, k), n = NextPush(p, found)
      PROVE  After(d, H)
  <2>1. PassDescends(H, docs, NextPush(p, found), rs, handler'[Pusher(d)])
    BY <1>1, <1>3, <1>4, <1>6, NextDescends
  <2> QED
    BY <1>3, <1>4, <1>6, <2>1, PassAfter
<1>7. \A k \in p.found : CardDescends(H, docs, rs, k)
  BY <1>4 DEF PassDescends
<1>8. CASE PushAccepted(d)
  <2> DEFINE m == MarkEntry(push.doc, push.result.version, q.request.op = "delete", NoPayload)
  <2>1. n = AcceptPush(p, m) /\ push.stage = "replied"
    BY <1>1, <1>8, PushAcceptedDoes DEF Answer
  <2>5. m.cloudId = push.doc
    BY DEF MarkEntry
  <2> HIDE DEF m
  <2>2. /\ n.pc = "marking" /\ n.mark = m /\ n.current = q /\ n.found = p.found
        /\ n.pulls = p.pulls /\ n.marks = p.marks
    BY <1>1, <2>1 DEF AcceptPush, PassTyped, NoPass
  <2> HIDE DEF n
  <2>3. Lands(H, n, rs, n.mark.cloudId)
    BY <1>4, <2>1, <2>2, <2>5 DEF PassDescends, Lands
  <2>4. PassDescends(H, docs, n, rs, handler'[Pusher(d)])
    BY <1>3, <1>4, <2>2, <2>3 DEF PassDescends
  <2> QED
    BY <1>3, <1>4, <2>4, PassAfter DEF n
<1>9. CASE PushConflicts(d)
  <2> DEFINE k == Conflict(q.row, q.local, push.doc, push.result)
  <2>1. push.stage = "replied" /\ push.status = 409 /\ n = NextPush(p, p.found \cup {k})
    BY <1>1, <1>9, PushConflictsDoes DEF Answer
  <2>2. q.request.op = "update"
    BY <1>5, <2>1 DEF Serves
  <2>3. Local!Linked(rs[q.row]) /\ push.doc = rs[q.row].cloudId /\ q.local = rs[q.row].payload
    <3>1. push.doc = q.request.doc
      BY <1>4, <2>1, <2>2 DEF PassDescends, Lands
    <3> QED
      BY <1>5, <2>2, <3>1 DEF PushTrue
  <2>4. About(H, q.local, push.doc)
    BY <1>4, <1>5, <2>3 DEF RowDescends
  <2>5. About(H, push.result.payload, push.doc) /\ (push.result.deleted => docs[push.doc].deleted)
    BY <1>4, <2>1 DEF PassDescends
  <2>6. k.row = q.row /\ k.local = q.local /\ k.doc = push.doc /\ k.cloud = push.result
    BY DEF Conflict
  <2> HIDE DEF k
  <2>7. CardDescends(H, docs, rs, k)
    BY <1>5, <2>3, <2>4, <2>5, <2>6 DEF CardDescends
  <2> QED
    BY <1>6, <1>7, <2>1, <2>7
<1>10. CASE PushCollides(d)
  <2>1. push.stage = "replied" /\ push.status = 400
    BY <1>1, <1>10, PushCollidesDoes DEF Answer
  <2> QED
    BY <1>4, <2>1 DEF PassDescends
<1>11. CASE PushLost(d)
  BY <1>1, <1>6, <1>7, <1>11, PushLostDoes
<1> QED
  BY <1>8, <1>9, <1>10, <1>11

LEMMA ConfirmDescends ==
  ASSUME SyncTypeOK, SyncTypeOK', LocalTrue, NEW H, NEW d \in Devices, Before(d, H),
         Confirm(d) \/ ConfirmLost(d)
  PROVE  After(d, H)
<1> DEFINE p == pass[d]  n == pass'[d]  rs == rows[d]  rt == rows'[d]
           push == handler[Pusher(d)]  q == p.current  l == p.current.row
<1>1. /\ Shape /\ PassTyped(p, Known) /\ PassTrue(p, resolution[d], rs)
      /\ StoreOK(rs, issued[d], Known) /\ StoreOK(rt, issued'[d], Known') /\ StoredIn(rs) \subseteq LocalIds
  BY DeviceFacts DEF SyncTypeOK
<1>2. /\ resolution'[d] = resolution[d] /\ conflicts'[d] = conflicts[d] /\ p.pc = "marking"
      /\ n = NextPush(p, p.found) /\ SameCalls(d) /\ push.stage = "idle"
  <2>1. /\ resolution'[d] = resolution[d] /\ conflicts'[d] = conflicts[d] /\ p.pc = "marking"
        /\ n = NextPush(p, p.found) /\ SameCalls(d)
    BY <1>1, ConfirmDoes, ConfirmLostDoes DEF PassAlone
  <2> QED
    BY <2>1, DeviceFacts
<1>3. /\ PassDescends(H, docs, p, rs, push)
      /\ \A k \in StoredIn(rs) : RowDescends(H, rs, k)
      /\ \A k \in conflicts[d] : CardDescends(H, docs, rs, k)
      /\ \A k \in p.found : CardDescends(H, docs, rs, k)
  BY DEF Before, DeviceDescends, PassDescends
<1>4. ASSUME \A k \in StoredIn(rt) : RowDescends(H, rt, k),
             \A k \in conflicts[d] \cup p.found : CardDescends(H, docs, rt, k),
             \A e \in p.pulls : Unheld(rt, e.cloudId),
             \A k \in DOMAIN p.marks : rt[k].cloudId = rs[k].cloudId
      PROVE  After(d, H)
  <2>1. /\ n.pc = "pushing" /\ n.found = p.found /\ n.pulls = p.pulls /\ n.marks = p.marks
        /\ handler'[Pusher(d)].stage = "idle"
    BY <1>1, <1>2 DEF NextPush, PassTyped, NoPass, SameCalls
  <2> HIDE DEF n
  <2>2. PassDescends(H, docs, n, rt, handler'[Pusher(d)])
    BY <1>3, <1>4, <2>1 DEF PassDescends
  <2> QED
    BY <1>2, <1>4, <2>2, PassAfter DEF n
<1>5. CASE ConfirmLost(d)
  <2>1. rt = rs
    BY <1>1, <1>5, ConfirmLostDoes DEF PassAlone, SameStore
  <2> QED
    BY <1>3, <1>4, <2>1 DEF PassDescends
<1>6. CASE Confirm(d)
  <2>1. /\ PushTrue(rs, q) /\ l \in StoredIn(rs) /\ l \in ToPush(rs) /\ p.mark.resolved = NoPayload
        /\ p.mark.cloudId \in Known /\ Lands(H, p, rs, p.mark.cloudId)
    <3>1. p.mark \in MarkOf(Known)
      BY <1>2 DEF SyncTypeOK, WindowOK, CallsOK
    <3> QED
      BY <1>1, <1>2, <1>3, <3>1 DEF PassTrue, PushTrue, ToPush, UnderWay, PassDescends, MarkOf
  <2>2. rt = Marked(rs, [k \in {l} |-> p.mark])
    BY <1>1, <1>6, ConfirmDoes
  <2>3. /\ \A k \in LocalIds \ {l} : rt[k] = rs[k]
        /\ rt[l].cloudId = p.mark.cloudId /\ rt[l].payload = rs[l].payload
    <3>1. rt[l] = Local!SyncedRow(rs[l], p.mark) /\ \A k \in LocalIds \ {l} : rt[k] = rs[k]
      BY <1>1, <2>1, <2>2 DEF Marked
    <3> QED
      BY <2>1, <3>1 DEF Local!SyncedRow
  <2>4. rt[l] # NoRow
    <3>1. rs[l] \in RowType /\ p.mark \in MarkOf(Known) /\ l \in LocalIds
      BY <1>1, <1>2, <2>1, SameData DEF StoreOK, StoredIn, SyncTypeOK, WindowOK, CallsOK
    <3>2. rt[l] = Local!SyncedRow(rs[l], p.mark)
      BY <2>1, <2>2, <3>1 DEF Marked
    <3>3. Local!SyncedRow(rs[l], p.mark) \in Local!Row
      BY <3>1, KnownAre, SameData DEF Local!SyncedRow, RowType, MarkOf
    <3> QED
      BY <3>2, <3>3, NoCallAssumption
  <2>5. Local!Linked(rt[l])
    BY <2>1, <2>3, KnownAre, SentinelAssumption DEF Local!Linked
  <2>6. About(H, rt[l].payload, rt[l].cloudId) /\ HeldBy(rs, rt[l].cloudId, l)
    BY <1>3, <2>1, <2>3 DEF Lands, PushTrue, RowDescends, HeldBy, Unheld
  <2>7. StoredIn(rt) = StoredIn(rs) /\ \A k \in StoredIn(rt) : RowDescends(H, rt, k)
    BY <1>3, <2>1, <2>3, <2>4, <2>5, <2>6, RowLinked
  <2>8. ASSUME Local!Linked(rs[l]) PROVE rt[l].cloudId = rs[l].cloudId
    BY <2>1, <2>3, <2>8 DEF Lands, PushTrue
  <2>9. ASSUME NEW k, CardDescends(H, docs, rs, k), k.doc \in Known
        PROVE  CardDescends(H, docs, rt, k)
    <3>1. k.row \in StoredIn(rs) /\ rs[k.row].cloudId = k.doc /\ k.doc # NoDoc
      BY <2>9, KnownAre, SentinelAssumption DEF CardDescends
    <3>2. rt[k.row].cloudId = rs[k.row].cloudId
      BY <1>1, <2>3, <2>8, <3>1 DEF Local!Linked
    <3> QED
      BY <2>7, <2>9, <3>1, <3>2 DEF CardDescends
  <2>10. /\ \A k \in conflicts[d] : CardDescends(H, docs, rt, k)
         /\ \A k \in p.found : CardDescends(H, docs, rt, k)
    <3>1. conflicts[d] \subseteq CardOf(Known) /\ p.found \subseteq CardOf(Known)
      BY <1>1, DeviceFacts DEF PassTyped
    <3> QED
      BY <1>3, <2>9, <3>1 DEF CardOf
  <2>11. \A e \in p.pulls : Unheld(rt, e.cloudId)
    <3> SUFFICES ASSUME NEW e \in p.pulls, NEW k \in StoredIn(rs) PROVE rt[k].cloudId # e.cloudId
      BY <2>7 DEF Unheld
    <3>1. Unheld(rs, e.cloudId)
      BY <1>3 DEF PassDescends
    <3>2. CASE k # l
      BY <1>1, <2>3, <3>1, <3>2 DEF Unheld
    <3>3. CASE k = l
      BY <2>1, <2>3, <3>1, <3>3 DEF Unheld, Lands, PushTrue
    <3> QED
      BY <3>2, <3>3
  <2>12. \A k \in DOMAIN p.marks : rt[k] = rs[k]
    BY <1>1, <2>1, <2>3 DEF PassTrue
  <2> QED
    BY <1>4, <2>7, <2>10, <2>11, <2>12
<1> QED
  BY <1>5, <1>6

\* What mark-synced makes of the rows of a device.
LEMMA MarkedRows ==
  ASSUME SyncTypeOK, NEW d \in Devices, NEW marks, \A l \in DOMAIN marks : marks[l] \in MarkOf(Known),
         NEW rt, rt = Marked(rows[d], marks)
  PROVE  /\ StoredIn(rt) = StoredIn(rows[d])
         /\ \A l \in LocalIds : l \notin DOMAIN marks => rt[l] = rows[d][l]
         /\ \A l \in StoredIn(rows[d]) : l \in DOMAIN marks =>
              /\ rt[l].cloudId = marks[l].cloudId /\ Local!Linked(rt[l])
              /\ rt[l].payload = IF marks[l].resolved = NoPayload
                                   THEN rows[d][l].payload ELSE marks[l].resolved
<1> DEFINE rs == rows[d]
<1>1. ASSUME NEW l \in StoredIn(rs), l \in DOMAIN marks
      PROVE  /\ rt[l] # NoRow /\ rt[l].cloudId = marks[l].cloudId /\ Local!Linked(rt[l])
             /\ rt[l].payload = IF marks[l].resolved = NoPayload THEN rs[l].payload ELSE marks[l].resolved
  <2>1. rs[l] \in RowType /\ marks[l] \in MarkOf(Known) /\ l \in LocalIds
    BY <1>1, SameData DEF StoreOK, StoredIn, SyncTypeOK
  <2>2. rt[l] = Local!SyncedRow(rs[l], marks[l])
    BY <1>1, <2>1 DEF Marked
  <2>3. Local!SyncedRow(rs[l], marks[l]) \in Local!Row
    BY <2>1, KnownAre, SameData DEF Local!SyncedRow, RowType, MarkOf
  <2>4. rt[l].cloudId = marks[l].cloudId /\ marks[l].cloudId # NoDoc
    BY <2>1, <2>2, KnownAre, SentinelAssumption DEF Local!SyncedRow, MarkOf
  <2> QED
    BY <2>2, <2>3, <2>4, NoCallAssumption DEF Local!SyncedRow, Local!Linked
<1>2. \A l \in LocalIds : l \notin DOMAIN marks \/ l \notin StoredIn(rs) => rt[l] = rs[l]
  BY DEF Marked
<1>3. StoredIn(rt) = StoredIn(rs)
  BY <1>1, <1>2 DEF StoredIn
<1> QED
  BY <1>1, <1>2, <1>3

\* Every new row is of an entry of its own.
LEMMA PulledOnce ==
  ASSUME Shape, NEW d \in Devices, PullNew(d)
  PROVE  \E id : \A l \in LocalIds :
           \/ rows'[d][l] = rows[d][l]
           \/ /\ l \notin issued[d]
              /\ \E e \in pass[d].pulls : id[e] = l /\ rows'[d][l] = Local!PulledRow(e)
<1>1. PICK id \in [pass[d].pulls -> Local!FreshIds(d)] :
        rows' = [rows EXCEPT ![d] =
          [l \in LocalIds |->
             IF \E e \in pass[d].pulls : id[e] = l
               THEN Local!PulledRow(CHOOSE e \in pass[d].pulls : id[e] = l)
               ELSE rows[d][l]]]
  BY DEF PullNew, Local!Pull
<1>2. \A l \in LocalIds :
        rows'[d][l] = IF \E e \in pass[d].pulls : id[e] = l
                        THEN Local!PulledRow(CHOOSE e \in pass[d].pulls : id[e] = l)
                        ELSE rows[d][l]
  BY <1>1 DEF Shape
<1>3. ASSUME NEW l \in LocalIds, NEW e \in pass[d].pulls, id[e] = l
      PROVE  /\ l \notin issued[d]
             /\ \E f \in pass[d].pulls : id[f] = l /\ rows'[d][l] = Local!PulledRow(f)
  <2>1. l \notin issued[d]
    BY <1>1, <1>3 DEF Local!FreshIds
  <2> DEFINE f == CHOOSE g \in pass[d].pulls : id[g] = l
  <2>2. f \in pass[d].pulls /\ id[f] = l
    BY <1>3
  <2>3. rows'[d][l] = Local!PulledRow(f)
    BY <1>2, <1>3
  <2> HIDE DEF f
  <2> QED
    BY <2>1, <2>2, <2>3
<1>4. \A l \in LocalIds :
        \/ rows'[d][l] = rows[d][l]
        \/ /\ l \notin issued[d]
           /\ \E e \in pass[d].pulls : id[e] = l /\ rows'[d][l] = Local!PulledRow(e)
  BY <1>2, <1>3
<1> QED
  BY <1>4

LEMMA PullNewDescends ==
  ASSUME SyncTypeOK, LocalTrue, NEW H, NEW d \in Devices, Before(d, H), PullNew(d)
  PROVE  After(d, H)
<1> DEFINE p == pass[d]  n == pass'[d]  rs == rows[d]  rt == rows'[d]
<1>1. /\ Shape /\ PassTyped(p, Known) /\ PassTrue(p, resolution[d], rs)
      /\ StoreOK(rs, issued[d], Known) /\ StoredIn(rs) \subseteq LocalIds
  BY DeviceFacts
<1>2. /\ resolution'[d] = resolution[d] /\ conflicts'[d] = conflicts[d] /\ p.pc = "pushing"
      /\ n = [p EXCEPT !.pulls = {}] /\ SameCalls(d)
  BY <1>1, PullNewDoes
<1>3. /\ PassDescends(H, docs, p, rs, handler[Pusher(d)])
      /\ \A k \in StoredIn(rs) : RowDescends(H, rs, k)
      /\ \A k \in conflicts[d] \cup p.found : CardDescends(H, docs, rs, k)
  BY DEF Before, DeviceDescends, PassDescends
<1>4. PICK id : \A l \in LocalIds :
        \/ rt[l] = rs[l]
        \/ l \notin issued[d] /\ \E e \in p.pulls : id[e] = l /\ rt[l] = Local!PulledRow(e)
  BY <1>1, PulledOnce
<1>5. \A l \in StoredIn(rs) : rt[l] = rs[l] /\ l \in StoredIn(rt)
  BY <1>1, <1>4 DEF StoreOK, StoredIn
<1>6. \A l \in StoredIn(rt) \ StoredIn(rs) :
        \E e \in p.pulls : /\ id[e] = l /\ rt[l].payload = e.payload /\ rt[l].cloudId = e.cloudId
                           /\ Local!Linked(rt[l])
  <2> SUFFICES ASSUME NEW l \in StoredIn(rt) \ StoredIn(rs)
               PROVE  \E e \in p.pulls : /\ id[e] = l /\ rt[l].payload = e.payload
                                         /\ rt[l].cloudId = e.cloudId /\ Local!Linked(rt[l])
    OBVIOUS
  <2>1. l \in LocalIds /\ rt[l] # rs[l]
    BY DEF StoredIn
  <2>2. PICK e \in p.pulls : id[e] = l /\ rt[l] = Local!PulledRow(e)
    BY <1>4, <2>1
  <2>3. e.cloudId # NoDoc
    BY <1>1, KnownAre, SentinelAssumption DEF PassTyped, PullOf
  <2> QED
    BY <2>2, <2>3 DEF Local!PulledRow, Local!Linked
<1>7. \A l \in StoredIn(rt) : RowDescends(H, rt, l)
  <2>1. ASSUME NEW l \in StoredIn(rs) PROVE RowDescends(H, rt, l)
    <3>1. rt[l] = rs[l] /\ RowDescends(H, rs, l)
      BY <1>3, <1>5
    <3>2. HeldBy(rs, rs[l].cloudId, l) => HeldBy(rt, rt[l].cloudId, l)
      BY <1>3, <1>5, <1>6 DEF PassDescends, HeldBy, Unheld
    <3> QED
      BY <3>1, <3>2 DEF RowDescends
  <2>2. ASSUME NEW l \in StoredIn(rt) \ StoredIn(rs) PROVE RowDescends(H, rt, l)
    <3>1. PICK e \in p.pulls : /\ id[e] = l /\ rt[l].payload = e.payload
                               /\ rt[l].cloudId = e.cloudId /\ Local!Linked(rt[l])
      BY <1>6
    <3>2. About(H, rt[l].payload, rt[l].cloudId) /\ Unheld(rs, e.cloudId)
      BY <1>3, <3>1 DEF PassDescends
    <3>3. ASSUME NEW k \in StoredIn(rt), rt[k].cloudId = e.cloudId PROVE k = l
      <4>1. k \notin StoredIn(rs)
        BY <1>5, <3>2, <3>3 DEF Unheld
      <4>2. PICK f \in p.pulls : id[f] = k /\ rt[k].cloudId = f.cloudId
        BY <1>6, <4>1
      <4>3. e = f
        BY <1>3, <3>3, <4>2 DEF PassDescends
      <4> QED
        BY <3>1, <4>2, <4>3
    <3> QED
      BY <3>1, <3>2, <3>3 DEF RowDescends, HeldBy
  <2> QED
    BY <2>1, <2>2
<1>8. \A k \in conflicts[d] \cup p.found : CardDescends(H, docs, rt, k)
  BY <1>3, <1>5 DEF CardDescends
<1>9. /\ n.pc = "pushing" /\ n.found = p.found /\ n.pulls = {} /\ n.marks = p.marks
      /\ DOMAIN p.marks \subseteq StoredIn(rs)
  BY <1>1, <1>2 DEF PassTyped, NoPass, PassTrue
<1>10. handler'[Pusher(d)].stage = "idle"
  BY <1>2, DeviceFacts DEF SameCalls
<1> HIDE DEF n
<1>11. PassDescends(H, docs, n, rt, handler'[Pusher(d)])
  BY <1>3, <1>5, <1>8, <1>9, <1>10 DEF PassDescends
<1> QED
  BY <1>2, <1>7, <1>8, <1>11, PassAfter DEF n

LEMMA MarkPulledDescends ==
  ASSUME SyncTypeOK, LocalTrue, NEW H, NEW d \in Devices, Before(d, H), MarkPulled(d) \/ PullLost(d)
  PROVE  After(d, H)
<1> DEFINE p == pass[d]  n == pass'[d]  rs == rows[d]  rt == rows'[d]
<1>1. /\ Shape /\ PassTyped(p, Known) /\ PassTrue(p, resolution[d], rs)
      /\ StoredIn(rs) \subseteq LocalIds
  BY DeviceFacts
<1>2. /\ resolution'[d] = resolution[d] /\ conflicts'[d] = conflicts[d] /\ p.pc = "pushing"
      /\ SameCalls(d)
      /\ n = [p EXCEPT !.pulls = {}] \/ n = [p EXCEPT !.marks = <<>>]
  BY <1>1, MarkPulledDoes, PullLostDoes DEF PassAlone
<1>3. /\ PassDescends(H, docs, p, rs, handler[Pusher(d)])
      /\ \A k \in StoredIn(rs) : RowDescends(H, rs, k)
      /\ \A k \in conflicts[d] \cup p.found : CardDescends(H, docs, rs, k)
  BY DEF Before, DeviceDescends, PassDescends
<1>4. /\ n.pc = "pushing" /\ n.found = p.found /\ n.pulls \in {{}, p.pulls}
      /\ n.marks \in {<<>>, p.marks} /\ DOMAIN p.marks \subseteq StoredIn(rs)
      /\ handler'[Pusher(d)].stage = "idle" /\ DOMAIN <<>> = {}
  <2>1. handler'[Pusher(d)].stage = "idle"
    BY <1>2, DeviceFacts DEF SameCalls
  <2> QED
    BY <1>1, <1>2, <2>1 DEF PassTyped, NoPass, PassTrue
<1> HIDE DEF n
<1>5. /\ StoredIn(rt) = StoredIn(rs)
      /\ \A k \in StoredIn(rs) :
           /\ rt[k].cloudId = rs[k].cloudId
           /\ \/ rt[k].payload = rs[k].payload
              \/ Local!Linked(rs[k]) /\ About(H, rt[k].payload, rs[k].cloudId)
  <2>1. CASE PullLost(d)
    BY <1>1, <2>1, PullLostDoes DEF PassAlone, SameStore
  <2>2. CASE MarkPulled(d)
    <3>1. rt = Marked(rs, p.marks)
      BY <1>1, <2>2, MarkPulledDoes
    <3>2. \A l \in DOMAIN p.marks : p.marks[l] \in MarkOf(Known)
      BY <1>1 DEF PassTyped, Partial
    <3>3. /\ StoredIn(rt) = StoredIn(rs)
          /\ \A l \in LocalIds : l \notin DOMAIN p.marks => rt[l] = rs[l]
          /\ \A l \in StoredIn(rs) : l \in DOMAIN p.marks =>
               /\ rt[l].cloudId = p.marks[l].cloudId /\ Local!Linked(rt[l])
               /\ rt[l].payload = IF p.marks[l].resolved = NoPayload
                                    THEN rs[l].payload ELSE p.marks[l].resolved
      BY <3>1, <3>2, MarkedRows
    <3> QED
      BY <1>1, <1>3, <3>3 DEF PassDescends, Local!Linked
  <2> QED
    BY <2>1, <2>2
<1>6. \A k \in StoredIn(rt) : RowDescends(H, rt, k)
  BY <1>3, <1>5, RowsKeepLinks
<1>7. \A k \in conflicts[d] \cup p.found : CardDescends(H, docs, rt, k)
  BY <1>3, <1>5 DEF CardDescends
<1>8. PassDescends(H, docs, n, rt, handler'[Pusher(d)])
  BY <1>3, <1>4, <1>5, <1>7 DEF PassDescends, Unheld
<1> QED
  BY <1>2, <1>6, <1>7, <1>8, PassAfter DEF n

\* A pass and a window are over: nothing is held but the cards.
LEMMA OverDescends ==
  ASSUME SyncTypeOK, LocalTrue, NEW H, NEW d \in Devices, Before(d, H), EndPass(d) \/ WindowCloses(d)
  PROVE  After(d, H)
<1>1. Shape
  BY DeviceFacts
<1>2. CASE EndPass(d)
  <2>1. /\ SameStore(d) /\ SameCalls(d) /\ resolution'[d] = resolution[d] /\ pass[d].pc = "pushing"
        /\ pass'[d] = NoPass /\ conflicts'[d] = pass[d].found
    BY <1>1, <1>2, EndPassDoes
  <2>2. handler'[Pusher(d)].stage # "replied"
    BY <2>1, DeviceFacts DEF SameCalls
  <2>3. /\ \A l \in StoredIn(rows[d]) : RowDescends(H, rows[d], l)
        /\ \A k \in pass[d].found : CardDescends(H, docs, rows[d], k)
    BY DEF Before, DeviceDescends, PassDescends
  <2>4. PassDescends(H, docs, pass'[d], rows'[d], handler'[Pusher(d)])
    BY <2>1, <2>2, IdleDescends
  <2> QED
    BY <2>1, <2>3, <2>4, PassAfter DEF SameStore
<1>3. CASE WindowCloses(d)
  <2>1. /\ SameStore(d) /\ pass'[d] = NoPass /\ conflicts'[d] = {} /\ resolution'[d] = NoCall
        /\ handler'[Pusher(d)].stage = "idle"
    BY <1>1, <1>3, WindowClosesDoes, IdleHandler
  <2> QED
    BY <2>1, IdleDescends DEF Before, After, DeviceDescends, DialogDescends, SameStore
<1> QED
  BY <1>2, <1>3

-----------------------------------------------------------------------------
(* The dialog of device d: no pass runs meanwhile. *)

LEMMA DialogAfter ==
  ASSUME SyncTypeOK, LocalTrue, NEW d \in Devices, NEW H, pass[d].pc = "idle",
         pass'[d] = pass[d], handler'[Pusher(d)] = handler[Pusher(d)],
         \A l \in StoredIn(rows'[d]) : RowDescends(H, rows'[d], l),
         \A k \in conflicts'[d] : CardDescends(H, docs, rows'[d], k),
         DialogDescends(H, docs, resolution'[d], rows'[d], handler'[Dialog(d)])
  PROVE  After(d, H)
<1>1. pass'[d] = NoPass /\ handler'[Pusher(d)].stage # "replied"
  BY DeviceFacts
<1>2. PassDescends(H, docs, pass'[d], rows'[d], handler'[Pusher(d)])
  BY <1>1, IdleDescends
<1> QED
  BY <1>2 DEF After, DeviceDescends

LEMMA KeepCloudDescends ==
  ASSUME SyncTypeOK, LocalTrue, ~EditDuringPass, NEW H, NEW d \in Devices, Before(d, H), KeepCloud(d)
  PROVE  After(d, H)
<1> DEFINE rs == rows[d]  rt == rows'[d]
<1>1. Shape /\ conflicts[d] \subseteq CardOf(Known) /\ StoredIn(rs) \subseteq LocalIds
  BY DeviceFacts
<1>2. /\ MayAct(d) /\ SameCalls(d) /\ pass'[d] = pass[d] /\ resolution'[d] = NoCall
  BY <1>1, KeepCloudDoes
<1>3. PICK k \in conflicts[d] :
        /\ rt = Marked(rs, [l \in {k.row} |->
             MarkEntry(k.doc, k.cloud.version, k.cloud.deleted,
                       IF k.cloud.deleted THEN NoPayload ELSE k.cloud.payload)])
        /\ conflicts'[d] = Without(conflicts[d], k.row)
  BY <1>1, KeepCloudDoes
<1>4. /\ \A l \in StoredIn(rs) : RowDescends(H, rs, l)
      /\ \A c \in conflicts[d] : CardDescends(H, docs, rs, c)
  BY DEF Before, DeviceDescends
<1>5. /\ k.row \in StoredIn(rs) /\ rs[k.row].cloudId = k.doc /\ Local!Linked(rs[k.row])
      /\ About(H, k.cloud.payload, k.doc)
  <2>1. k.doc # NoDoc
    BY <1>1, KnownAre, SentinelAssumption DEF CardOf
  <2> QED
    BY <1>4, <2>1 DEF CardDescends, Local!Linked
<1> DEFINE m == MarkEntry(k.doc, k.cloud.version, k.cloud.deleted,
                          IF k.cloud.deleted THEN NoPayload ELSE k.cloud.payload)
           marks == [l \in {k.row} |-> m]
<1>6. /\ m \in MarkOf(Known) /\ m.cloudId = k.doc
      /\ m.resolved = IF k.cloud.deleted THEN NoPayload ELSE k.cloud.payload
  <2>1. k.cloud \in Doc /\ k.doc \in Known
    BY <1>1 DEF CardOf
  <2>2. (IF k.cloud.deleted THEN NoPayload ELSE k.cloud.payload) \in Payload \cup {NoPayload}
    BY <2>1 DEF Doc
  <2>3. m \in MarkOf(Known)
    BY <2>1, <2>2, MarkEntryOK DEF Doc
  <2> QED
    BY <2>3 DEF MarkEntry
<1> HIDE DEF m
<1>7. /\ StoredIn(rt) = StoredIn(rs)
      /\ \A l \in LocalIds : l # k.row => rt[l] = rs[l]
      /\ rt[k.row].cloudId = k.doc
      /\ rt[k.row].payload = IF m.resolved = NoPayload THEN rs[k.row].payload ELSE m.resolved
  <2>1. rt = Marked(rs, marks) /\ DOMAIN marks = {k.row} /\ marks[k.row] = m
    BY <1>3 DEF m
  <2> HIDE DEF marks
  <2>2. /\ StoredIn(rt) = StoredIn(rs)
        /\ \A l \in LocalIds : l \notin DOMAIN marks => rt[l] = rs[l]
        /\ \A l \in StoredIn(rs) : l \in DOMAIN marks =>
             /\ rt[l].cloudId = marks[l].cloudId /\ Local!Linked(rt[l])
             /\ rt[l].payload = IF marks[l].resolved = NoPayload
                                  THEN rs[l].payload ELSE marks[l].resolved
    BY <1>6, <2>1, MarkedRows
  <2> QED
    BY <1>5, <1>6, <2>1, <2>2
<1>8. \A l \in StoredIn(rt) : RowDescends(H, rt, l)
  <2>1. \A l \in StoredIn(rs) :
          /\ rt[l].cloudId = rs[l].cloudId
          /\ \/ rt[l].payload = rs[l].payload
             \/ Local!Linked(rs[l]) /\ About(H, rt[l].payload, rs[l].cloudId)
    BY <1>1, <1>5, <1>6, <1>7
  <2> QED
    BY <1>4, <1>7, <2>1, RowsKeepLinks
<1>9. \A c \in conflicts'[d] : CardDescends(H, docs, rt, c)
  BY <1>1, <1>3, <1>4, <1>5, <1>7 DEF CardDescends, Without
<1>10. pass[d].pc = "idle" /\ DialogDescends(H, docs, resolution'[d], rt, handler'[Dialog(d)])
  BY <1>2 DEF MayAct, Quiet, At, DialogDescends
<1> QED
  BY <1>2, <1>8, <1>9, <1>10, DialogAfter DEF SameCalls

\* A document is created anew only for a card that shows a tombstone.
LEMMA OpeningIsBuried ==
  ASSUME Shape, NEW d \in Devices, KeepLocal(d), resolution'[d].stage = "recreating"
  PROVE  resolution'[d].card.cloud.deleted
<1>1. PICK k \in conflicts[d] :
        IF k.cloud.deleted
          THEN resolution' = [resolution EXCEPT ![d] = Opening(k)]
          ELSE resolution' = [resolution EXCEPT ![d] = Aiming(k)]
  BY DEF KeepLocal, Opening, Aiming
<1>2. IF k.cloud.deleted THEN resolution'[d] = Opening(k) ELSE resolution'[d] = Aiming(k)
  BY <1>1 DEF Shape
<1> QED
  BY <1>2 DEF Opening, Aiming

LEMMA KeepLocalDescends ==
  ASSUME SyncTypeOK, LocalTrue, ~EditDuringPass, NEW H, NEW d \in Devices, Before(d, H), KeepLocal(d)
  PROVE  After(d, H)
<1> DEFINE rs == rows[d]
<1>1. Shape /\ conflicts[d] \subseteq CardOf(Known)
  BY DeviceFacts
<1>2. /\ MayAct(d) /\ SameStore(d) /\ pass'[d] = pass[d] /\ conflicts'[d] = conflicts[d]
      /\ handler'[Pusher(d)] = handler[Pusher(d)]
  BY <1>1, KeepLocalDoes
<1>3. PICK k \in conflicts[d] :
        \/ /\ resolution'[d] = Opening(k)
           /\ handler'[Dialog(d)] = Cloud!Received([op |-> "create", payload |-> k.local])
        \/ resolution'[d] = Aiming(k)
  BY <1>1, KeepLocalDoes
<1>4. /\ \A l \in StoredIn(rs) : RowDescends(H, rs, l)
      /\ \A c \in conflicts[d] : CardDescends(H, docs, rs, c)
  BY DEF Before, DeviceDescends
<1>5. Target(H, rs, k, k.doc)
  <2>1. k.doc # NoDoc
    BY <1>1, KnownAre, SentinelAssumption DEF CardOf
  <2> QED
    BY <1>4, <2>1 DEF Target, CardDescends, RowDescends, Local!Linked
<1>6. DialogDescends(H, docs, resolution'[d], rs, handler'[Dialog(d)])
  <2>1. CASE resolution'[d] = Aiming(k)
    BY <1>4, <1>5, <2>1 DEF DialogDescends, Aiming
  <2>2. CASE /\ resolution'[d] = Opening(k)
             /\ handler'[Dialog(d)] = Cloud!Received([op |-> "create", payload |-> k.local])
    <3>1. resolution'[d].stage = "recreating" /\ resolution'[d].card = k
      BY <2>2 DEF Opening
    <3>2. k.cloud.deleted
      BY <1>1, <3>1, OpeningIsBuried
    <3>3. handler'[Dialog(d)].stage # "replied"
      BY <2>2 DEF Cloud!Received
    <3> QED
      BY <1>4, <3>1, <3>2, <3>3 DEF DialogDescends
  <2> QED
    BY <1>3, <2>1, <2>2
<1>7. pass[d].pc = "idle"
  BY <1>2 DEF MayAct, Quiet, At
<1> QED
  BY <1>2, <1>4, <1>6, <1>7, DialogAfter DEF SameStore

LEMMA ResolveDescends ==
  ASSUME SyncTypeOK, LocalTrue, NEW H, NEW d \in Devices, Before(d, H),
         Recreated(d) \/ ForceLocal(d) \/ Forced(d) \/ KeepLocalRefused(d) \/ KeepLocalLost(d)
  PROVE  After(d, H)
<1> DEFINE rs == rows[d]  r == resolution[d]  t == resolution'[d]  h == handler[Dialog(d)]
<1>1. /\ Shape /\ r # NoCall /\ SameStore(d) /\ pass'[d] = pass[d] /\ conflicts'[d] = conflicts[d]
      /\ handler'[Pusher(d)] = handler[Pusher(d)]
      /\ \/ t = NoCall
         \/ /\ r.stage = "recreating" /\ h.stage = "replied" /\ t = AimAt(r, h.doc)
         \/ r.stage = "target" /\ t = [r EXCEPT !.stage = "forcing"]
         \/ r.stage = "forcing" /\ t = Settle(r, h.result.version)
  <2>1. Shape
    BY DeviceFacts
  <2>2. CASE Recreated(d)
    BY <2>1, <2>2, RecreatedDoes DEF DialogAlone
  <2>3. CASE ForceLocal(d)
    BY <2>1, <2>3, ForceLocalDoes DEF DialogAlone
  <2>4. CASE Forced(d)
    BY <2>1, <2>4, ForcedDoes DEF DialogAlone
  <2>5. CASE KeepLocalRefused(d) \/ KeepLocalLost(d)
    BY <2>1, <2>5, KeepLocalEnds
  <2> QED
    BY <2>2, <2>3, <2>4, <2>5
<1>2. pass[d].pc = "idle" /\ r \in Resolution(Known)
  BY <1>1, DeviceFacts DEF SyncTypeOK, WindowOK
<1>3. /\ \A l \in StoredIn(rs) : RowDescends(H, rs, l)
      /\ \A c \in conflicts[d] : CardDescends(H, docs, rs, c)
      /\ DialogDescends(H, docs, r, rs, h)
  BY DEF Before, DeviceDescends
<1>4. CASE t = NoCall
  <2>1. DialogDescends(H, docs, t, rs, handler'[Dialog(d)])
    BY <1>4 DEF DialogDescends
  <2> QED
    BY <1>1, <1>2, <1>3, <2>1, DialogAfter DEF SameStore
<1>5. CASE t # NoCall
  <2>1. /\ t.card = r.card /\ t.stage # "recreating"
        /\ IF r.stage = "recreating" THEN h.stage = "replied" /\ t.doc = h.doc ELSE t.doc = r.doc
    BY <1>1, <1>2, <1>5 DEF Resolution, AimAt, Settle
  <2> HIDE DEF t
  <2>2. DialogDescends(H, docs, t, rs, handler'[Dialog(d)])
    BY <1>1, <1>3, <2>1 DEF DialogDescends
  <2> QED
    BY <1>1, <1>2, <1>3, <2>2, DialogAfter DEF SameStore, t
<1> QED
  BY <1>4, <1>5

LEMMA FinishDescends ==
  ASSUME SyncTypeOK, LocalTrue, NEW H, NEW d \in Devices, Before(d, H), FinishKeepLocal(d)
  PROVE  After(d, H)
<1> DEFINE rs == rows[d]  rt == rows'[d]  r == resolution[d]  l == r.card.row
           m == MarkEntry(r.doc, r.version, FALSE, NoPayload)
           marks == [k \in {l} |-> m]
<1>1. /\ Shape /\ StoredIn(rs) \subseteq LocalIds /\ conflicts[d] \subseteq CardOf(Known)
  BY DeviceFacts
<1>2. /\ SameCalls(d) /\ pass'[d] = pass[d] /\ r # NoCall /\ r.stage = "marking"
      /\ resolution'[d] = NoCall /\ conflicts'[d] = Without(conflicts[d], l)
      /\ rt = Marked(rs, marks)
  BY <1>1, FinishKeepLocalDoes
<1>3. pass[d].pc = "idle" /\ r \in Resolution(Known) /\ r.doc \in Known
  BY <1>2, DeviceFacts DEF SyncTypeOK, WindowOK, CallsOK
<1>4. /\ \A k \in StoredIn(rs) : RowDescends(H, rs, k)
      /\ \A c \in conflicts[d] : CardDescends(H, docs, rs, c)
      /\ CardDescends(H, docs, rs, r.card) /\ Target(H, rs, r.card, r.doc)
  BY <1>2 DEF Before, DeviceDescends, DialogDescends
<1>5. m \in MarkOf(Known) /\ m.cloudId = r.doc /\ m.resolved = NoPayload
  <2>1. m \in MarkOf(Known)
    BY <1>3, MarkEntryOK DEF Resolution
  <2> QED
    BY <2>1 DEF MarkEntry
<1> HIDE DEF m
<1>6. DOMAIN marks = {l} /\ marks[l] = m
  OBVIOUS
<1> HIDE DEF marks
<1>7. /\ StoredIn(rt) = StoredIn(rs)
      /\ \A k \in LocalIds : k \notin DOMAIN marks => rt[k] = rs[k]
      /\ \A k \in StoredIn(rs) : k \in DOMAIN marks =>
           /\ rt[k].cloudId = marks[k].cloudId /\ Local!Linked(rt[k])
           /\ rt[k].payload = IF marks[k].resolved = NoPayload
                                THEN rs[k].payload ELSE marks[k].resolved
  BY <1>2, <1>5, <1>6, MarkedRows
<1>8. /\ l \in StoredIn(rs) /\ \A k \in LocalIds \ {l} : rt[k] = rs[k]
      /\ rt[l].cloudId = r.doc /\ rt[l].payload = rs[l].payload /\ Local!Linked(rt[l])
      /\ rt[l] # NoRow
  BY <1>4, <1>5, <1>6, <1>7 DEF CardDescends, StoredIn
<1>9. About(H, rt[l].payload, rt[l].cloudId) /\ HeldBy(rs, rt[l].cloudId, l)
  <2>1. r.card.doc # NoDoc
    BY <1>3, KnownAre, SentinelAssumption DEF Resolution, CardOf
  <2>2. About(H, rs[l].payload, r.card.doc)
    BY <1>4, <1>8, <2>1 DEF CardDescends, RowDescends, Local!Linked
  <2> QED
    BY <1>4, <1>8, <2>2 DEF Target, About
<1>10. \A k \in StoredIn(rt) : RowDescends(H, rt, k)
  BY <1>4, <1>8, <1>9, RowLinked
<1>11. \A c \in conflicts'[d] : CardDescends(H, docs, rt, c)
  BY <1>1, <1>2, <1>4, <1>7, <1>8 DEF CardDescends, Without
<1>12. DialogDescends(H, docs, resolution'[d], rt, handler'[Dialog(d)])
  BY <1>2 DEF DialogDescends
<1> QED
  BY <1>2, <1>3, <1>10, <1>11, <1>12, DialogAfter DEF SameCalls

-----------------------------------------------------------------------------
(* A device that stands still while the history goes on. *)

LEMMA DeviceLater ==
  ASSUME SyncTypeOK, NEW e \in Devices, NEW H, NEW G, Later(H, G, Known), Before(e, H),
         NEW D, \A i \in Known : docs[i].deleted => D[i].deleted
  PROVE  DeviceDescends(G, D, pass[e], conflicts[e], resolution[e], rows[e],
                        handler[Pusher(e)], handler[Dialog(e)])
<1> DEFINE p == pass[e]  rs == rows[e]  r == resolution[e]
           push == handler[Pusher(e)]  dialog == handler[Dialog(e)]
<1>1. /\ \A q, i : i \in Known /\ About(H, q, i) => About(G, q, i)
      /\ \A q, o : Version(H, q, o) => Version(G, q, o)
      /\ 1..H.n \subseteq 1..G.n
  BY VersionLater
<1>2. /\ StoreOK(rs, issued[e], Known) /\ PassTyped(p, Known) /\ conflicts[e] \subseteq CardOf(Known)
      /\ r \in Resolution(Known) \cup {NoCall} /\ CallsOK(p, r, push, dialog, Known)
  BY DEF SyncTypeOK, WindowOK
<1>3. \A l \in StoredIn(rs) : RowDescends(G, rs, l)
  <2> SUFFICES ASSUME NEW l \in StoredIn(rs) PROVE RowDescends(G, rs, l)
    OBVIOUS
  <2>1. RowDescends(H, rs, l) /\ rs[l].cloudId \in Known \cup {NoDoc}
    BY <1>2 DEF Before, DeviceDescends, StoreOK, StoredIn
  <2> QED
    BY <1>1, <2>1 DEF RowDescends, Local!Linked
<1>4. ASSUME NEW k \in CardOf(Known), CardDescends(H, docs, rs, k)
      PROVE  CardDescends(G, D, rs, k)
  <2>1. k.doc \in Known
    BY DEF CardOf
  <2> QED
    BY <1>1, <1>4, <2>1 DEF CardDescends
<1>5. \A k \in conflicts[e] : CardDescends(G, D, rs, k)
  BY <1>2, <1>4 DEF Before, DeviceDescends
<1>6. PassDescends(G, D, p, rs, push)
  <2>1. PassDescends(H, docs, p, rs, push)
    BY DEF Before, DeviceDescends
  <2>2. p.pc = "reading" /\ p.cloudList # NotRead =>
          \A i \in DOMAIN p.cloudList : About(G, p.cloudList[i].payload, i)
    BY <1>1, <1>2, <2>1 DEF PassDescends, PassTyped, Partial
  <2>3. \A q \in p.pulls : About(G, q.payload, q.cloudId) /\ Unheld(rs, q.cloudId)
    BY <1>1, <1>2, <2>1 DEF PassDescends, PassTyped, PullOf
  <2>4. \A l \in DOMAIN p.marks :
          /\ p.marks[l].cloudId = rs[l].cloudId
          /\ p.marks[l].resolved # NoPayload => About(G, p.marks[l].resolved, p.marks[l].cloudId)
    <3> SUFFICES ASSUME NEW l \in DOMAIN p.marks
                 PROVE  /\ p.marks[l].cloudId = rs[l].cloudId
                        /\ p.marks[l].resolved # NoPayload =>
                             About(G, p.marks[l].resolved, p.marks[l].cloudId)
      OBVIOUS
    <3>1. p.marks[l] \in MarkOf(Known)
      BY <1>2 DEF PassTyped, Partial
    <3> QED
      BY <1>1, <2>1, <3>1 DEF PassDescends, MarkOf
  <2>5. \A k \in p.found : CardDescends(G, D, rs, k)
    BY <1>2, <1>4, <2>1 DEF PassDescends, PassTyped
  <2>6. \A i \in Known : Lands(H, p, rs, i) => Lands(G, p, rs, i)
    BY <1>1 DEF Lands
  <2>7. push.stage = "replied" => push.status # 400 /\ push.doc \in Known
    BY <1>2, <2>1 DEF PassDescends, CallsOK, Serves
  <2>8. p.pc = "marking" => p.mark.cloudId \in Known
    BY <1>2 DEF CallsOK, MarkOf
  <2>9. push.stage = "replied" /\ push.status = 409 =>
          About(G, push.result.payload, push.doc) /\ (push.result.deleted => D[push.doc].deleted)
    BY <1>1, <2>1, <2>7 DEF PassDescends
  <2>10. /\ push.stage = "replied" => push.status # 400 /\ Lands(G, p, rs, push.doc)
         /\ p.pc = "marking" => Lands(G, p, rs, p.mark.cloudId)
    BY <2>1, <2>6, <2>7, <2>8 DEF PassDescends
  <2>11. \A q, o \in p.pulls : q.cloudId = o.cloudId => q = o
    BY <2>1 DEF PassDescends
  <2> QED
    BY <2>2, <2>3, <2>4, <2>5, <2>9, <2>10, <2>11 DEF PassDescends
<1>7. DialogDescends(G, D, r, rs, dialog)
  <2> SUFFICES ASSUME r # NoCall PROVE DialogDescends(G, D, r, rs, dialog)
    BY DEF DialogDescends
  <2>1. DialogDescends(H, docs, r, rs, dialog) /\ r.card \in CardOf(Known)
    BY <1>2 DEF Before, DeviceDescends, Resolution
  <2>2. CardDescends(G, D, rs, r.card)
    BY <1>4, <2>1 DEF DialogDescends
  <2>3. \A i \in Known : Target(H, rs, r.card, i) => Target(G, rs, r.card, i)
    BY <2>1 DEF Target, Later, CardOf
  <2>4. CASE r.stage # "recreating"
    BY <1>2, <2>1, <2>2, <2>3, <2>4 DEF DialogDescends, CallsOK
  <2>5. CASE r.stage = "recreating"
    <3>1. dialog.stage = "replied" => dialog.status # 400 /\ dialog.doc \in Known
      BY <1>2, <2>1, <2>5 DEF DialogDescends, CallsOK, Serves
    <3> QED
      BY <2>1, <2>2, <2>3, <2>5, <3>1 DEF DialogDescends
  <2> QED
    BY <2>4, <2>5
<1> QED
  BY <1>3, <1>5, <1>6, <1>7 DEF DeviceDescends

-----------------------------------------------------------------------------
(* The cloud's steps. *)

\* The handler of client c served req, whose content is of record r: a document
\* made for it is of that record.
Recorded(H, G, c, req, r) ==
  /\ Later(H, G, Known) /\ G.own = H.own /\ G.n = H.n /\ DOMAIN G = {"own", "rec", "n"}
  /\ G.rec \in [DocIds -> Nat]
  /\ \A i \in Known : docs[i].deleted => docs'[i].deleted
  /\ \A i \in Known' : G.rec[i] \in 1..H.n /\ About(G, docs'[i].payload, i)
  /\ \A i \in Known' \ Known :
       /\ G.rec[i] = r /\ i = handler'[c].doc
       /\ req.op = "create" /\ handler'[c].stage = "replied"
  /\ handler'[c].stage = "replied" =>
       /\ handler'[c].status # 400
       /\ IF req.op = "create" THEN /\ handler'[c].doc \in DocIds \ Known
                                    /\ G.rec[handler'[c].doc] = r
                               ELSE handler'[c].doc = req.doc
       /\ handler'[c].status = 409 =>
            /\ About(G, handler'[c].result.payload, handler'[c].doc)
            /\ handler'[c].result.deleted => docs'[handler'[c].doc].deleted

LEMMA HandlerRecords ==
  ASSUME SyncTypeOK, ~UniqueNames, ~CreateDropsContent, NEW H, History(H), NEW c \in Clients,
         NEW req \in Cloud!Request, req.op # "create" => req.doc \in Known,
         Moves(c, handler[c], req), NEW r \in 1..H.n,
         req.op # "delete" => Version(H, req.payload, r),
         req.op = "update" => r = H.rec[req.doc]
  PROVE  \E G : Recorded(H, G, c, req, r)
<1> DEFINE h == handler[c]  g == handler'[c]
<1>1. /\ Known \subseteq DocIds /\ \A i \in Known : docs[i] \in Doc
      /\ docs \in [DocIds -> Doc \cup {NoDoc}] /\ NoDoc \notin Doc
  BY KnownAre, SentinelAssumption DEF SyncTypeOK
<1>2. /\ req.op \in {"create", "update", "delete"}
      /\ req.op # "delete" => req.payload \in Payload
  BY RequestParts
<1>3. /\ DOMAIN H = {"own", "rec", "n"} /\ H.rec \in [DocIds -> Nat] /\ H.n \in Nat
      /\ \A i \in Known : H.rec[i] \in 1..H.n /\ About(H, docs[i].payload, i)
  BY DEF History, SyncTypeOK
<1>4. Later(H, H, Known)
  BY <1>3 DEF Later
<1>5. CASE docs' = docs
  <2>1. Known' = Known
    BY <1>5 DEF Known, Cloud!Exists
  <2>2. g.stage = "replied" =>
          /\ g.status # 400 /\ req.op # "create" /\ g.doc = req.doc
          /\ g.status = 409 => g.result = docs[g.doc]
    <3>1. CASE /\ h.stage = "received" /\ req.op = "update"
               /\ handler'[c] = Cloud!Replied(409, req.doc, docs[req.doc])
      BY <3>1 DEF Cloud!Replied
    <3>2. CASE \E v : handler'[c] = Cloud!Staged(req, v)
      BY <3>2 DEF Cloud!Staged
    <3>3. CASE h.stage = "staged"
      <4>1. \E i, new : g = Cloud!Replied(200, i, new) /\ (req.op # "create" => i = req.doc)
                        /\ docs' = [docs EXCEPT ![i] = new] /\ (req.op = "create" => i \in DocIds \ Known /\ new \in Doc)
        BY <1>2, <3>3, CreatedDocs DEF Moves
      <4>2. req.op # "create"
        BY <1>1, <1>5, <4>1 DEF Known, Cloud!Exists
      <4> QED
        BY <4>1, <4>2 DEF Cloud!Replied
    <3> QED
      BY <1>2, <3>1, <3>2, <3>3 DEF Moves
  <2>3. Recorded(H, H, c, req, r)
    BY <1>2, <1>3, <1>4, <1>5, <2>1, <2>2 DEF Recorded
  <2> QED
    BY <2>3
<1>6. CASE req.op = "create" /\ docs' # docs
  <2>1. PICK i \in DocIds \ Known :
          /\ docs' = [docs EXCEPT ![i] = Cloud!CreatedDoc(req.payload)]
          /\ g = Cloud!Replied(200, i, Cloud!CreatedDoc(req.payload))
    BY <1>6 DEF Moves
  <2>2. /\ Cloud!CreatedDoc(req.payload) \in Doc
        /\ Cloud!CreatedDoc(req.payload).payload = req.payload
    BY <1>2, <1>6, CreatedDocs DEF Cloud!CreatedDoc
  <2>3. Known' = Known \cup {i} /\ docs'[i].payload = req.payload
        /\ \A j \in Known : docs'[j] = docs[j]
    BY <1>1, <2>1, <2>2 DEF Known, Cloud!Exists
  <2> DEFINE G == [H EXCEPT !.rec = [H.rec EXCEPT ![i] = r]]
  <2>4. /\ G.own = H.own /\ G.n = H.n /\ DOMAIN G = {"own", "rec", "n"} /\ G.rec \in [DocIds -> Nat]
        /\ G.rec[i] = r /\ \A j \in Known : G.rec[j] = H.rec[j]
    BY <1>3, <2>1
  <2> HIDE DEF G
  <2>5. Later(H, G, Known)
    BY <1>3, <2>4 DEF Later
  <2>6. \A j \in Known' : G.rec[j] \in 1..H.n /\ About(G, docs'[j].payload, j)
    <3>1. \A j \in Known : About(G, docs'[j].payload, j)
      BY <1>3, <2>3, <2>4, <2>5, VersionLater
    <3>2. About(G, docs'[i].payload, i)
      BY <1>6, <2>3, <2>4, <2>5, VersionLater DEF About
    <3> QED
      BY <1>3, <2>3, <2>4, <3>1, <3>2
  <2>7. g.stage = "replied" /\ g.status = 200 /\ g.doc = i
    BY <2>1 DEF Cloud!Replied
  <2>8. Recorded(H, G, c, req, r)
    BY <1>6, <2>1, <2>3, <2>4, <2>5, <2>6, <2>7 DEF Recorded
  <2> QED
    BY <2>8
<1>7. CASE req.op # "create" /\ docs' # docs
  <2>1. PICK new : /\ docs' = [docs EXCEPT ![req.doc] = new]
                   /\ g = Cloud!Replied(200, req.doc, new)
                   /\ \/ /\ req.op = "update"
                         /\ new = Cloud!UpdatedDoc(docs[req.doc], h.read, req.payload)
                      \/ new = Cloud!BuriedDoc(docs[req.doc], h.read)
    BY <1>2, <1>7 DEF Moves
  <2>8. h.read \in Nat
    <3>1. h \in Cloud!Handler
      BY ClientsDiffer DEF SyncTypeOK, WindowOK
    <3>2. h.stage = "staged"
      BY <1>2, <1>7 DEF Moves
    <3> QED
      BY <3>1, <3>2, HandlerParts
  <2>2. /\ docs[req.doc].deleted => new.deleted
        /\ (req.op = "update" /\ new.payload = req.payload) \/ new.payload = docs[req.doc].payload
        /\ new # NoDoc
    <3>1. docs[req.doc] \in Doc
      BY <1>1, <1>7
    <3>2. DOMAIN docs[req.doc] = {"version", "deleted", "payload"}
      BY <3>1 DEF Doc
    <3>3. CASE /\ req.op = "update"
               /\ new = Cloud!UpdatedDoc(docs[req.doc], h.read, req.payload)
      <4>1. /\ new.payload = req.payload /\ new.deleted = docs[req.doc].deleted
            /\ DOMAIN new = {"version", "deleted", "payload"}
        BY <3>2, <3>3 DEF Cloud!UpdatedDoc
      <4>2. new \in Doc
        BY <1>1, <1>2, <1>7, <3>1, <3>3, UpdatedDocs, <2>8
      <4> QED
        BY <1>1, <3>3, <4>1, <4>2
    <3>4. CASE new = Cloud!BuriedDoc(docs[req.doc], h.read)
      <4>1. new.payload = docs[req.doc].payload /\ new.deleted
        BY <3>2, <3>4 DEF Cloud!BuriedDoc
      <4>2. new \in Doc
        BY <1>1, <1>7, <3>1, <3>4, BuriedDocs, <2>8
      <4> QED
        BY <1>1, <4>1, <4>2
    <3> QED
      BY <2>1, <3>3, <3>4
  <2>3. Known' = Known
    BY <1>1, <1>7, <2>1, <2>2 DEF Known, Cloud!Exists
  <2>4. \A i \in Known : docs'[i] = IF i = req.doc THEN new ELSE docs[i]
    BY <1>1, <2>1
  <2>5. About(H, new.payload, req.doc)
    BY <1>3, <1>7, <2>2 DEF About
  <2>6. g.stage = "replied" /\ g.status = 200 /\ g.doc = req.doc
    BY <2>1 DEF Cloud!Replied
  <2>7. Recorded(H, H, c, req, r)
    BY <1>3, <1>4, <1>7, <2>2, <2>3, <2>4, <2>5, <2>6 DEF Recorded
  <2> QED
    BY <2>7
<1> QED
  BY <1>5, <1>6, <1>7

\* The handler of the pass goes on: what it answers suits the pass.
LEMMA PushServed ==
  ASSUME SyncTypeOK, LocalTrue, ~UniqueNames, ~CreateDropsContent, NEW H, History(H),
         NEW d \in Devices, Before(d, H), SameStore(d), SameWindow(d),
         handler[Pusher(d)].stage # "idle", handler'[Dialog(d)] = handler[Dialog(d)],
         Moves(Pusher(d), handler[Pusher(d)], pass[d].current.request)
  PROVE  \E G, r : /\ Recorded(H, G, Pusher(d), pass[d].current.request, r) /\ Before(d, G)'
                   /\ pass[d].pc = "calling" /\ handler[Pusher(d)].stage # "replied"
                   /\ pass[d].current.request.op = "create" =>
                        /\ pass[d].current.row \in Unlinked(rows[d])
                        /\ r \in 1..H.n /\ Version(H, rows[d][pass[d].current.row].payload, r)
<1> DEFINE p == pass[d]  rs == rows[d]  q == p.current  req == q.request  l == q.row
           push == handler'[Pusher(d)]  dialog == handler[Dialog(d)]
<1>1. /\ PassTyped(p, Known) /\ StoreOK(rs, issued[d], Known) /\ Pusher(d) \in Clients
      /\ PassTrue(p, resolution[d], rs)
      /\ p.pc = "calling" /\ q \in PushCall(Known) /\ Known \subseteq DocIds
  BY ClientsDiffer, DeviceFacts, KnownAre DEF SyncTypeOK, WindowOK, CallsOK
<1>2. PushTrue(rs, q) /\ l \in StoredIn(rs)
  BY <1>1 DEF PassTrue, UnderWay, PushTrue, ToPush
<1>3. /\ req \in Cloud!Request /\ (req.op # "create" => req.doc \in Known)
      /\ req.op \in {"create", "update", "delete"}
      /\ req.op # "delete" => req.payload = rs[l].payload
  BY <1>1, <1>2, PushParts, RequestParts DEF PushTrue, PushCall
<1>4. RowDescends(H, rs, l)
  BY <1>2 DEF Before, DeviceDescends
<1>5. PICK r \in 1..H.n :
        /\ req.op # "delete" => Version(H, rs[l].payload, r)
        /\ req.op = "update" => r = H.rec[req.doc]
  <2>1. CASE req.op = "create"
    BY <1>2, <1>4, <2>1 DEF PushTrue, RowDescends
  <2>2. CASE req.op # "create"
    <3>1. H.rec[req.doc] \in 1..H.n
      BY <1>3, <2>2 DEF History
    <3>2. About(H, rs[l].payload, req.doc)
      BY <1>2, <1>4, <2>2 DEF PushTrue, RowDescends
    <3> QED
      BY <3>1, <3>2 DEF About
  <2> QED
    BY <2>1, <2>2
<1>6. req.op # "delete" => Version(H, req.payload, r)
  BY <1>3, <1>5
<1> HIDE DEF req
<1>7. PICK G : Recorded(H, G, Pusher(d), req, r)
  BY <1>1, <1>3, <1>5, <1>6, HandlerRecords DEF req
<1>8. Later(H, G, Known) /\ \A i \in Known : docs[i].deleted => docs'[i].deleted
  BY <1>7 DEF Recorded
<1>9. DeviceDescends(G, docs', p, conflicts[d], resolution[d], rs, handler[Pusher(d)], dialog)
  BY <1>8, DeviceLater
<1>10. ASSUME push.stage = "replied"
       PROVE  /\ push.status # 400 /\ Lands(G, p, rs, push.doc)
              /\ push.status = 409 => /\ About(G, push.result.payload, push.doc)
                                      /\ push.result.deleted => docs'[push.doc].deleted
  <2>1. /\ push.status # 400
        /\ IF req.op = "create" THEN push.doc \in DocIds \ Known /\ G.rec[push.doc] = r
                                ELSE push.doc = req.doc
        /\ push.status = 409 => /\ About(G, push.result.payload, push.doc)
                                /\ push.result.deleted => docs'[push.doc].deleted
    BY <1>7, <1>10 DEF Recorded
  <2>2. CASE req.op = "create"
    <3>1. Version(G, rs[l].payload, r)
      BY <1>5, <1>8, <2>2, VersionLater
    <3>2. Unheld(rs, push.doc)
      BY <1>1, <2>1, <2>2, SentinelAssumption DEF Unheld, StoreOK, StoredIn
    <3>3. \A e \in p.pulls : e.cloudId # push.doc
      BY <1>1, <2>1, <2>2 DEF PassTyped, PullOf
    <3> QED
      BY <2>1, <2>2, <3>1, <3>2, <3>3 DEF Lands, About, req
  <2>3. CASE req.op # "create"
    BY <2>1, <2>3 DEF Lands, req
  <2> QED
    BY <2>2, <2>3
<1>11. PassDescends(G, docs', p, rs, push)
  <2>1. PassDescends(G, docs', p, rs, handler[Pusher(d)])
    BY <1>9 DEF DeviceDescends
  <2> QED
    BY <1>1, <1>10, <2>1 DEF PassDescends
<1>12. Before(d, G)'
  BY <1>9, <1>11 DEF Before, DeviceDescends, SameStore, SameWindow
<1>13. req.op = "create" => l \in Unlinked(rs)
  BY <1>2 DEF Unlinked, PushTrue, req
<1>14. handler[Pusher(d)].stage # "replied"
  BY DEF Moves
<1> QED
  BY <1>1, <1>3, <1>5, <1>7, <1>12, <1>13, <1>14 DEF req

\* So does the handler of the dialog.
LEMMA DialogServed ==
  ASSUME SyncTypeOK, LocalTrue, ~UniqueNames, ~CreateDropsContent, NEW H, History(H),
         NEW d \in Devices, Before(d, H), SameStore(d), SameWindow(d),
         handler[Dialog(d)].stage # "idle", handler'[Pusher(d)] = handler[Pusher(d)],
         Moves(Dialog(d), handler[Dialog(d)], DialogRequest(resolution[d]))
  PROVE  \E G, r : /\ Recorded(H, G, Dialog(d), DialogRequest(resolution[d]), r) /\ Before(d, G)'
                   /\ DialogRequest(resolution[d]).op = "create" =>
                        \E k \in Known : r = H.rec[k] /\ docs[k].deleted
<1> DEFINE s == resolution[d]  rs == rows[d]  req == DialogRequest(s)  k == s.card
           push == handler[Pusher(d)]  dialog == handler'[Dialog(d)]
<1>1. /\ s # NoCall /\ s \in Resolution(Known) /\ Dialog(d) \in Clients
      /\ StoreOK(rs, issued[d], Known) /\ Known \subseteq DocIds
      /\ s.stage # "recreating" => s.doc \in Known
  BY ClientsDiffer, KnownAre DEF SyncTypeOK, WindowOK, CallsOK
<1>2. /\ DialogDescends(H, docs, s, rs, handler[Dialog(d)]) /\ CardDescends(H, docs, rs, k)
      /\ k.doc \in Known /\ H.rec[k.doc] \in 1..H.n
  BY <1>1 DEF Before, DeviceDescends, DialogDescends, Resolution, CardOf, History
<1>3. /\ req \in Cloud!Request /\ (req.op # "create" => req.doc \in Known)
      /\ req.op = "create" <=> s.stage = "recreating"
      /\ req.op # "delete" /\ req.payload = k.local
      /\ req.op = "update" => req.doc = s.doc
  BY <1>1, ResolutionParts DEF DialogRequest
<1>4. /\ req.op # "delete" => Version(H, req.payload, H.rec[k.doc])
      /\ req.op = "update" => H.rec[k.doc] = H.rec[req.doc]
  <2>1. Version(H, req.payload, H.rec[k.doc])
    BY <1>2, <1>3 DEF CardDescends, About
  <2>2. s.stage # "recreating" => H.rec[k.doc] = H.rec[s.doc]
    BY <1>1, <1>2 DEF DialogDescends, Target
  <2>3. req.op = "update" => s.stage # "recreating" /\ req.doc = s.doc
    BY <1>3
  <2> HIDE DEF req
  <2> QED
    BY <2>1, <2>2, <2>3
<1> HIDE DEF req
<1>5. PICK G : Recorded(H, G, Dialog(d), req, H.rec[k.doc])
  BY <1>1, <1>2, <1>3, <1>4, HandlerRecords DEF req
<1>6. Later(H, G, Known) /\ \A i \in Known : docs[i].deleted => docs'[i].deleted
  BY <1>5 DEF Recorded
<1>7. DeviceDescends(G, docs', pass[d], conflicts[d], s, rs, push, handler[Dialog(d)])
  BY <1>6, DeviceLater
<1>8. ASSUME s.stage = "recreating", dialog.stage = "replied"
      PROVE  dialog.status # 400 /\ Target(G, rs, k, dialog.doc)
  <2>1. /\ dialog.status # 400 /\ dialog.doc \in DocIds \ Known
        /\ G.rec[dialog.doc] = H.rec[k.doc]
    BY <1>3, <1>5, <1>8 DEF Recorded
  <2>2. G.rec[dialog.doc] = G.rec[k.doc]
    BY <1>2, <1>6, <2>1 DEF Later
  <2>3. HeldBy(rs, dialog.doc, k.row)
    BY <1>1, <2>1, SentinelAssumption DEF HeldBy, StoreOK, StoredIn
  <2> QED
    BY <2>1, <2>2, <2>3 DEF Target
<1>9. DialogDescends(G, docs', s, rs, dialog)
  BY <1>7, <1>8 DEF DeviceDescends, DialogDescends
<1>10. Before(d, G)'
  BY <1>7, <1>9 DEF Before, DeviceDescends, SameStore, SameWindow
<1>11. s.stage = "recreating" => docs[k.doc].deleted
  BY <1>1, <1>2 DEF DialogDescends, CardDescends
<1> QED
  BY <1>2, <1>3, <1>5, <1>10, <1>11 DEF req

-----------------------------------------------------------------------------
(* A record is created once. *)

\* Row l of device e was there before, of the same record.
Follows(H, G, e, l) ==
  /\ l \in Unlinked(rows[e])
  /\ Landed(pass[e], handler[Pusher(e)], l) => Landed(pass'[e], handler'[Pusher(e)], l)
  /\ \A r \in 1..G.n : Version(G, rows'[e][l].payload, r) =>
       r \in 1..H.n /\ Version(H, rows[e][l].payload, r)

\* The documents stay, and at most one row is of a new record.
LEMMA OnceAfter ==
  ASSUME NEW H, NEW G, Once(H), docs' = docs, 1..H.n \subseteq 1..G.n,
         \A i \in Known : H.rec[i] \in 1..H.n /\ G.rec[i] = H.rec[i],
         NEW d, NEW m,
         \A e \in Devices : \A l \in Unlinked(rows'[e]) :
           \/ Follows(H, G, e, l)
           \/ e = d /\ l = m /\ \A r \in 1..H.n : ~Version(G, rows'[e][l].payload, r)
  PROVE  Once(G)'
<1>1. Known' = Known
  BY DEF Known, Cloud!Exists
<1>2. Single(G, docs', Known')
  <2>1. Single(H, docs, Known)
    BY DEF Once
  <2> QED
    BY <1>1, <2>1 DEF Single
<1>3. Apart(G, rows')
  <2> SUFFICES ASSUME NEW a \in Devices, NEW b \in Devices,
                      NEW l \in Unlinked(rows'[a]), NEW k \in Unlinked(rows'[b]), NEW r \in 1..G.n,
                      Version(G, rows'[a][l].payload, r), Version(G, rows'[b][k].payload, r)
               PROVE  a = b /\ l = k
    BY DEF Apart
  <2>1. CASE Follows(H, G, a, l) /\ Follows(H, G, b, k)
    <3>1. /\ r \in 1..H.n /\ Version(H, rows[a][l].payload, r) /\ Version(H, rows[b][k].payload, r)
          /\ l \in Unlinked(rows[a]) /\ k \in Unlinked(rows[b])
      BY <2>1 DEF Follows
    <3> QED
      BY <3>1 DEF Once, Apart
  <2>2. CASE ~Follows(H, G, a, l) \/ ~Follows(H, G, b, k)
    BY <2>2 DEF Follows
  <2> QED
    BY <2>1, <2>2
<1>4. ASSUME NEW e \in Devices
      PROVE  WaitsForOne(G, Known', pass'[e], handler'[Pusher(e)], rows'[e])
  <2> SUFFICES ASSUME NEW l \in Unlinked(rows'[e]), NEW i \in Known,
                      About(G, rows'[e][l].payload, i)
               PROVE  Landed(pass'[e], handler'[Pusher(e)], l)
    BY <1>1 DEF WaitsForOne
  <2>1. H.rec[i] \in 1..H.n /\ H.rec[i] \in 1..G.n /\ Version(G, rows'[e][l].payload, H.rec[i])
    BY DEF About
  <2>2. Follows(H, G, e, l)
    BY <2>1
  <2>3. l \in Unlinked(rows[e]) /\ About(H, rows[e][l].payload, i)
    BY <2>1, <2>2 DEF Follows, About
  <2>4. Landed(pass[e], handler[Pusher(e)], l)
    BY <2>3 DEF Once, WaitsForOne
  <2> QED
    BY <2>2, <2>4 DEF Follows
<1> QED
  BY <1>2, <1>3, <1>4 DEF Once

\* The rows stay; a new document is that of the row that waited for it, or the
\* successor of a tombstone.
LEMMA OnceServed ==
  ASSUME NEW H, NEW G, Once(H), Later(H, G, Known), G.own = H.own, G.n = H.n,
         Known \subseteq Known', rows' = rows, pass' = pass,
         \A i \in Known : docs[i].deleted => docs'[i].deleted,
         \A i, j \in Known' \ Known : i = j,
         \A e \in Devices : \A l : Landed(pass[e], handler[Pusher(e)], l)
                                     => Landed(pass[e], handler'[Pusher(e)], l),
         \A i \in Known' \ Known :
           \/ \E k \in Known : G.rec[i] = H.rec[k] /\ docs[k].deleted
           \/ \E d \in Devices : \E l \in Unlinked(rows[d]) :
                /\ G.rec[i] \in 1..H.n /\ Version(H, rows[d][l].payload, G.rec[i])
                /\ ~Landed(pass[d], handler[Pusher(d)], l)
                /\ Landed(pass[d], handler'[Pusher(d)], l)
  PROVE  Once(G)'
<1>1. /\ \A p, r : Version(G, p, r) <=> Version(H, p, r)
      /\ \A i \in Known : G.rec[i] = H.rec[i]
  BY DEF Version, Later
<1>2. Apart(G, rows')
  <2>1. Apart(H, rows)
    BY DEF Once
  <2> QED
    BY <1>1, <2>1 DEF Apart
<1>3. ASSUME NEW i \in Known' \ Known, NEW j \in Known, G.rec[i] = G.rec[j]
      PROVE  \E k \in Known' : docs'[k].deleted /\ G.rec[k] = G.rec[i]
  <2>1. CASE \E k \in Known : G.rec[i] = H.rec[k] /\ docs[k].deleted
    BY <1>1, <2>1
  <2>2. ASSUME NEW d \in Devices, NEW l \in Unlinked(rows[d]),
               Version(H, rows[d][l].payload, G.rec[i]),
               ~Landed(pass[d], handler[Pusher(d)], l)
        PROVE  FALSE
    <3>1. ~About(H, rows[d][l].payload, j)
      BY <2>2 DEF Once, WaitsForOne
    <3> QED
      BY <1>1, <1>3, <2>2, <3>1 DEF About
  <2> QED
    BY <2>1, <2>2
<1>4. Single(G, docs', Known')
  <2> SUFFICES ASSUME NEW i \in Known', NEW j \in Known', i # j, G.rec[i] = G.rec[j]
               PROVE  \E k \in Known' : docs'[k].deleted /\ G.rec[k] = G.rec[i]
    BY DEF Single
  <2>1. CASE i \in Known /\ j \in Known
    <3>1. \E k \in Known : docs[k].deleted /\ H.rec[k] = H.rec[i]
      BY <1>1, <2>1 DEF Once, Single
    <3> QED
      BY <1>1, <2>1, <3>1
  <2>2. CASE i \notin Known /\ j \in Known
    BY <1>3, <2>2
  <2>3. CASE i \in Known /\ j \notin Known
    BY <1>3, <2>3
  <2> QED
    BY <2>1, <2>2, <2>3
<1>5. ASSUME NEW e \in Devices
      PROVE  WaitsForOne(G, Known', pass'[e], handler'[Pusher(e)], rows'[e])
  <2> SUFFICES ASSUME NEW k \in Unlinked(rows[e]), NEW i \in Known',
                      About(G, rows[e][k].payload, i),
                      ~Landed(pass[e], handler'[Pusher(e)], k)
               PROVE  FALSE
    BY DEF WaitsForOne
  <2>1. ~Landed(pass[e], handler[Pusher(e)], k)
    OBVIOUS
  <2>2. \A j \in Known : ~About(H, rows[e][k].payload, j)
    BY <2>1 DEF Once, WaitsForOne
  <2>3. Version(H, rows[e][k].payload, G.rec[i])
    BY <1>1 DEF About
  <2>4. i \notin Known
    BY <1>1, <2>2, <2>3 DEF About
  <2>5. ~ \E j \in Known : G.rec[i] = H.rec[j] /\ docs[j].deleted
    BY <2>2, <2>3 DEF About
  <2>6. PICK d \in Devices : \E l \in Unlinked(rows[d]) :
          /\ G.rec[i] \in 1..H.n /\ Version(H, rows[d][l].payload, G.rec[i])
          /\ Landed(pass[d], handler'[Pusher(d)], l)
    BY <2>4, <2>5
  <2>7. PICK l \in Unlinked(rows[d]) :
          /\ G.rec[i] \in 1..H.n /\ Version(H, rows[d][l].payload, G.rec[i])
          /\ Landed(pass[d], handler'[Pusher(d)], l)
    BY <2>6
  <2>8. d = e /\ l = k
    BY <2>3, <2>7 DEF Once, Apart
  <2> QED
    BY <2>7, <2>8
<1> QED
  BY <1>2, <1>4, <1>5 DEF Once

LEMMA CloudDescends ==
  ASSUME SyncTypeOK, LocalTrue, ~UniqueNames, ~CreateDropsContent, NEW H, Descends(H), CloudStep
  PROVE  \E G : Descends(G)'
<1>1. /\ \A e \in Devices : SameStore(e) /\ SameWindow(e)
      /\ lastEdit' = lastEdit /\ faults' = faults /\ Shape /\ Shape'
  BY CloudStepDoes DEF SyncTypeOK
<1>2. /\ Known \subseteq Known' /\ \A e \in Devices : Before(e, H)
      /\ History(H)
  BY CloudTypes DEF Descends, Before
<1>3. rows' = rows /\ pass' = pass
  BY <1>1 DEF Shape, SameStore, SameWindow
<1>4. PICK d \in Devices :
        /\ \A e \in Devices \ {d} : SameCalls(e)
        /\ \/ /\ handler[Pusher(d)].stage # "idle"
              /\ handler'[Dialog(d)] = handler[Dialog(d)]
              /\ Moves(Pusher(d), handler[Pusher(d)], pass[d].current.request)
           \/ /\ handler[Dialog(d)].stage # "idle"
              /\ handler'[Pusher(d)] = handler[Pusher(d)]
              /\ Moves(Dialog(d), handler[Dialog(d)], DialogRequest(resolution[d]))
  BY CloudTypes
<1>5. ASSUME NEW G, NEW c, NEW req, NEW r, Recorded(H, G, c, req, r), Before(d, G)',
             \A l : Landed(pass[d], handler[Pusher(d)], l) => Landed(pass[d], handler'[Pusher(d)], l),
             req.op = "create" /\ handler'[c].stage = "replied" =>
               \/ \E k \in Known : r = H.rec[k] /\ docs[k].deleted
               \/ \E l \in Unlinked(rows[d]) :
                    /\ r \in 1..H.n /\ Version(H, rows[d][l].payload, r)
                    /\ ~Landed(pass[d], handler[Pusher(d)], l)
                    /\ Landed(pass[d], handler'[Pusher(d)], l)
      PROVE  Descends(G)'
  <2>1. /\ Later(H, G, Known) /\ G.own = H.own /\ G.n = H.n
        /\ \A i \in Known : docs[i].deleted => docs'[i].deleted
    BY <1>5 DEF Recorded
  <2>2. History(G)'
    BY <1>1, <1>2, <1>5 DEF Recorded, History
  <2>3. ASSUME NEW e \in Devices PROVE Before(e, G)'
    <3>1. CASE e # d
      <4>1. DeviceDescends(G, docs', pass[e], conflicts[e], resolution[e], rows[e],
                           handler[Pusher(e)], handler[Dialog(e)])
        BY <1>2, <2>1, DeviceLater
      <4> QED
        BY <1>1, <1>4, <3>1, <4>1 DEF Before, SameStore, SameWindow, SameCalls
    <3> QED
      BY <1>5, <3>1
  <2>4. ASSUME faults' = 0 PROVE Once(G)'
    <3>1. Once(H)
      BY <1>1, <2>4 DEF Descends
    <3>2. \A i, j \in Known' \ Known : i = j
      BY <1>5 DEF Recorded
    <3>3. \A e \in Devices : \A l : Landed(pass[e], handler[Pusher(e)], l)
                                      => Landed(pass[e], handler'[Pusher(e)], l)
      BY <1>4, <1>5 DEF SameCalls
    <3>4. ASSUME NEW i \in Known' \ Known
          PROVE  \/ \E k \in Known : G.rec[i] = H.rec[k] /\ docs[k].deleted
                 \/ \E e \in Devices : \E l \in Unlinked(rows[e]) :
                      /\ G.rec[i] \in 1..H.n /\ Version(H, rows[e][l].payload, G.rec[i])
                      /\ ~Landed(pass[e], handler[Pusher(e)], l)
                      /\ Landed(pass[e], handler'[Pusher(e)], l)
      <4>1. G.rec[i] = r /\ req.op = "create" /\ handler'[c].stage = "replied"
        BY <1>5 DEF Recorded
      <4> QED
        BY <1>5, <4>1
    <3> QED
      BY <1>2, <1>3, <2>1, <3>1, <3>2, <3>3, <3>4, OnceServed
  <2> QED
    BY <2>2, <2>3, <2>4 DEF Descends, Before
<1>6. CASE /\ handler[Pusher(d)].stage # "idle"
           /\ handler'[Dialog(d)] = handler[Dialog(d)]
           /\ Moves(Pusher(d), handler[Pusher(d)], pass[d].current.request)
  <2> DEFINE req == pass[d].current.request  l == pass[d].current.row
  <2>1. PICK G, r : /\ Recorded(H, G, Pusher(d), req, r) /\ Before(d, G)'
                    /\ pass[d].pc = "calling" /\ handler[Pusher(d)].stage # "replied"
                    /\ req.op = "create" =>
                         l \in Unlinked(rows[d]) /\ r \in 1..H.n /\ Version(H, rows[d][l].payload, r)
    BY <1>1, <1>2, <1>6, PushServed
  <2>2. /\ \A k : ~Landed(pass[d], handler[Pusher(d)], k)
        /\ handler'[Pusher(d)].stage = "replied" => Landed(pass[d], handler'[Pusher(d)], l)
    BY <2>1 DEF Landed
  <2> HIDE DEF req, l
  <2>3. Descends(G)'
    BY <1>5, <2>1, <2>2
  <2> QED
    BY <2>3
<1>7. CASE /\ handler[Dialog(d)].stage # "idle"
           /\ handler'[Pusher(d)] = handler[Pusher(d)]
           /\ Moves(Dialog(d), handler[Dialog(d)], DialogRequest(resolution[d]))
  <2>1. PICK G, r : /\ Recorded(H, G, Dialog(d), DialogRequest(resolution[d]), r) /\ Before(d, G)'
                    /\ DialogRequest(resolution[d]).op = "create" =>
                         \E k \in Known : r = H.rec[k] /\ docs[k].deleted
    BY <1>1, <1>2, <1>7, DialogServed
  <2>2. Descends(G)'
    BY <1>5, <1>7, <2>1
  <2> QED
    BY <2>2
<1> QED
  BY <1>4, <1>6, <1>7

-----------------------------------------------------------------------------
(* The users' acts. *)

\* The next edit is of record o.
Extended(H, o) ==
  [own |-> [H.own EXCEPT ![lastEdit + 1] = o], rec |-> H.rec, n |-> lastEdit + 1]

LEMMA ExtendedGoesOn ==
  ASSUME SyncTypeOK, NEW H, History(H), lastEdit + 1 \in Edits, NEW o \in 1..(lastEdit + 1),
         NEW G, G = Extended(H, o)
  PROVE  /\ Later(H, G, Known) /\ G.rec = H.rec /\ G.n = lastEdit + 1 /\ H.n = lastEdit
         /\ lastEdit + 1 \in 1..G.n /\ lastEdit + 1 \notin 1..H.n
         /\ G.own[lastEdit + 1] = o
         /\ docs' = docs /\ lastEdit' = lastEdit + 1 => History(G)'
<1>1. /\ lastEdit \in Nat /\ H.n = lastEdit /\ H.own \in [Edits -> Nat]
      /\ \A e \in 1..lastEdit : H.own[e] \in 1..lastEdit
      /\ H.rec \in [DocIds -> Nat]
      /\ \A i \in Known : H.rec[i] \in 1..lastEdit /\ About(H, docs[i].payload, i)
  BY DEF SyncTypeOK, History
<1>2. /\ DOMAIN G = {"own", "rec", "n"} /\ G.rec = H.rec /\ G.n = lastEdit + 1
      /\ G.own \in [Edits -> Nat] /\ G.own[lastEdit + 1] = o
      /\ \A e \in 1..lastEdit : G.own[e] = H.own[e]
  BY <1>1 DEF Extended
<1>3. \A e \in 1..(lastEdit + 1) : e = lastEdit + 1 \/ e \in 1..lastEdit
  BY <1>1
<1>4. \A e \in 1..lastEdit : e \in 1..(lastEdit + 1)
  BY <1>1
<1>5. Later(H, G, Known)
  BY <1>1, <1>2 DEF Later
<1>6. ASSUME docs' = docs, lastEdit' = lastEdit + 1 PROVE History(G)'
  <2>1. Known' = Known
    BY <1>6 DEF Known, Cloud!Exists
  <2>2. \A i \in Known : About(G, docs[i].payload, i)
    BY <1>1, <1>5, VersionLater
  <2>3. \A e \in 1..(lastEdit + 1) : G.own[e] \in 1..(lastEdit + 1)
    BY <1>1, <1>2, <1>3, <1>4
  <2> QED
    BY <1>1, <1>2, <1>4, <1>6, <2>1, <2>2, <2>3 DEF History
<1>7. lastEdit + 1 \in 1..G.n /\ lastEdit + 1 \notin 1..H.n
  BY <1>1, <1>2
<1> QED
  BY <1>1, <1>2, <1>5, <1>6, <1>7

\* A content with one more edit is of the same record if the edit is.
LEMMA EditedVersion ==
  ASSUME NEW H, NEW G, NEW known, Later(H, G, known), NEW p, NEW q, NEW r, Version(H, p, r),
         NEW e \in 1..G.n, q.edits = p.edits \cup {e}, G.own[e] = r
  PROVE  Version(G, q, r)
<1>1. Version(G, p, r)
  BY VersionLater
<1> QED
  BY <1>1 DEF Version

\* What a user's act makes of row l: it is removed, created, or kept.
UserMade(H, G, rs, rt, l) ==
  /\ \A k \in LocalIds \ {l} : rt[k] = rs[k]
  /\ \/ rt[l] = NoRow /\ ~Local!Linked(rs[l])
     \/ /\ rs[l] = NoRow /\ rt[l] # NoRow /\ ~Local!Linked(rt[l])
        /\ Version(G, rt[l].payload, lastEdit + 1)
     \/ /\ rs[l] # NoRow /\ rt[l] # NoRow /\ rt[l].cloudId = rs[l].cloudId
        /\ \A r : Version(H, rs[l].payload, r) => Version(G, rt[l].payload, r)

LEMMA UserMakes ==
  ASSUME SyncTypeOK, NEW H, History(H), NEW d \in Devices, Before(d, H),
         UserCreates(d) \/ UserEdits(d) \/ UserDeletes(d)
  PROVE  /\ lastEdit + 1 \in Edits /\ lastEdit' = lastEdit + 1
         /\ \E l \in LocalIds, o \in 1..(lastEdit + 1) :
              UserMade(H, Extended(H, o), rows[d], rows'[d], l)
<1> DEFINE rs == rows[d]  rt == rows'[d]  e == lastEdit + 1
<1>1. /\ Shape /\ StoreOK(rs, issued[d], Known) /\ lastEdit \in Nat
      /\ \A l \in LocalIds : rs[l] # NoRow => rs[l] \in RowType
      /\ NoRow \notin RowType
  BY SameData, NoCallAssumption DEF SyncTypeOK, StoreOK
<1>2. e \in Edits /\ lastEdit' = e /\ e \in 1..e /\ lastEdit \in 0..MaxEdits
  <2>1. lastEdit < MaxEdits /\ lastEdit' = lastEdit + 1
    BY DEF UserCreates, UserEdits, UserDeletes, UserStep
  <2> QED
    BY <2>1, BoundsAssumption DEF SyncTypeOK, Edits
<1>3. CASE UserCreates(d)
  <2>1. PICK l \in Local!FreshIds(d), n \in Names :
          rows' = [rows EXCEPT ![d][l] = Local!NewRow([name |-> n, edits |-> {lastEdit + 1}])]
    BY <1>3 DEF UserCreates, Local!Create
  <2>2. l \in LocalIds /\ rs[l] = NoRow
    BY <1>1 DEF Local!FreshIds, StoreOK
  <2> DEFINE new == Local!NewRow([name |-> n, edits |-> {e}])
  <2>3. \A k \in LocalIds : rt[k] = IF k = l THEN new ELSE rs[k]
    BY <1>1, <2>1 DEF Shape, StoreOK
  <2>4. new \in RowType /\ new.cloudId = NoDoc /\ new.payload.edits = {e}
    <3>1. [name |-> n, edits |-> {e}] \in Payload
      BY <1>2 DEF Payload
    <3> QED
      BY <3>1, RowsWritten DEF Local!NewRow
  <2> HIDE DEF new
  <2> DEFINE G == Extended(H, e)
  <2>5. G.n = e /\ G.own[e] = e
    BY <1>2, ExtendedGoesOn
  <2> HIDE DEF G
  <2>6. Version(G, new.payload, e)
    BY <1>2, <2>4, <2>5 DEF Version
  <2>7. UserMade(H, G, rs, rt, l)
    BY <1>1, <2>2, <2>3, <2>4, <2>6 DEF UserMade, Local!Linked
  <2> QED
    BY <1>2, <2>2, <2>7 DEF G
<1>4. CASE UserEdits(d)
  <2>1. PICK l \in Local!Visible(d), n \in Names :
          rows' = [rows EXCEPT ![d][l] = Local!EditedRow(rows[d][l],
                     [name |-> n, edits |-> rows[d][l].payload.edits \cup {lastEdit + 1}])]
    BY <1>4 DEF UserEdits, Local!Update
  <2>2. l \in LocalIds /\ rs[l] # NoRow /\ rs[l] \in RowType
    BY <1>1 DEF Local!Visible, Local!Stored
  <2> DEFINE content == [name |-> n, edits |-> rs[l].payload.edits \cup {e}]
             new == Local!EditedRow(rs[l], content)
  <2>3. \A k \in LocalIds : rt[k] = IF k = l THEN new ELSE rs[k]
    BY <1>1, <2>1 DEF Shape, StoreOK
  <2>4. /\ new \in RowType /\ new.cloudId = rs[l].cloudId
        /\ new.payload.edits = rs[l].payload.edits \cup {e}
    <3>1. content \in Payload /\ content.edits = rs[l].payload.edits \cup {e}
      BY <1>2, <2>2 DEF Payload, RowType
    <3> HIDE DEF content
    <3>2. new.payload = content
      BY <2>2 DEF Local!EditedRow, RowType
    <3> QED
      BY <2>2, <3>1, <3>2, RowsWritten
  <2> HIDE DEF new
  <2>5. PICK r \in 1..H.n : Version(H, rs[l].payload, r)
    <3>1. RowDescends(H, rs, l) /\ rs[l].cloudId \in Known \cup {NoDoc}
      BY <1>1, <2>2 DEF Before, DeviceDescends, StoredIn, StoreOK
    <3> QED
      BY <3>1 DEF RowDescends, Local!Linked, About, History
  <2> DEFINE G == Extended(H, r)
  <2>6. r \in 1..e
    BY <1>1 DEF History
  <2>7. Later(H, G, Known) /\ G.own[e] = r /\ e \in 1..G.n
    BY <1>2, <2>6, ExtendedGoesOn
  <2> HIDE DEF G
  <2>8. Version(G, new.payload, r)
    BY <2>4, <2>5, <2>7, EditedVersion
  <2>9. \A s : Version(H, rs[l].payload, s) => Version(G, new.payload, s)
    BY <2>5, <2>8, OneRecord
  <2>10. UserMade(H, G, rs, rt, l)
    BY <1>1, <2>2, <2>3, <2>4, <2>9 DEF UserMade
  <2> QED
    BY <1>2, <2>2, <2>6, <2>10 DEF G
<1>5. CASE UserDeletes(d)
  <2>1. PICK l \in Local!Visible(d) :
          rows' = [rows EXCEPT ![d][l] = IF Local!Linked(rows[d][l])
                     THEN Local!BuriedRow(rows[d][l]) ELSE NoRow]
    BY <1>5 DEF UserDeletes, Local!Delete
  <2>2. l \in LocalIds /\ rs[l] # NoRow /\ rs[l] \in RowType
    BY <1>1 DEF Local!Visible, Local!Stored
  <2>3. \A k \in LocalIds : rt[k] = IF k # l THEN rs[k] ELSE
                              IF Local!Linked(rs[l]) THEN Local!BuriedRow(rs[l]) ELSE NoRow
    BY <1>1, <2>1 DEF Shape, StoreOK
  <2>4. /\ Local!BuriedRow(rs[l]) \in RowType /\ Local!BuriedRow(rs[l]).cloudId = rs[l].cloudId
        /\ Local!BuriedRow(rs[l]).payload = rs[l].payload
    BY <2>2, RowsWritten DEF Local!BuriedRow, RowType
  <2> DEFINE G == Extended(H, e)
  <2>5. Later(H, G, Known)
    BY <1>2, ExtendedGoesOn
  <2> HIDE DEF G
  <2>6. \A s : Version(H, rs[l].payload, s) => Version(G, rs[l].payload, s)
    BY <2>5, VersionLater
  <2>7. UserMade(H, G, rs, rt, l)
    BY <1>1, <2>2, <2>3, <2>4, <2>6 DEF UserMade
  <2> QED
    BY <1>2, <2>2, <2>7 DEF G
<1> QED
  BY <1>2, <1>3, <1>4, <1>5

LEMMA UserRowsDescend ==
  ASSUME NEW H, NEW G, NEW rs, NEW rt, NEW l \in LocalIds, UserMade(H, G, rs, rt, l),
         lastEdit + 1 \in 1..G.n,
         \A k \in StoredIn(rs) : RowDescends(H, rs, k) /\ RowDescends(G, rs, k),
         Later(H, G, Known)
  PROVE  \A k \in StoredIn(rt) : RowDescends(G, rt, k)
<1>1. /\ \A k \in StoredIn(rt) : k # l => k \in StoredIn(rs) /\ rt[k] = rs[k]
      /\ l \in StoredIn(rt) /\ Local!Linked(rt[l]) =>
           l \in StoredIn(rs) /\ rt[l].cloudId = rs[l].cloudId
  BY DEF UserMade, StoredIn
<1>2. ASSUME NEW k \in StoredIn(rs), Local!Linked(rs[k]) PROVE HeldBy(rt, rs[k].cloudId, k)
  <2>1. HeldBy(rs, rs[k].cloudId, k)
    BY <1>2 DEF RowDescends
  <2> QED
    BY <1>1, <1>2, <2>1 DEF HeldBy, Local!Linked
<1>3. ASSUME NEW k \in StoredIn(rt), k # l PROVE RowDescends(G, rt, k)
  <2>1. k \in StoredIn(rs) /\ rt[k] = rs[k] /\ RowDescends(G, rs, k)
    BY <1>1, <1>3
  <2>2. Local!Linked(rs[k]) => HeldBy(rt, rt[k].cloudId, k)
    BY <1>2, <2>1
  <2> QED
    BY <2>1, <2>2 DEF RowDescends
<1>4. ASSUME l \in StoredIn(rt) PROVE RowDescends(G, rt, l)
  <2>1. CASE rs[l] = NoRow
    BY <1>4, <2>1 DEF UserMade, StoredIn, RowDescends
  <2>2. CASE rs[l] # NoRow
    <3>1. /\ l \in StoredIn(rs) /\ rt[l].cloudId = rs[l].cloudId
          /\ \A r : Version(H, rs[l].payload, r) => Version(G, rt[l].payload, r)
      BY <1>4, <2>2 DEF UserMade, StoredIn
    <3>2. RowDescends(H, rs, l) /\ RowDescends(G, rs, l)
      BY <3>1
    <3>3. CASE Local!Linked(rs[l])
      <4>1. About(H, rs[l].payload, rs[l].cloudId) /\ About(G, rs[l].payload, rs[l].cloudId)
        BY <3>2, <3>3 DEF RowDescends
      <4>2. About(G, rt[l].payload, rt[l].cloudId)
        <5>1. Version(G, rs[l].payload, H.rec[rs[l].cloudId])
          BY <4>1, VersionLater DEF About
        <5>2. H.rec[rs[l].cloudId] = G.rec[rs[l].cloudId]
          BY <4>1, <5>1, OneRecord DEF About
        <5>3. Version(G, rt[l].payload, H.rec[rs[l].cloudId])
          BY <3>1, <4>1 DEF About
        <5> QED
          BY <3>1, <5>2, <5>3 DEF About
      <4> QED
        BY <1>2, <3>1, <3>3, <4>2 DEF RowDescends, Local!Linked
    <3>4. CASE ~Local!Linked(rs[l])
      BY <3>1, <3>2, <3>4, VersionLater DEF RowDescends, Local!Linked
    <3> QED
      BY <3>3, <3>4
  <2> QED
    BY <2>1, <2>2
<1> QED
  BY <1>3, <1>4

LEMMA UserDescends ==
  ASSUME SyncTypeOK, LocalTrue, ~EditDuringPass, NEW H, Descends(H), NEW d \in Devices,
         UserCreates(d) \/ UserEdits(d) \/ UserDeletes(d)
  PROVE  \E G : Descends(G)'
<1> DEFINE rs == rows[d]  rt == rows'[d]
<1>1. /\ Shape /\ OthersStay(d) /\ SameCalls(d) /\ SameWindow(d) /\ MayAct(d) /\ docs' = docs
      /\ Known' = Known
  BY UserActsDo, UserTypes, DeviceFacts DEF OthersStay
<1>2. /\ History(H) /\ \A e \in Devices : Before(e, H)
  BY DEF Descends, Before
<1>3. lastEdit + 1 \in Edits /\ lastEdit' = lastEdit + 1
  BY <1>2, UserMakes
<1>4. PICK l \in LocalIds, o \in 1..(lastEdit + 1) : UserMade(H, Extended(H, o), rs, rt, l)
  <2>1. Before(d, H)
    BY <1>2
  <2> QED
    BY <1>2, <2>1, UserMakes
<1>5. PICK G : G = Extended(H, o)
  OBVIOUS
<1>6. UserMade(H, G, rs, rt, l)
  BY <1>4, <1>5
<1>7. /\ Later(H, G, Known) /\ G.rec = H.rec /\ History(G)'
      /\ lastEdit + 1 \in 1..G.n /\ lastEdit + 1 \notin 1..H.n
  BY <1>1, <1>2, <1>3, <1>5, ExtendedGoesOn
<1>8. ASSUME NEW e \in Devices
      PROVE  DeviceDescends(G, docs, pass[e], conflicts[e], resolution[e], rows[e],
                            handler[Pusher(e)], handler[Dialog(e)])
  BY <1>2, <1>7, DeviceLater
<1>9. Before(d, G)'
  <2>1. /\ pass[d].pc = "idle" /\ resolution'[d] = NoCall /\ pass'[d] = pass[d]
        /\ conflicts'[d] = conflicts[d] /\ handler'[Pusher(d)] = handler[Pusher(d)]
    BY <1>1 DEF MayAct, Quiet, At, SameWindow, SameCalls
  <2>2. \A k \in StoredIn(rs) : RowDescends(H, rs, k) /\ RowDescends(G, rs, k)
    BY <1>2, <1>8 DEF Before, DeviceDescends
  <2>3. \A k \in StoredIn(rt) : RowDescends(G, rt, k)
    BY <1>6, <1>7, <2>2, UserRowsDescend
  <2>4. \A k \in conflicts[d] : CardDescends(G, docs, rt, k)
    <3> SUFFICES ASSUME NEW k \in conflicts[d] PROVE CardDescends(G, docs, rt, k)
      OBVIOUS
    <3>1. CardDescends(G, docs, rs, k) /\ k.doc # NoDoc
      BY <1>8, DeviceFacts, KnownAre, SentinelAssumption DEF DeviceDescends, CardOf
    <3>2. k.row \in StoredIn(rt) /\ rt[k.row].cloudId = k.doc
      BY <1>6, <3>1 DEF CardDescends, UserMade, StoredIn, Local!Linked
    <3> QED
      BY <3>1, <3>2 DEF CardDescends
  <2>5. After(d, G)
    BY <2>1, <2>3, <2>4, DialogAfter DEF DialogDescends
  <2> QED
    BY <1>1, <2>5 DEF Before, After
<1>10. ASSUME NEW e \in Devices, e # d PROVE Before(e, G)'
  BY <1>1, <1>8, <1>10 DEF Before, OthersStay, SameStore, SameCalls, SameWindow
<1>11. ASSUME faults' = 0 PROVE Once(G)'
  <2>1. Once(H)
    <3>1. faults' = faults
      BY DEF UserCreates, UserEdits, UserDeletes, UserStep
    <3> QED
      BY <1>11, <3>1 DEF Descends
  <2>2. \A i \in Known : H.rec[i] \in 1..H.n /\ G.rec[i] = H.rec[i]
    BY <1>2, <1>7 DEF History
  <2>3. ASSUME NEW e \in Devices, NEW k \in Unlinked(rows'[e])
        PROVE  \/ Follows(H, G, e, k)
               \/ e = d /\ k = l /\ \A r \in 1..H.n : ~Version(G, rows'[e][k].payload, r)
    <3>1. Landed(pass[e], handler[Pusher(e)], k) => Landed(pass'[e], handler'[Pusher(e)], k)
      BY <1>1 DEF OthersStay, SameCalls, SameWindow
    <3>2. ASSUME NEW q \in 1..H.n, k \in Unlinked(rows[e]), Version(H, rows[e][k].payload, q),
                 Version(G, rows'[e][k].payload, q)
          PROVE  Follows(H, G, e, k)
      BY <3>1, <3>2, OneRecord DEF Follows
    <3>3. ASSUME k \in Unlinked(rows[e])
          PROVE  \E q \in 1..H.n : Version(H, rows[e][k].payload, q)
      BY <1>2, <3>3 DEF Before, DeviceDescends, RowDescends, Unlinked
    <3>4. CASE e = d /\ k = l
      <4>1. CASE rs[l] = NoRow
        <5>1. Version(G, rt[l].payload, lastEdit + 1)
          BY <1>6, <3>4, <4>1 DEF UserMade, Unlinked, StoredIn
        <5> QED
          BY <1>7, <3>4, <5>1, OneRecord
      <4>2. CASE rs[l] # NoRow
        <5>1. /\ k \in Unlinked(rows[e])
              /\ \A r : Version(H, rs[l].payload, r) => Version(G, rt[l].payload, r)
          BY <1>6, <3>4, <4>2 DEF UserMade, Unlinked, StoredIn, Local!Linked
        <5>2. PICK q \in 1..H.n : Version(H, rows[e][k].payload, q)
          BY <3>3, <5>1
        <5> QED
          BY <3>2, <3>4, <5>1, <5>2
      <4> QED
        BY <4>1, <4>2
    <3>5. CASE e # d \/ k # l
      <4>1. k \in Unlinked(rows[e]) /\ rows'[e][k] = rows[e][k]
        <5>1. rows'[e][k] = rows[e][k]
          BY <1>1, <1>6, <3>5 DEF OthersStay, SameStore, UserMade, Unlinked, StoredIn
        <5> QED
          BY <5>1 DEF Unlinked, StoredIn
      <4>2. PICK q \in 1..H.n : Version(H, rows[e][k].payload, q)
        BY <3>3, <4>1
      <4>3. Version(G, rows'[e][k].payload, q)
        BY <1>7, <4>1, <4>2, VersionLater
      <4> QED
        BY <3>2, <4>1, <4>2, <4>3
    <3> QED
      BY <3>4, <3>5
  <2>4. 1..H.n \subseteq 1..G.n
    BY <1>7, VersionLater
  <2> QED
    BY <1>1, <2>1, <2>2, <2>3, <2>4, OnceAfter
<1>12. Descends(G)'
  BY <1>7, <1>9, <1>10, <1>11 DEF Descends, Before
<1> QED
  BY <1>12

-----------------------------------------------------------------------------
(* The other steps of a device: the history stays. *)

\* What a step of d that is no user's act does to the edits and the faults.
LEMMA HistoryStays ==
  ASSUME NEW d \in Devices,
         StartPass(d) \/ PassStep(d) \/ DialogStep(d) \/ KeepCloud(d) \/ KeepLocal(d) \/ Fault(d)
  PROVE  lastEdit' = lastEdit /\ (faults' = faults \/ (Fault(d) /\ faults' = faults + 1))
<1> DEFINE Stays == lastEdit' = lastEdit /\ faults' = faults
<1>1. CASE StartPass(d)
  <2>1. Stays
    BY <1>1 DEF StartPass, localVars, cloudVars, Window
  <2> QED
    BY <2>1
<1>2. CASE Read(d)
  <2>1. Stays
    BY <1>2 DEF Read, ReadLocalState, ReadLocalList, ReadCloudState, ReadCloudList, Arrives, Window
  <2> QED
    BY <2>1
<1>3. CASE Decide(d)
  <2>1. Stays
    BY <1>3 DEF Decide, Window
  <2> QED
    BY <2>1
<1>4. CASE Push(d) \/ PushAccepted(d) \/ PushConflicts(d) \/ PushCollides(d) \/ Confirm(d)
  <2>1. Stays
    BY <1>4 DEF Push, PushAccepted, PushConflicts, PushCollides, Confirm, Window
  <2> QED
    BY <2>1
<1>5. CASE PullNew(d) \/ MarkPulled(d) \/ EndPass(d)
  <2>1. Stays
    BY <1>5 DEF PullNew, MarkPulled, EndPass, Window
  <2> QED
    BY <2>1
<1>6. CASE DialogStep(d)
  <2>1. Stays
    BY <1>6 DEF DialogStep, Recreated, ForceLocal, Forced, FinishKeepLocal, KeepLocalRefused
  <2> QED
    BY <2>1
<1>7. CASE KeepCloud(d) \/ KeepLocal(d)
  <2>1. Stays
    BY <1>7 DEF KeepCloud, KeepLocal
  <2> QED
    BY <2>1
<1>8. CASE Fault(d)
  <2>1. lastEdit' = lastEdit /\ faults' = faults + 1
    BY <1>8 DEF Fault, ReadFails, PushLost, ConfirmLost, PullLost, KeepLocalLost, WindowCloses, Window
  <2> QED
    BY <1>8, <2>1
<1> QED
  BY <1>1, <1>2, <1>3, <1>4, <1>5, <1>6, <1>7, <1>8 DEF PassStep

\* No row becomes one that waits for a document, and none is forgotten.
LEMMA WaitingRows ==
  ASSUME SyncTypeOK, LocalTrue, ~EditDuringPass, NEW H, NEW d \in Devices, Before(d, H),
         StartPass(d) \/ PassStep(d) \/ DialogStep(d) \/ KeepCloud(d) \/ KeepLocal(d),
         NEW l \in Unlinked(rows'[d])
  PROVE  /\ l \in Unlinked(rows[d]) /\ rows'[d][l].payload = rows[d][l].payload
         /\ Landed(pass[d], handler[Pusher(d)], l) => Landed(pass'[d], handler'[Pusher(d)], l)
<1> DEFINE p == pass[d]  rs == rows[d]  rt == rows'[d]  push == handler[Pusher(d)]
<1>1. /\ Shape /\ PassTyped(p, Known) /\ PassTrue(p, resolution[d], rs)
      /\ StoredIn(rs) \subseteq LocalIds /\ conflicts[d] \subseteq CardOf(Known)
  BY DeviceFacts
<1>2. ASSUME NEW marks, \A k \in DOMAIN marks : marks[k] \in MarkOf(Known), rt = Marked(rs, marks)
      PROVE  /\ l \in Unlinked(rs) /\ rt[l] = rs[l] /\ l \notin DOMAIN marks
  <2>1. /\ StoredIn(rt) = StoredIn(rs)
        /\ \A k \in LocalIds : k \notin DOMAIN marks => rt[k] = rs[k]
        /\ \A k \in StoredIn(rs) : k \in DOMAIN marks =>
             /\ rt[k].cloudId = marks[k].cloudId /\ Local!Linked(rt[k])
             /\ rt[k].payload = IF marks[k].resolved = NoPayload
                                  THEN rs[k].payload ELSE marks[k].resolved
    BY <1>2, MarkedRows
  <2> QED
    BY <1>1, <2>1 DEF Unlinked
<1>3. ASSUME rt = rs, p.pc \notin {"calling", "marking"}
      PROVE  /\ l \in Unlinked(rs) /\ rt[l].payload = rs[l].payload
             /\ Landed(p, push, l) => Landed(pass'[d], handler'[Pusher(d)], l)
  BY <1>3 DEF Landed
<1>4. CASE StartPass(d) \/ Read(d) \/ Decide(d) \/ Push(d) \/ EndPass(d)
  <2>1. rt = rs
    BY <1>1, <1>4, StartPassDoes, ReadDoes, DecideDoes, PushDoes, EndPassDoes DEF PassAlone, SameStore
  <2>2. p.pc \in {"idle", "reading", "pushing"}
    BY <1>1, <1>4, ReadDoes, DecideDoes, PushDoes, EndPassDoes DEF StartPass, At
  <2> QED
    BY <1>3, <2>1, <2>2
<1>5. CASE DialogStep(d) \/ KeepCloud(d) \/ KeepLocal(d)
  <2>1. p.pc = "idle"
    <3>1. CASE DialogStep(d)
      BY <1>1, <3>1, DialogOthers, DeviceFacts
    <3>2. CASE KeepCloud(d) \/ KeepLocal(d)
      <4>1. MayAct(d)
        BY <3>2 DEF KeepCloud, KeepLocal
      <4> QED
        BY <4>1 DEF MayAct, Quiet, At
    <3> QED
      BY <1>5, <3>1, <3>2
  <2>2. CASE rt = rs
    BY <1>3, <2>1, <2>2
  <2>3. CASE KeepCloud(d)
    <3>1. PICK k \in conflicts[d] :
            rt = Marked(rs, [j \in {k.row} |->
              MarkEntry(k.doc, k.cloud.version, k.cloud.deleted,
                        IF k.cloud.deleted THEN NoPayload ELSE k.cloud.payload)])
      BY <1>1, <2>3, KeepCloudDoes
    <3> DEFINE m == MarkEntry(k.doc, k.cloud.version, k.cloud.deleted,
                              IF k.cloud.deleted THEN NoPayload ELSE k.cloud.payload)
    <3>2. k.cloud \in Doc /\ k.doc \in Known
      BY <1>1 DEF CardOf
    <3>3. (IF k.cloud.deleted THEN NoPayload ELSE k.cloud.payload) \in Payload \cup {NoPayload}
      BY <3>2 DEF Doc
    <3>4. m \in MarkOf(Known)
      BY <3>2, <3>3, MarkEntryOK DEF Doc
    <3>5. l \in Unlinked(rs) /\ rt[l] = rs[l]
      BY <1>2, <3>1, <3>4
    <3> QED
      BY <2>1, <3>5 DEF Landed
  <2>4. CASE FinishKeepLocal(d)
    <3> DEFINE r == resolution[d]  m == MarkEntry(r.doc, r.version, FALSE, NoPayload)
    <3>1. rt = Marked(rs, [j \in {r.card.row} |-> m]) /\ r # NoCall /\ r.stage = "marking"
      BY <1>1, <2>4, FinishKeepLocalDoes
    <3>2. r \in Resolution(Known) /\ r.doc \in Known
      BY <3>1 DEF SyncTypeOK, WindowOK, CallsOK
    <3>3. m \in MarkOf(Known)
      BY <3>2, MarkEntryOK DEF Resolution
    <3>4. l \in Unlinked(rs) /\ rt[l] = rs[l]
      <4> DEFINE marks == [j \in {r.card.row} |-> m]
      <4>1. rt = Marked(rs, marks)
        BY <3>1
      <4>2. \A j \in DOMAIN marks : marks[j] \in MarkOf(Known)
        BY <3>3
      <4> HIDE DEF marks
      <4> QED
        BY <1>2, <4>1, <4>2
    <3> QED
      BY <2>1, <3>4 DEF Landed
  <2>5. CASE Recreated(d) \/ ForceLocal(d) \/ Forced(d) \/ KeepLocalRefused(d) \/ KeepLocal(d)
    <3>1. rt = rs
      BY <1>1, <2>5, RecreatedDoes, ForceLocalDoes, ForcedDoes, KeepLocalEnds, KeepLocalDoes
      DEF DialogAlone, SameStore
    <3> QED
      BY <2>2, <3>1
  <2> QED
    BY <1>5, <2>3, <2>4, <2>5 DEF DialogStep
<1>6. CASE PushAccepted(d) \/ PushConflicts(d) \/ PushCollides(d)
  <2>1. Taken(d)
    BY <1>1, <1>6, PushAcceptedDoes, PushConflictsDoes, PushCollidesDoes
  <2>2. rt = rs /\ p.pc = "calling"
    BY <2>1 DEF Taken, SameStore
  <2>3. /\ PushTrue(rs, p.current) /\ PassDescends(H, docs, p, rs, push)
        /\ push.stage = "replied" => Serves(push, p.current.request, Known)
    BY <1>1, <2>2 DEF PassTrue, UnderWay, Before, DeviceDescends, SyncTypeOK, WindowOK, CallsOK
  <2>4. CASE PushAccepted(d)
    <3>1. PICK m : pass'[d] = AcceptPush(p, m)
      BY <1>1, <2>4, PushAcceptedDoes
    <3>2. pass'[d].pc = "marking" /\ pass'[d].current = p.current
      BY <1>1, <3>1 DEF AcceptPush, PassTyped, NoPass
    <3> QED
      BY <2>2, <3>2 DEF Landed
  <2>5. CASE PushConflicts(d)
    <3>1. push.stage = "replied" /\ push.status = 409
      BY <1>1, <2>5, PushConflictsDoes DEF Answer
    <3>2. Local!Linked(rs[p.current.row])
      BY <2>3, <3>1 DEF Serves, PushTrue
    <3> QED
      BY <2>2, <3>2 DEF Landed, Unlinked
  <2>6. CASE PushCollides(d)
    BY <1>1, <2>3, <2>6, PushCollidesDoes DEF Answer, PassDescends
  <2> QED
    BY <1>6, <2>4, <2>5, <2>6
<1>7. CASE Confirm(d)
  <2>1. rt = Marked(rs, [k \in {p.current.row} |-> p.mark]) /\ p.pc = "marking"
    BY <1>1, <1>7, ConfirmDoes
  <2>2. p.mark \in MarkOf(Known)
    BY <2>1 DEF SyncTypeOK, WindowOK, CallsOK
  <2>3. l \in Unlinked(rs) /\ rt[l] = rs[l] /\ l # p.current.row
    BY <1>2, <2>1, <2>2
  <2> QED
    BY <2>3 DEF Landed
<1>8. CASE MarkPulled(d)
  <2>1. rt = Marked(rs, p.marks) /\ p.pc = "pushing"
    BY <1>1, <1>8, MarkPulledDoes
  <2>2. l \in Unlinked(rs) /\ rt[l] = rs[l]
    BY <1>1, <1>2, <2>1 DEF PassTyped, Partial
  <2> QED
    BY <2>1, <2>2 DEF Landed
<1>9. CASE PullNew(d)
  <2>1. p.pc = "pushing" /\ \A k \in LocalIds : rt[k] = rs[k] \/ \E e \in p.pulls : rt[k] = Local!PulledRow(e)
    BY <1>1, <1>9, PullNewDoes
  <2>2. rt[l] = rs[l]
    <3> SUFFICES ASSUME NEW e \in p.pulls, rt[l] = Local!PulledRow(e) PROVE FALSE
      BY <2>1 DEF Unlinked, StoredIn
    <3>1. e.cloudId # NoDoc
      BY <1>1, KnownAre, SentinelAssumption DEF PassTyped, PullOf
    <3> QED
      BY <3>1 DEF Local!PulledRow, Unlinked, Local!Linked
  <2> QED
    BY <2>1, <2>2 DEF Landed, Unlinked, StoredIn
<1> QED
  BY <1>4, <1>5, <1>6, <1>7, <1>8, <1>9 DEF PassStep

LEMMA OwnStepDescends ==
  ASSUME SyncTypeOK, LocalTrue, ~EditDuringPass, NEW H, Descends(H), NEW d \in Devices,
         StartPass(d) \/ PassStep(d) \/ DialogStep(d) \/ KeepCloud(d) \/ KeepLocal(d) \/ Fault(d)
  PROVE  Descends(H)'
<1>1. /\ OthersStay(d) /\ docs' = docs /\ SyncTypeOK' /\ Known' = Known
  BY PassOthers, DeviceTypes DEF DeviceStep, User, OthersStay
<1>2. /\ History(H) /\ \A e \in Devices : Before(e, H)
  BY DEF Descends, Before
<1>3. lastEdit' = lastEdit /\ (faults' = faults \/ (Fault(d) /\ faults' = faults + 1))
  BY HistoryStays
<1>4. \A i \in Known : About(H, docs[i].payload, i)
  BY <1>2 DEF History
<1>5. After(d, H)
  BY <1>1, <1>2, <1>4, ReadDescends, DecideDescends, PushDescends, AnswerDescends, ConfirmDescends,
     PullNewDescends, MarkPulledDescends, OverDescends, KeepCloudDescends, KeepLocalDescends,
     ResolveDescends, FinishDescends
  DEF PassStep, DialogStep, Fault
<1>6. \A e \in Devices : Before(e, H)'
  BY <1>1, <1>2, <1>5 DEF Before, After, OthersStay, SameStore, SameCalls, SameWindow
<1>7. History(H)'
  BY <1>1, <1>2, <1>3 DEF History
<1>8. ASSUME faults' = 0 PROVE Once(H)'
  <2>1. /\ faults = 0
        /\ StartPass(d) \/ PassStep(d) \/ DialogStep(d) \/ KeepCloud(d) \/ KeepLocal(d)
    BY <1>3, <1>8 DEF SyncTypeOK, Fault, ReadFails, PushLost, ConfirmLost, PullLost,
      KeepLocalLost, WindowCloses
  <2>2. Once(H) /\ \A i \in Known : H.rec[i] \in 1..H.n
    BY <1>2, <2>1 DEF Descends, History
  <2>3. ASSUME NEW e \in Devices, NEW l \in Unlinked(rows'[e]) PROVE Follows(H, H, e, l)
    <3>1. CASE e = d
      BY <1>2, <2>1, <2>3, <3>1, WaitingRows DEF Follows, Version
    <3>2. CASE e # d
      BY <1>1, <2>3, <3>2 DEF Follows, OthersStay, SameStore, SameCalls, SameWindow
    <3> QED
      BY <3>1, <3>2
  <2> QED
    BY <1>1, <2>2, <2>3, OnceAfter
<1> QED
  BY <1>6, <1>7, <1>8 DEF Descends, Before

-----------------------------------------------------------------------------
(* No record is doubled. *)

LEMMA DescentStarts == Init => AllDescends
<1> SUFFICES ASSUME Init PROVE AllDescends
  OBVIOUS
<1> DEFINE H == [own |-> [e \in Edits |-> 0], rec |-> [i \in DocIds |-> 0], n |-> 0]
<1>1. SyncTypeOK
  BY InitTypes
<1>2. /\ lastEdit = 0 /\ \A i \in DocIds : docs[i] = NoDoc
      /\ \A d \in Devices : /\ pass[d] = NoPass /\ conflicts[d] = {} /\ resolution[d] = NoCall
                            /\ handler[Pusher(d)] = Cloud!Idle
                            /\ \A l \in LocalIds : rows[d][l] = NoRow
  <2>1. lastEdit = 0 /\ \A i \in DocIds : docs[i] = NoDoc
    BY SameData DEF Init, Cloud!CloudInit
  <2>2. \A d \in Devices : pass[d] = NoPass /\ conflicts[d] = {} /\ resolution[d] = NoCall
    BY DEF Init
  <2>3. \A d \in Devices : handler[Pusher(d)] = Cloud!Idle
    BY ClientsDiffer DEF Init, Cloud!CloudInit
  <2>4. \A d \in Devices : \A l \in LocalIds : rows[d][l] = NoRow
    BY DEF Init, Local!LocalInit
  <2> QED
    BY <2>1, <2>2, <2>3, <2>4
<1>3. Known = {} /\ \A d \in Devices : StoredIn(rows[d]) = {} /\ Unlinked(rows[d]) = {}
  BY <1>2 DEF Known, Cloud!Exists, StoredIn, Unlinked
<1>4. /\ DOMAIN H = {"own", "rec", "n"} /\ H.n = 0
      /\ H.own \in [Edits -> Nat] /\ H.rec \in [DocIds -> Nat]
  OBVIOUS
<1> HIDE DEF H
<1>5. History(H)
  BY <1>2, <1>3, <1>4 DEF History
<1>6. ASSUME NEW d \in Devices PROVE Before(d, H)
  <2>1. PassDescends(H, docs, pass[d], rows[d], handler[Pusher(d)])
    BY <1>2, <1>6 DEF PassDescends, NoPass, Cloud!Idle
  <2> QED
    BY <1>2, <1>3, <1>6, <2>1 DEF Before, DeviceDescends, DialogDescends
<1>7. Once(H)
  BY <1>3 DEF Once, Single, Apart, WaitsForOne
<1> QED
  BY <1>5, <1>6, <1>7 DEF AllDescends, Descends, Before

LEMMA DescentSteps ==
  ASSUME ~UniqueNames, ~EditDuringPass, ~CreateDropsContent
  PROVE  SyncTypeOK /\ LocalTrue /\ AllDescends /\ [Next]_vars => AllDescends'
<1> SUFFICES ASSUME SyncTypeOK, LocalTrue, AllDescends, [Next]_vars PROVE AllDescends'
  OBVIOUS
<1>1. PICK H : Descends(H)
  BY DEF AllDescends
<1>2. ASSUME UNCHANGED vars PROVE Descends(H)'
  BY <1>1, <1>2
  DEF vars, localVars, cloudVars, Descends, History, Once, Single, Apart, WaitsForOne, Known,
      Cloud!Exists
<1>3. ASSUME NEW d \in Devices, UserCreates(d) \/ UserEdits(d) \/ UserDeletes(d)
      PROVE  \E G : Descends(G)'
  BY <1>1, <1>3, UserDescends
<1>4. ASSUME NEW d \in Devices,
             StartPass(d) \/ PassStep(d) \/ DialogStep(d) \/ KeepCloud(d) \/ KeepLocal(d) \/ Fault(d)
      PROVE  Descends(H)'
  BY <1>1, <1>4, OwnStepDescends
<1>5. ASSUME CloudStep PROVE \E G : Descends(G)'
  BY <1>1, <1>5, CloudDescends
<1>6. \E G : Descends(G)'
  BY <1>2, <1>3, <1>4, <1>5 DEF Next, User
<1> QED
  BY <1>6 DEF AllDescends

LEMMA DescentTells == SyncTypeOK /\ AllDescends => NothingDoubled
<1> SUFFICES ASSUME SyncTypeOK, AllDescends PROVE NothingDoubled
  OBVIOUS
<1>1. PICK H : Descends(H)
  BY DEF AllDescends
<1>2. OneRowPerDocument
  <2> SUFFICES ASSUME NEW d \in Devices, NEW k \in Local!Stored(d), NEW l \in Local!Stored(d),
                      Local!Linked(rows[d][k]), rows[d][k].cloudId = rows[d][l].cloudId
               PROVE  k = l
    BY DEF OneRowPerDocument, Row
  <2>1. k \in StoredIn(rows[d]) /\ l \in StoredIn(rows[d])
    BY DEF Local!Stored, StoredIn
  <2>2. RowDescends(H, rows[d], k)
    BY <1>1, <2>1 DEF Descends, DeviceDescends
  <2> QED
    BY <2>1, <2>2 DEF RowDescends, HeldBy
<1>3. CreatedOnce
  <2> SUFFICES ASSUME faults = 0, NEW i \in DocIds, NEW j \in DocIds, i # j,
                      Cloud!Live(i), Cloud!Live(j),
                      docs[i].payload.edits \cap docs[j].payload.edits # {}
               PROVE  \E k \in DocIds : /\ Cloud!Exists(k) /\ docs[k].deleted
                                        /\ docs[k].payload.edits \cap docs[i].payload.edits # {}
    BY DEF CreatedOnce
  <2>1. i \in Known /\ j \in Known
    BY DEF Cloud!Live, Known
  <2>2. \A k \in Known : Version(H, docs[k].payload, H.rec[k])
    BY <1>1 DEF Descends, History, About
  <2>3. PICK e : e \in docs[i].payload.edits /\ e \in docs[j].payload.edits
    OBVIOUS
  <2>4. H.own[e] = H.rec[i] /\ H.own[e] = H.rec[j]
    BY <2>1, <2>2, <2>3 DEF Version
  <2>5. PICK k \in Known : docs[k].deleted /\ H.rec[k] = H.rec[i]
    BY <1>1, <2>1, <2>4 DEF Descends, Once, Single
  <2>6. H.rec[i] \in docs[k].payload.edits /\ H.rec[i] \in docs[i].payload.edits
    BY <2>1, <2>2, <2>5 DEF Version
  <2> QED
    BY <2>5, <2>6 DEF Known
<1> QED
  BY <1>2, <1>3 DEF NothingDoubled

\* However the passes, dialogs and users of the devices interleave, and whatever
\* calls and windows are lost: a device never holds a cloud document in two rows,
\* and as long as nothing is lost a record is created in the cloud once, unless it
\* was deleted there (pushEntity, localByCloudId, the recreation in
\* resolveKeepLocal).  Names need not be unique here, the create endpoint keeps
\* the content it is sent, and the user does not act during the pass.
THEOREM NothingIsDoubled ==
  ASSUME ~UniqueNames, ~EditDuringPass, ~CreateDropsContent
  PROVE  Spec => []NothingDoubled
<1> DEFINE DescentInv == LocalTrue /\ AllDescends
<1>1. Init => DescentInv
  BY LocalStarts, DescentStarts
<1>2. SyncTypeOK /\ DescentInv /\ [Next]_vars => DescentInv'
  BY LocalSteps, DescentSteps
<1>3. SyncTypeOK /\ DescentInv => NothingDoubled
  BY DescentTells
<1> HIDE DEF DescentInv
<1> QED
  BY <1>1, <1>2, <1>3, SyncTypeCorrect, PTL DEF Spec

-----------------------------------------------------------------------------
(* No row is left behind: what a pass foresees of the names. *)

LEMMA LeastOf == ASSUME NEW S \in SUBSET Nat, S # {} PROVE \E i \in S : \A j \in S : i <= j
<1> DEFINE R == OpToRel(<, Nat)
<1>1. IsWellFoundedOn(R, Nat)
  BY NatLessThanWellFounded
<1>2. \A x, y \in Nat : <<x, y>> \in R <=> x < y
  BY DEF OpToRel
<1> HIDE DEF R
<1>3. PICK i \in S : \A j \in S : <<j, i>> \notin R
  BY <1>1, WFMin
<1>4. \A j \in S : i \in Nat /\ j \in Nat /\ ~(j < i)
  BY <1>2, <1>3
<1>5. \A j \in S : i <= j
  BY <1>4
<1> QED
  BY <1>5

\* A create has no card at hand only if nothing in the list has its name.
LEMMA NoNamesake ==
  ASSUME NEW l, NEW p, NEW cl, DOMAIN cl \subseteq Nat, Namesake(l, p, cl) = {}
  PROVE  \A i \in DOMAIN cl : cl[i].payload.name # p.name
<1> DEFINE same == {i \in DOMAIN cl : cl[i].payload.name = p.name}
<1>1. ASSUME same # {} PROVE FALSE
  <2>1. PICK i \in same : \A j \in same : i <= j
    BY <1>1, LeastOf
  <2>2. Conflict(l, p, i, cl[i]) \in Namesake(l, p, cl)
    BY <2>1 DEF Namesake
  <2> QED
    BY <2>2
<1> QED
  BY <1>1

\* The list is long enough for all documents.
LEMMA ListIsWhole ==
  ASSUME MaxDocs <= ListLimit, SyncTypeOK, NEW d \in Devices, ReadCloudList(d)
  PROVE  \E S \in SUBSET Known :
           /\ pass'[d] = [pass[d] EXCEPT !.cloudList = [i \in S |-> docs[i]]]
           /\ \A i \in Known : docs[i].deleted \/ i \in S
<1> DEFINE live == {i \in DocIds : Cloud!Live(i)}
           S == {i \in live : Cardinality({j \in live : j < i}) < ListLimit}
<1>1. ASSUME NEW i \in live PROVE Cardinality({j \in live : j < i}) < ListLimit
  <2>1. /\ i \in 1..MaxDocs /\ MaxDocs \in Nat /\ ListLimit \in Nat
        /\ {j \in live : j < i} \subseteq 1..(i - 1)
    BY BoundsAssumption, EngineAssumption DEF DocIds
  <2>2. IsFiniteSet(1..(i - 1)) /\ Cardinality(1..(i - 1)) = i - 1
    BY <2>1, FS_Interval
  <2>3. /\ Cardinality({j \in live : j < i}) <= i - 1
        /\ Cardinality({j \in live : j < i}) \in Nat
    <3> HIDE DEF live
    <3> QED
      BY <2>1, <2>2, FS_Subset, FS_CardinalityType
  <2> HIDE DEF live
  <2> QED
    BY <2>1, <2>3
<1>2. S = live /\ live \in SUBSET Known /\ \A i \in Known : docs[i].deleted \/ i \in live
  BY <1>1 DEF Known, Cloud!Live
<1>3. pass' = [pass EXCEPT ![d]["cloudList"] = Restrict(docs, S)]
  BY DEF ReadCloudList, Arrives
<1>4. Restrict(docs, S) = [i \in S |-> docs[i]]
  BY DEF Restrict
<1> HIDE DEF S, live
<1> QED
  BY <1>2, <1>3, <1>4 DEF SyncTypeOK, Shape

LEMMA IdleMissesNothing == \A D, known, push, rs : NoneMissed(D, known, NoPass, push, rs)
BY DEF NoneMissed, NoPass

\* Between two steps of the loop over the rows, while the documents stay.
LEMMA LoopMisses ==
  ASSUME NEW D, NEW known, NEW p, NEW n, NEW push, NEW reply, NEW rs, NEW rt,
         NoneMissed(D, known, p, push, rs),
         p.pc \in {"pushing", "calling", "marking"}, n.pc \in {"pushing", "calling", "marking"},
         n.pushes \subseteq p.pushes,
         n.pc = "calling" => n.current \in p.pushes /\ reply.stage # "replied",
         n.pc = "marking" /\ n.current.request.op # "create" =>
           n.mark.cloudId = n.current.request.doc,
         \A i \in known : ShownDoc(D, p, push, rs, i) => ShownDoc(D, n, reply, rt, i),
         \A l \in StoredIn(rt) : ~Local!Linked(rt[l]) => l \in StoredIn(rs) /\ rt[l] = rs[l],
         \A l \in StoredIn(rt) : ~Local!Linked(rt[l]) /\ ~rt[l].deleted /\ Kept(p, rs, l) =>
           Kept(n, rt, l) \/ Blocked(D, known, p, push, rs, l)
  PROVE  NoneMissed(D, known, n, reply, rt)
<1>1. \A l \in StoredIn(rt) : ~Local!Linked(rt[l]) /\ Blocked(D, known, p, push, rs, l) =>
        Blocked(D, known, n, reply, rt, l)
  BY DEF Blocked
<1>2. \A q \in p.pushes : Foreseen(D, known, p, push, rs, q) /\ Foreseen(D, known, n, reply, rt, q)
  BY DEF NoneMissed, Foreseen
<1>3. \A l \in StoredIn(rt) : ~Local!Linked(rt[l]) /\ ~rt[l].deleted =>
        Kept(n, rt, l) \/ Blocked(D, known, n, reply, rt, l)
  BY <1>1 DEF NoneMissed
<1> QED
  BY <1>2, <1>3 DEF NoneMissed

\* A document stays shown while its row stays as it is.
LEMMA StaysShown ==
  ASSUME NEW D, NEW p, NEW n, NEW push, NEW reply, NEW rs, NEW rt, NEW i,
         ShownDoc(D, p, push, rs, i),
         n.pushes \cup UnderWay(n) \subseteq p.pushes \cup UnderWay(p),
         \A k \in LocalIds : ShowsDoc(D, p, push, rs, k, i) =>
           /\ k \in StoredIn(rt) /\ k \notin DOMAIN n.marks /\ ~rt[k].deleted
           /\ \/ rt[k].cloudId = i
              \/ /\ n.pc = "calling" /\ n.current.row = k
                 /\ reply.stage = "replied" /\ reply.status = 200 /\ reply.doc = i
              \/ n.pc = "marking" /\ n.current.row = k /\ n.mark.cloudId = i
  PROVE  ShownDoc(D, n, reply, rt, i)
<1>1. PICK k \in LocalIds : ShowsDoc(D, p, push, rs, k, i)
  BY DEF ShownDoc
<1>2. Outdated(D, n, i)
  BY <1>1 DEF ShowsDoc, Outdated
<1> QED
  BY <1>1, <1>2 DEF ShownDoc, ShowsDoc

\* Once a call is over: its row is linked, on a card, or blocked.
LEMMA NextMisses ==
  ASSUME NEW D, NEW known, NEW T, NEW p, PassTyped(p, T), NEW push, NEW reply, NEW rs, NEW rt,
         NoneMissed(D, known, p, push, rs), p.pc \in {"calling", "marking"},
         p.current.row \in StoredIn(rs),
         NEW found, p.found \subseteq found,
         \A l \in LocalIds \ {p.current.row} : rt[l] = rs[l],
         p.pc = "calling" => rt = rs /\ ~(push.stage = "replied" /\ push.status = 200),
         p.pc = "marking" => /\ rt[p.current.row] # NoRow /\ Local!Linked(rt[p.current.row])
                             /\ rt[p.current.row].cloudId = p.mark.cloudId
                             /\ rt[p.current.row].deleted = rs[p.current.row].deleted
                             /\ Local!Linked(rs[p.current.row]) =>
                                  p.mark.cloudId = rs[p.current.row].cloudId,
         NoDoc \notin known,
         \/ \E k \in found : k.row = p.current.row
         \/ Local!Linked(rt[p.current.row])
         \/ Blocked(D, known, p, push, rs, p.current.row)
  PROVE  NoneMissed(D, known, NextPush(p, found), reply, rt)
<1> DEFINE n == NextPush(p, found)
           c == p.current
<1>1. /\ n.pc = "pushing" /\ n.pushes = p.pushes /\ n.found = found /\ n.marks = p.marks
      /\ UnderWay(n) = {} /\ UnderWay(p) = {c}
  BY DEF NextPush, PassTyped, NoPass, UnderWay
<1> HIDE DEF n
<1>2. \A l \in StoredIn(rt) : l # c.row => l \in StoredIn(rs) /\ rt[l] = rs[l]
  BY DEF StoredIn
<1>3. ASSUME NEW i \in known, ShownDoc(D, p, push, rs, i) PROVE ShownDoc(D, n, reply, rt, i)
  <2>1. ASSUME NEW k \in LocalIds, ShowsDoc(D, p, push, rs, k, i)
        PROVE  k \in StoredIn(rt) /\ k \notin DOMAIN n.marks /\ ~rt[k].deleted /\ rt[k].cloudId = i
    <3>1. k \in StoredIn(rs) /\ k \notin DOMAIN p.marks /\ ~rs[k].deleted
      BY <2>1 DEF ShowsDoc
    <3>2. CASE k # c.row
      BY <1>1, <2>1, <3>1, <3>2 DEF ShowsDoc, StoredIn
    <3>3. CASE k = c.row /\ p.pc = "calling"
      BY <1>1, <2>1, <3>1, <3>3 DEF ShowsDoc
    <3>4. CASE k = c.row /\ p.pc = "marking"
      <4>1. p.mark.cloudId = i
        BY <1>3, <2>1, <3>4 DEF ShowsDoc, Local!Linked
      <4> QED
        BY <1>1, <3>1, <3>4, <4>1 DEF StoredIn
    <3> QED
      BY <3>2, <3>3, <3>4
  <2> QED
    BY <1>1, <1>3, <2>1, StaysShown
<1>4. ASSUME NEW l \in StoredIn(rt), ~Local!Linked(rt[l]), Kept(p, rs, l)
      PROVE  Kept(n, rt, l) \/ Blocked(D, known, p, push, rs, l)
  <2>1. CASE l = c.row
    BY <1>1, <1>4, <2>1 DEF Kept
  <2>2. CASE l # c.row
    BY <1>1, <1>4, <2>2 DEF Kept
  <2> QED
    BY <2>1, <2>2
<1>5. \A l \in StoredIn(rt) : ~Local!Linked(rt[l]) => l \in StoredIn(rs) /\ rt[l] = rs[l]
  BY <1>2
<1>6. NoneMissed(D, known, n, reply, rt)
  BY <1>1, <1>3, <1>4, <1>5, LoopMisses
<1> QED
  BY <1>6 DEF n

\* Every new row that is visible is pushed, and its card is at hand if the cloud
\* has a document of its name already.
LEMMA DecidedMisses ==
  ASSUME NEW D, NEW known \in SUBSET DocIds, NEW p, PassTyped(p, known), NEW rs, NEW push,
         p.pc = "reading", NoneMissed(D, known, p, push, rs), PassTrue(p, NoCall, rs),
         \A i \in DOMAIN p.cloudList : p.cloudList[i] = D[i],
         NotRead \notin {p.localState, p.localList, p.cloudState, p.cloudList}, NEW f, NEW reply
  PROVE  NoneMissed(D, known, Decided(p, f), reply, rs)
<1> DEFINE ls == p.localState
           ll == p.localList
           cs == p.cloudState
           cl == p.cloudList
           n  == Decided(p, f)
<1>1. /\ ls = StateOf(rs) /\ ll = ListOf(rs)
      /\ DOMAIN cl \subseteq known /\ \A i \in known : D[i].deleted \/ i \in DOMAIN cl
  BY DEF PassTrue, PassTyped, Partial, NoneMissed
<1>2. n.pc = "pushing" /\ n.pushes = Pushes(ls, ll, cs, cl)
  BY DEF Decided, NoPass
<1> HIDE DEF n
<1>3. ASSUME NEW l \in StoredIn(rs), ~Local!Linked(rs[l]), ~rs[l].deleted PROVE Kept(n, rs, l)
  <2>1. /\ l \in DOMAIN ls /\ l \in DOMAIN ll /\ ls[l].cloudId = NoDoc /\ ~ls[l].deleted
    BY <1>1, <1>3 DEF StateOf, ListOf, Local!Linked
  <2> HIDE DEF ls, ll, cs, cl
  <2> DEFINE q == PushOf(l, ll[l], [op |-> "create", payload |-> ll[l]], Namesake(l, ll[l], cl))
  <2>2. q \in Creates(ls, ll, cl) /\ q.row = l
    BY <2>1 DEF Creates, PushOf
  <2> QED
    BY <1>2, <2>2 DEF Pushes, Kept
<1>4. ASSUME NEW q \in n.pushes PROVE Foreseen(D, known, n, reply, rs, q)
  <2> SUFFICES ASSUME q.request.op = "create", q.collision = {}, NEW i \in known,
                      ~D[i].deleted, D[i].payload.name = q.request.payload.name
               PROVE  FALSE
    BY DEF Foreseen
  <2>1. q \in Creates(ls, ll, cl)
    BY <1>2 DEF Pushes, Deletes, Updates, PushOf
  <2>2. PICK l \in DOMAIN ls :
          q = PushOf(l, ll[l], [op |-> "create", payload |-> ll[l]], Namesake(l, ll[l], cl))
    BY <2>1 DEF Creates
  <2>3. Namesake(l, ll[l], cl) = {} /\ q.request.payload = ll[l]
    BY <2>2 DEF PushOf
  <2>4. i \in DOMAIN cl /\ cl[i] = D[i]
    BY <1>1
  <2>6. DOMAIN cl \subseteq Nat
    <3>1. known \subseteq Nat
      BY BoundsAssumption DEF DocIds
    <3> QED
      BY <1>1, <3>1
  <2> HIDE DEF cl, ll, ls, cs
  <2>5. cl[i].payload.name # ll[l].name
    BY <2>3, <2>4, <2>6, NoNamesake
  <2> QED
    BY <2>3, <2>4, <2>5
<1>5. NoneMissed(D, known, n, reply, rs)
  BY <1>2, <1>3, <1>4 DEF NoneMissed
<1> QED
  BY <1>5 DEF n

\* What is at hand of a device's window.
LEMMA AtHand ==
  ASSUME SyncTypeOK, LocalTrue, NEW d \in Devices
  PROVE  /\ Shape /\ Known \in SUBSET DocIds /\ NoDoc \notin Known
         /\ PassTyped(pass[d], Known) /\ PassTrue(pass[d], resolution[d], rows[d])
         /\ StoreOK(rows[d], issued[d], Known)
         /\ CallsOK(pass[d], resolution[d], handler[Pusher(d)], handler[Dialog(d)], Known)
BY KnownAre, SentinelAssumption DEF SyncTypeOK, WindowOK, LocalTrue

LEMMA ReadMisses ==
  ASSUME MaxDocs <= ListLimit, SyncTypeOK, LocalTrue, NEW d \in Devices,
         StartPass(d) \/ Read(d),
         NoneMissed(docs, Known, pass[d], handler[Pusher(d)], rows[d])
  PROVE  NoneMissed(docs, Known, pass'[d], handler'[Pusher(d)], rows'[d])
<1> DEFINE p == pass[d]
           n == pass'[d]
<1>1. Shape /\ PassTyped(p, Known) /\ PassTrue(p, resolution[d], rows[d])
  BY AtHand
<1>2. CASE StartPass(d)
  <2>1. p.pc = "idle"
    BY <1>2 DEF StartPass, At
  <2>2. n = [NoPass EXCEPT !.pc = "reading"]
    BY <1>1, <1>2, <2>1, StartPassDoes DEF PassTrue
  <2> QED
    BY <2>2 DEF NoneMissed, NoPass
<1>3. CASE Read(d)
  <2>1. p.pc = "reading" /\ p.pushes = {}
    BY <1>1, <1>3, ReadDoes DEF PassTrue
  <2>2. /\ n.pc = "reading" /\ n.pushes = {}
        /\ \/ n.cloudList = p.cloudList
           \/ \A i \in Known : docs[i].deleted \/ i \in DOMAIN n.cloudList
    <3>1. CASE ReadLocalState(d)
      BY <1>1, <2>1, <3>1 DEF ReadLocalState, Arrives, PassTyped, NoPass, Shape
    <3>2. CASE ReadLocalList(d)
      BY <1>1, <2>1, <3>2 DEF ReadLocalList, Arrives, PassTyped, NoPass, Shape
    <3>3. CASE ReadCloudState(d)
      BY <1>1, <2>1, <3>3 DEF ReadCloudState, Arrives, PassTyped, NoPass, Shape
    <3>4. CASE ReadCloudList(d)
      <4>1. PICK S \in SUBSET Known : /\ n = [p EXCEPT !.cloudList = [i \in S |-> docs[i]]]
                                      /\ \A i \in Known : docs[i].deleted \/ i \in S
        BY <3>4, ListIsWhole
      <4>2. /\ n.pc = "reading" /\ n.pushes = {} /\ n.cloudList = [i \in S |-> docs[i]]
        BY <1>1, <2>1, <4>1 DEF PassTyped, NoPass
      <4>3. DOMAIN n.cloudList = S
        BY <4>2
      <4> QED
        BY <4>1, <4>2, <4>3
    <3> QED
      BY <1>3, <3>1, <3>2, <3>3, <3>4 DEF Read
  <2> HIDE DEF n
  <2>3. NoneMissed(docs, Known, n, handler'[Pusher(d)], rows'[d])
    BY <2>1, <2>2 DEF NoneMissed
  <2> QED
    BY <2>3 DEF n
<1> QED
  BY <1>2, <1>3

LEMMA DecideMisses ==
  ASSUME SyncTypeOK, LocalTrue, CloudTrue, NEW d \in Devices, Decide(d),
         NoneMissed(docs, Known, pass[d], handler[Pusher(d)], rows[d])
  PROVE  NoneMissed(docs, Known, pass'[d], handler'[Pusher(d)], rows'[d])
<1> DEFINE p == pass[d]
<1>1. /\ Shape /\ PassTyped(p, Known) /\ PassTrue(p, resolution[d], rows[d])
      /\ Known \in SUBSET DocIds
  BY AtHand
<1>2. /\ p.pc = "reading" /\ rows'[d] = rows[d]
      /\ NotRead \notin {p.localState, p.localList, p.cloudState, p.cloudList}
  BY <1>1, DecideDoes DEF PassAlone, SameStore
<1>3. PICK f : pass'[d] = Decided(p, f)
  BY <1>1, DecideDoes
<1>4. PassTrue(p, NoCall, rows[d])
  BY <1>1, <1>2 DEF PassTrue
<1>5. \A i \in DOMAIN p.cloudList : p.cloudList[i] = docs[i]
  BY <1>2 DEF CloudTrue, SeenTrue
<1> HIDE DEF p
<1>6. NoneMissed(docs, Known, Decided(p, f), handler'[Pusher(d)], rows[d])
  BY <1>1, <1>2, <1>4, <1>5, DecidedMisses DEF p
<1> QED
  BY <1>2, <1>3, <1>6

LEMMA PushMisses ==
  ASSUME SyncTypeOK, LocalTrue, NEW d \in Devices, Push(d),
         NoneMissed(docs, Known, pass[d], handler[Pusher(d)], rows[d])
  PROVE  NoneMissed(docs, Known, pass'[d], handler'[Pusher(d)], rows'[d])
<1> DEFINE p == pass[d]
           n == pass'[d]
           rs == rows[d]
           push == handler[Pusher(d)]
           reply == handler'[Pusher(d)]
<1>1. Shape /\ PassTyped(p, Known) /\ NoneMissed(docs, Known, p, push, rs)
  BY AtHand
<1>2. PICK q \in p.pushes : reply = Cloud!Received(q.request) /\ n = StartPush(p, q)
  BY <1>1, PushDoes
<1>3. /\ n.pc = "calling" /\ n.current = q /\ n.pushes = p.pushes \ {q} /\ n.found = p.found
      /\ n.marks = p.marks /\ p.pc = "pushing" /\ rows'[d] = rs /\ reply.stage = "received"
  <2>1. p.pc = "pushing" /\ rows'[d] = rs
    BY <1>1, PushDoes DEF SameStore
  <2>2. reply.stage = "received"
    BY <1>2 DEF Cloud!Received
  <2> HIDE DEF reply, rs
  <2> QED
    BY <1>1, <1>2, <2>1, <2>2 DEF StartPush, PassTyped, NoPass
<1> HIDE DEF n, reply, p, push, rs
<1>4. n.pushes \cup UnderWay(n) \subseteq p.pushes \cup UnderWay(p)
  BY <1>3 DEF UnderWay
<1>5. ASSUME NEW i \in Known, ShownDoc(docs, p, push, rs, i) PROVE ShownDoc(docs, n, reply, rs, i)
  <2>1. \A k \in LocalIds : ShowsDoc(docs, p, push, rs, k, i) =>
          k \in StoredIn(rs) /\ k \notin DOMAIN n.marks /\ ~rs[k].deleted /\ rs[k].cloudId = i
    BY <1>3 DEF ShowsDoc
  <2> QED
    BY <1>4, <1>5, <2>1, StaysShown
<1>6. \A l : Kept(p, rs, l) => Kept(n, rs, l)
  BY <1>3 DEF Kept, UnderWay
<1>7. NoneMissed(docs, Known, n, reply, rs)
  BY <1>1, <1>3, <1>5, <1>6, LoopMisses
<1> QED
  BY <1>3, <1>7 DEF n, reply, rs

LEMMA AnswerMisses ==
  ASSUME SyncTypeOK, LocalTrue, CloudTrue, NEW d \in Devices,
         PushAccepted(d) \/ PushConflicts(d) \/ PushCollides(d),
         NoneMissed(docs, Known, pass[d], handler[Pusher(d)], rows[d])
  PROVE  NoneMissed(docs, Known, pass'[d], handler'[Pusher(d)], rows'[d])
<1> DEFINE p == pass[d]
           n == pass'[d]
           c == p.current
           rs == rows[d]
           push == handler[Pusher(d)]
           reply == handler'[Pusher(d)]
<1>1. /\ Shape /\ PassTyped(p, Known) /\ NoneMissed(docs, Known, p, push, rs)
      /\ PassTrue(p, resolution[d], rs) /\ NoDoc \notin Known
      /\ CallsOK(p, resolution[d], push, handler[Dialog(d)], Known)
  BY AtHand
<1>2. Taken(d)
  BY <1>1, PushAcceptedDoes, PushConflictsDoes, PushCollidesDoes, ZenonT(60)
<1>3. /\ p.pc = "calling" /\ rows'[d] = rs /\ c \in PushCall(Known) /\ PushTrue(rs, c)
      /\ c.row \in StoredIn(rs)
  BY <1>1, <1>2 DEF Taken, SameStore, CallsOK, PassTrue, UnderWay, PushTrue, ToPush
<1>4. CASE PushAccepted(d)
  <2> DEFINE m == MarkEntry(push.doc, push.result.version, c.request.op = "delete", NoPayload)
  <2>1. n = AcceptPush(p, m) /\ push.stage = "replied" /\ push.status = 200
    BY <1>1, <1>4, PushAcceptedDoes DEF Answer
  <2>2. m.cloudId = push.doc
    BY DEF MarkEntry
  <2>3. c.request.op # "create" => push.doc = c.request.doc
    BY <2>1 DEF CloudTrue, CallsTrue, ServedTrue
  <2> HIDE DEF m
  <2>4. /\ n.pc = "marking" /\ n.current = c /\ n.pushes = p.pushes /\ n.found = p.found
        /\ n.marks = p.marks /\ n.mark = m
    BY <1>1, <2>1 DEF AcceptPush, PassTyped, NoPass
  <2> HIDE DEF n, reply, p, push, rs, c
  <2>5. n.pushes \cup UnderWay(n) \subseteq p.pushes \cup UnderWay(p)
    BY <1>3, <2>4 DEF UnderWay, c
  <2>6. ASSUME NEW i \in Known, ShownDoc(docs, p, push, rs, i) PROVE ShownDoc(docs, n, reply, rs, i)
    <3>1. \A k \in LocalIds : ShowsDoc(docs, p, push, rs, k, i) =>
            /\ k \in StoredIn(rs) /\ k \notin DOMAIN n.marks /\ ~rs[k].deleted
            /\ rs[k].cloudId = i \/ (n.pc = "marking" /\ n.current.row = k /\ n.mark.cloudId = i)
      BY <1>3, <2>2, <2>4 DEF ShowsDoc, c
    <3> QED
      BY <2>5, <2>6, <3>1, StaysShown
  <2>7. \A l : Kept(p, rs, l) => Kept(n, rs, l)
    BY <1>3, <2>4 DEF Kept, UnderWay, c
  <2>8. NoneMissed(docs, Known, n, reply, rs)
    BY <1>1, <1>3, <2>2, <2>3, <2>4, <2>6, <2>7, LoopMisses
  <2> QED
    BY <1>3, <2>8 DEF n, reply, rs
<1>5. CASE PushConflicts(d)
  <2> DEFINE k == Conflict(c.row, c.local, Answer(d).doc, Answer(d).result)
  <2>1. /\ n = NextPush(p, p.found \cup {k}) /\ k.row = c.row
        /\ push.status = 409
    BY <1>1, <1>5, PushConflictsDoes DEF Conflict, Answer
  <2> HIDE DEF k, n, reply, p, push, rs
  <2>2. NoneMissed(docs, Known, NextPush(p, p.found \cup {k}), reply, rs)
    BY <1>1, <1>3, <2>1, NextMisses
  <2> QED
    BY <1>3, <2>1, <2>2 DEF n, reply, rs
<1>6. CASE PushCollides(d)
  <2>1. /\ n = NextPush(p, p.found \cup c.collision)
        /\ push.stage = "replied" /\ push.status = 400
    BY <1>1, <1>6, PushCollidesDoes DEF Answer
  <2>2. \A k \in c.collision : k.row = c.row
    BY <1>3 DEF PushTrue
  <2> HIDE DEF n, reply, p, push, rs, c
  <2>3. c.collision = {} => Blocked(docs, Known, p, push, rs, c.row)
    BY <1>1, <1>3, <2>1 DEF NoneMissed, c
  <2>4. (\E k \in p.found \cup c.collision : k.row = c.row) \/ Blocked(docs, Known, p, push, rs, c.row)
    BY <2>2, <2>3
  <2>5. NoneMissed(docs, Known, NextPush(p, p.found \cup c.collision), reply, rs)
    BY <1>1, <1>3, <2>1, <2>4, NextMisses DEF c
  <2> QED
    BY <1>3, <2>1, <2>5 DEF n, reply, rs
<1> QED
  BY <1>4, <1>5, <1>6

\* mark-synced takes no row away.
LEMMA MarkedStored ==
  ASSUME NEW D \in SUBSET DocIds, NEW row \in RowType, NEW m \in MarkOf(D)
  PROVE  Local!SyncedRow(row, m) # NoRow
<1>1. Local!SyncedRow(row, m) \in RowType
  BY DEF RowType, MarkOf, Local!SyncedRow
<1> QED
  BY <1>1, SameData, NoCallAssumption

LEMMA ConfirmMisses ==
  ASSUME SyncTypeOK, LocalTrue, NEW d \in Devices, Confirm(d),
         NoneMissed(docs, Known, pass[d], handler[Pusher(d)], rows[d])
  PROVE  NoneMissed(docs, Known, pass'[d], handler'[Pusher(d)], rows'[d])
<1> DEFINE p == pass[d]
           n == pass'[d]
           c == p.current
           rs == rows[d]
           rt == rows'[d]
           push == handler[Pusher(d)]
           reply == handler'[Pusher(d)]
           marks == [l \in {c.row} |-> p.mark]
<1>1. /\ Shape /\ PassTyped(p, Known) /\ NoneMissed(docs, Known, p, push, rs)
      /\ PassTrue(p, resolution[d], rs) /\ NoDoc \notin Known
      /\ CallsOK(p, resolution[d], push, handler[Dialog(d)], Known)
  BY AtHand
<1>2. p.pc = "marking" /\ n = NextPush(p, p.found) /\ rt = Marked(rs, marks)
  BY <1>1, ConfirmDoes
<1>3. /\ p.mark \in MarkOf(Known) /\ PushTrue(rs, c) /\ c.row \in StoredIn(rs)
      /\ DOMAIN marks = {c.row} /\ marks[c.row] = p.mark
      /\ p.mark.deleted = rs[c.row].deleted
  BY <1>1, <1>2 DEF CallsOK, PassTrue, PushTrue, ToPush, UnderWay
<1>4. Local!Linked(rs[c.row]) => p.mark.cloudId = rs[c.row].cloudId
  BY <1>1, <1>2, <1>3 DEF NoneMissed, PushTrue
<1> HIDE DEF marks, n, reply, p, push, rs, c, rt
<1>5. \A l \in LocalIds \ {c.row} : rt[l] = rs[l]
  BY <1>2, <1>3 DEF Marked
<1>6. rt[c.row] = Local!SyncedRow(rs[c.row], p.mark)
  BY <1>2, <1>3 DEF Marked, StoredIn
<1>7. /\ rt[c.row].cloudId = p.mark.cloudId /\ rt[c.row].deleted = rs[c.row].deleted
      /\ Local!Linked(rt[c.row])
  BY <1>1, <1>3, <1>6 DEF Local!SyncedRow, Local!Linked, MarkOf
<1>8. rt[c.row] # NoRow
  <2>1. Known \in SUBSET DocIds /\ rs[c.row] \in RowType
    BY <1>3, AtHand, SameData DEF StoreOK, StoredIn, rs
  <2> QED
    BY <1>3, <1>6, <2>1, MarkedStored
<1>9. NoneMissed(docs, Known, NextPush(p, p.found), reply, rt)
  BY <1>1, <1>2, <1>3, <1>4, <1>5, <1>7, <1>8, NextMisses DEF c
<1> QED
  BY <1>2, <1>9 DEF n, reply, rt

\* Pulled rows are linked, and mark-synced links the rows it writes.
LEMMA PulledLinked ==
  ASSUME SyncTypeOK, NEW d \in Devices, PullNew(d) \/ MarkPulled(d)
  PROVE  /\ \A l \in StoredIn(rows'[d]) : ~Local!Linked(rows'[d][l]) =>
              l \in StoredIn(rows[d]) /\ rows'[d][l] = rows[d][l]
         /\ \A k \in StoredIn(rows[d]) \ DOMAIN pass[d].marks : rows'[d][k] = rows[d][k]
<1>1. /\ Shape /\ PassTyped(pass[d], Known) /\ StoreOK(rows[d], issued[d], Known)
      /\ NoDoc \notin Known
  BY KnownAre, SentinelAssumption DEF SyncTypeOK, WindowOK
<1>2. CASE PullNew(d)
  <2>1. \A e \in pass[d].pulls : Local!Linked(Local!PulledRow(e))
    BY <1>1 DEF PassTyped, PullOf, Local!PulledRow, Local!Linked
  <2>2. \A l \in LocalIds :
          \/ rows'[d][l] = rows[d][l]
          \/ /\ l \notin issued[d]
             /\ \E e \in pass[d].pulls : rows'[d][l] = Local!PulledRow(e)
    BY <1>1, <1>2, PullNewDoes
  <2>3. \A l \in StoredIn(rows[d]) : l \in LocalIds /\ l \in issued[d]
    BY <1>1 DEF StoreOK, StoredIn
  <2> QED
    BY <2>1, <2>2, <2>3 DEF StoredIn
<1>3. CASE MarkPulled(d)
  <2>1. rows'[d] = Marked(rows[d], pass[d].marks)
    BY <1>1, <1>3, MarkPulledDoes
  <2>2. \A l \in DOMAIN pass[d].marks : \A row :
          Local!Linked(Local!SyncedRow(row, pass[d].marks[l]))
    BY <1>1 DEF PassTyped, Partial, MarkOf, Local!SyncedRow, Local!Linked
  <2> QED
    BY <2>1, <2>2 DEF Marked, StoredIn
<1> QED
  BY <1>2, <1>3

LEMMA PullMisses ==
  ASSUME SyncTypeOK, LocalTrue, NEW d \in Devices, PullNew(d) \/ MarkPulled(d),
         NoneMissed(docs, Known, pass[d], handler[Pusher(d)], rows[d])
  PROVE  NoneMissed(docs, Known, pass'[d], handler'[Pusher(d)], rows'[d])
<1> DEFINE p == pass[d]
           n == pass'[d]
           rs == rows[d]
           rt == rows'[d]
           push == handler[Pusher(d)]
           reply == handler'[Pusher(d)]
<1>1. Shape /\ PassTyped(p, Known) /\ NoneMissed(docs, Known, p, push, rs)
  BY AtHand
<1>2. p.pc = "pushing" /\ p.pushes = {}
      /\ (n = [p EXCEPT !.pulls = {}] \/ n = [p EXCEPT !.marks = <<>>])
  BY <1>1, PullNewDoes, MarkPulledDoes
<1>3. /\ n.pc = "pushing" /\ n.pushes = {} /\ n.found = p.found
      /\ DOMAIN n.marks \subseteq DOMAIN p.marks
  BY <1>1, <1>2 DEF PassTyped, NoPass
<1>4. /\ \A l \in StoredIn(rt) : ~Local!Linked(rt[l]) => l \in StoredIn(rs) /\ rt[l] = rs[l]
      /\ \A k \in StoredIn(rs) \ DOMAIN p.marks : rt[k] = rs[k]
  BY PulledLinked
<1> HIDE DEF n, reply, p, push, rs, rt
<1>5. n.pushes \cup UnderWay(n) \subseteq p.pushes \cup UnderWay(p)
  BY <1>3 DEF UnderWay
<1>6. ASSUME NEW i \in Known, ShownDoc(docs, p, push, rs, i) PROVE ShownDoc(docs, n, reply, rt, i)
  <2>1. \A k \in LocalIds : ShowsDoc(docs, p, push, rs, k, i) =>
          k \in StoredIn(rt) /\ k \notin DOMAIN n.marks /\ ~rt[k].deleted /\ rt[k].cloudId = i
    BY <1>2, <1>3, <1>4 DEF ShowsDoc, StoredIn
  <2> QED
    BY <1>5, <1>6, <2>1, StaysShown
<1>7. \A l : Kept(p, rs, l) => Kept(n, rt, l)
  BY <1>2, <1>3 DEF Kept, UnderWay
<1>8. NoneMissed(docs, Known, n, reply, rt)
  BY <1>1, <1>2, <1>3, <1>4, <1>6, <1>7, LoopMisses
<1> QED
  BY <1>8 DEF n, reply, rt

LEMMA PassMisses ==
  ASSUME OneAtATime, MaxDocs <= ListLimit, SyncTypeOK, LocalTrue, CloudTrue,
         NEW d \in Devices, DeviceStep(d), ~Fault(d),
         NoneMissed(docs, Known, pass[d], handler[Pusher(d)], rows[d])
  PROVE  NoneMissed(docs, Known, pass'[d], handler'[Pusher(d)], rows'[d])
<1>1. Shape /\ PassTrue(pass[d], resolution[d], rows[d])
  BY AtHand
<1>2. CASE EndPass(d)
  BY <1>1, <1>2, EndPassDoes, IdleMissesNothing
<1>3. CASE DialogStep(d)
  <2>1. pass'[d] = pass[d] /\ resolution[d] # NoCall
    BY <1>1, <1>3, DialogOthers
  <2> QED
    BY <1>1, <2>1, IdleMissesNothing DEF PassTrue
<1>4. CASE User(d)
  <2>1. pass'[d] = pass[d] /\ MayAct(d)
    BY <1>1, <1>4, UserActsDo, KeepCloudDoes, KeepLocalDoes DEF User, SameWindow
  <2> QED
    BY <1>1, <2>1, IdleMissesNothing DEF OneAtATime, MayAct, Quiet, At, PassTrue
<1> QED
  BY <1>2, <1>3, <1>4, ReadMisses, DecideMisses, PushMisses, AnswerMisses, ConfirmMisses, PullMisses
  DEF DeviceStep, PassStep

\* A name is refused only because a document has it.
LEMMA RefusalHasCause ==
  ASSUME SyncTypeOK, CloudStep, NEW d \in Devices, handler[Pusher(d)].stage # "replied",
         handler'[Pusher(d)].stage = "replied", handler'[Pusher(d)].status = 400
  PROVE  \E i \in Known :
           ~docs[i].deleted /\ docs[i].payload.name = handler[Pusher(d)].req.payload.name
<1>1. Shape
  BY DEF SyncTypeOK
<1>2. PICK c \in Clients : Cloud!HandlerStep(c) /\ \A o \in Clients \ {c} : handler'[o] = handler[o]
  BY <1>1, CloudStepDoes
<1>3. c = Pusher(d) /\ DOMAIN handler = Clients
  BY <1>1, <1>2, ClientsDiffer DEF Shape
<1>4. ~Cloud!RaiseNotFound(c)
  BY <1>3 DEF Cloud!RaiseNotFound, Cloud!Answer, Cloud!Replied
<1>5. ~Cloud!RaiseConflict(c)
  BY <1>3 DEF Cloud!RaiseConflict, Cloud!Answer, Cloud!Replied
<1>6. ~Cloud!FindOne(c)
  BY <1>3 DEF Cloud!FindOne, Cloud!Staged
<1>7. ~Cloud!InsertOne(c)
  BY <1>3 DEF Cloud!InsertOne, Cloud!Write, Cloud!Answer, Cloud!Replied
<1>8. ~Cloud!UpdateOne(c)
  BY <1>3 DEF Cloud!UpdateOne, Cloud!Write, Cloud!Answer, Cloud!Replied
<1>9. ~Cloud!SoftDelete(c)
  BY <1>3 DEF Cloud!SoftDelete, Cloud!Write, Cloud!Answer, Cloud!Replied
<1>10. Cloud!RaiseNameTaken(c)
  BY <1>2, <1>4, <1>5, <1>6, <1>7, <1>8, <1>9 DEF Cloud!HandlerStep
<1>11. Cloud!NameTaken(handler[c].req.payload.name)
  BY <1>10 DEF Cloud!RaiseNameTaken, Cloud!Colliding
<1> QED
  BY <1>3, <1>11, SameData DEF Cloud!NameTaken, Cloud!Live, Cloud!Exists, Known

\* The handler works for a pass: what was shown stays shown, and what it writes
\* is shown.
LEMMA MovedMisses ==
  ASSUME NEW D, NEW E, NEW known, NEW more, known \subseteq more,
         NEW p, p.pc = "calling", NEW push, NEW reply, NEW rs,
         push.stage # "replied", NoneMissed(D, known, p, push, rs),
         \A i \in known : ShownDoc(D, p, push, rs, i) =>
           ShownDoc(E, p, reply, rs, i) /\ E[i].payload.name = D[i].payload.name,
         \A i \in more : ~E[i].deleted =>
           \/ ShownDoc(E, p, reply, rs, i)
           \/ i \in known /\ ~D[i].deleted /\ D[i].payload.name = E[i].payload.name,
         reply.stage = "replied" /\ reply.status = 400 /\ p.current.collision = {} =>
           Blocked(E, more, p, reply, rs, p.current.row)
  PROVE  NoneMissed(E, more, p, reply, rs)
<1>1. \A l : Blocked(D, known, p, push, rs, l) => Blocked(E, more, p, reply, rs, l)
  BY DEF Blocked
<1>2. \A q : Foreseen(D, known, p, push, rs, q) => Foreseen(E, more, p, reply, rs, q)
  BY DEF Foreseen
<1> QED
  BY <1>1, <1>2 DEF NoneMissed

\* The first step of a handler writes nothing.
LEMMA ReceivedMisses ==
  ASSUME SyncTypeOK, LocalTrue, CloudStep, SyncTypeOK', NEW d \in Devices, Known' = Known, docs' = docs,
         handler[Pusher(d)].stage = "received",
         handler'[Pusher(d)].stage # "replied" \/ handler'[Pusher(d)].status # 200,
         NoneMissed(docs, Known, pass[d], handler[Pusher(d)], rows[d])
  PROVE  NoneMissed(docs, Known, pass[d], handler'[Pusher(d)], rows[d])
<1> DEFINE p == pass[d]
           c == p.current
           rs == rows[d]
           push == handler[Pusher(d)]
           reply == handler'[Pusher(d)]
<1>1. /\ PassTrue(p, resolution[d], rs) /\ NoneMissed(docs, Known, p, push, rs)
      /\ p.pc = "calling" /\ c \in PushCall(Known) /\ push.req = c.request
  BY AtHand DEF CallsOK, Serves
<1>2. /\ c.request.op # "delete" => c.local = c.request.payload
      /\ c.request.op # "delete" => rs[c.row].payload = c.local
  BY <1>1 DEF PassTrue, UnderWay, PushTrue, PushCall
<1>3. reply.stage = "replied" /\ reply.status = 400 => c.request.op = "create"
  <2>1. CallsOK(pass'[d], resolution'[d], reply, handler'[Dialog(d)], Known')
    BY DEF SyncTypeOK, WindowOK
  <2>2. pass'[d] = p
    BY CloudStepDoes DEF SyncTypeOK, SameWindow
  <2> QED
    BY <2>1, <2>2 DEF CallsOK, Serves
<1>4. reply.stage = "replied" /\ reply.status = 400 =>
        \E i \in Known : ~docs[i].deleted /\ docs[i].payload.name = c.request.payload.name
  BY <1>1, RefusalHasCause
<1> HIDE DEF reply, p, push, rs, c
<1>5. push.stage = "received"
  BY DEF push
<1>6. ASSUME NEW i \in Known, ShownDoc(docs, p, push, rs, i) PROVE ShownDoc(docs, p, reply, rs, i)
  <2>1. \A k \in LocalIds : ShowsDoc(docs, p, push, rs, k, i) =>
          k \in StoredIn(rs) /\ k \notin DOMAIN p.marks /\ ~rs[k].deleted /\ rs[k].cloudId = i
    BY <1>1, <1>5 DEF ShowsDoc
  <2> QED
    BY <1>6, <2>1, StaysShown
<1>7. ASSUME reply.stage = "replied", reply.status = 400, c.collision = {}
      PROVE  Blocked(docs, Known, p, reply, rs, c.row)
  <2>1. Foreseen(docs, Known, p, push, rs, c)
    BY <1>1, <1>5 DEF NoneMissed, c
  <2>2. PICK i \in Known : ~docs[i].deleted /\ docs[i].payload.name = c.request.payload.name
    BY <1>4, <1>7
  <2>3. ShownDoc(docs, p, reply, rs, i) /\ rs[c.row].payload = c.request.payload
    BY <1>2, <1>3, <1>6, <1>7, <2>1, <2>2 DEF Foreseen
  <2> QED
    BY <2>2, <2>3 DEF Blocked
<1>8. NoneMissed(docs, Known, p, reply, rs)
  <2>1. \A i \in Known : ShownDoc(docs, p, push, rs, i) =>
          ShownDoc(docs, p, reply, rs, i) /\ docs[i].payload.name = docs[i].payload.name
    BY <1>6
  <2>2. \A i \in Known : ~docs[i].deleted =>
          \/ ShownDoc(docs, p, reply, rs, i)
          \/ i \in Known /\ ~docs[i].deleted /\ docs[i].payload.name = docs[i].payload.name
    OBVIOUS
  <2>3. Known \subseteq Known /\ push.stage # "replied"
    BY <1>5
  <2>4. reply.stage = "replied" /\ reply.status = 400 /\ p.current.collision = {} =>
          Blocked(docs, Known, p, reply, rs, p.current.row)
    BY <1>7 DEF c
  <2> QED
    BY <1>1, <2>1, <2>2, <2>3, <2>4, MovedMisses
<1> QED
  BY <1>8 DEF p, reply, rs

\* What a handler writes for a pass, document by document.
LEMMA WrittenFor ==
  ASSUME SyncTypeOK, NEW c, handler[c] \in Cloud!Handler, NEW req \in Cloud!Request,
         req.op # "create" => req.doc \in Known,
         Moves(c, handler[c], req), handler[c].stage = "staged",
         ServedTrue(docs, handler[c], req)
  PROVE  /\ handler'[c].stage = "replied" /\ handler'[c].status = 200
         /\ req.op = "create" =>
              \E i \in DocIds \ Known : /\ handler'[c].doc = i /\ Known' = Known \cup {i}
                                        /\ \A j \in Known : docs'[j] = docs[j]
         /\ req.op # "create" =>
              /\ handler'[c].doc = req.doc /\ Known' = Known
              /\ \A j \in Known \ {req.doc} : docs'[j] = docs[j]
              /\ docs'[req.doc].version = docs[req.doc].version + 1
              /\ req.op = "delete" => /\ docs'[req.doc].deleted
                                      /\ docs'[req.doc].payload = docs[req.doc].payload
<1> DEFINE h == handler[c]
<1>1. /\ Known \subseteq DocIds /\ \A i \in Known : docs[i] \in Doc
      /\ docs \in [DocIds -> Doc \cup {NoDoc}] /\ NoDoc \notin Doc
      /\ h.read \in Nat /\ (req.op # "create" => h.read = docs[req.doc].version)
  BY KnownAre, HandlerParts, SentinelAssumption DEF SyncTypeOK, ServedTrue
<1>2. CASE req.op = "create"
  <2>1. PICK i \in DocIds \ Known :
          /\ docs' = [docs EXCEPT ![i] = Cloud!CreatedDoc(req.payload)]
          /\ handler'[c] = Cloud!Replied(200, i, Cloud!CreatedDoc(req.payload))
    BY <1>2 DEF Moves
  <2>2. Cloud!CreatedDoc(req.payload) # NoDoc
    BY <1>1, <1>2, CreatedDocs, RequestParts
  <2>3. Known' = Known \cup {i} /\ \A j \in Known : docs'[j] = docs[j]
    BY <1>1, <2>1, <2>2 DEF Known, Cloud!Exists
  <2> QED
    BY <1>2, <2>1, <2>3 DEF Cloud!Replied
<1>3. CASE req.op # "create"
  <2>1. PICK new \in Doc : /\ docs' = [docs EXCEPT ![req.doc] = new]
                           /\ handler'[c] = Cloud!Replied(200, req.doc, new)
                           /\ new.version = h.read + 1
                           /\ req.op = "delete" => new.deleted /\ new.payload = docs[req.doc].payload
    <3>1. CASE req.op = "update"
      <4> DEFINE new == Cloud!UpdatedDoc(docs[req.doc], h.read, req.payload)
      <4>1. docs[req.doc] \in Doc /\ req.payload \in Payload
        BY <1>1, <3>1, RequestParts
      <4>2. new \in Doc /\ new.version = h.read + 1
        <5> HIDE DEF new, h
        <5>1. new = Cloud!UpdatedDoc(docs[req.doc], h.read, req.payload)
          BY DEF new
        <5> QED
          BY <1>1, <4>1, <5>1, UpdatedDocs, ZenonT(30)
      <4>3. docs' = [docs EXCEPT ![req.doc] = new] /\ handler'[c] = Cloud!Replied(200, req.doc, new)
        BY <3>1 DEF Moves
      <4> QED
        BY <3>1, <4>2, <4>3
    <3>2. CASE req.op = "delete"
      <4> DEFINE new == Cloud!BuriedDoc(docs[req.doc], h.read)
      <4>1. new \in Doc /\ new.version = h.read + 1
        BY <1>1, <3>2, BuriedDocs
      <4>2. new.deleted /\ new.payload = docs[req.doc].payload
        BY <1>1, <3>2 DEF Cloud!BuriedDoc, Doc
      <4>3. docs' = [docs EXCEPT ![req.doc] = new] /\ handler'[c] = Cloud!Replied(200, req.doc, new)
        BY <3>2 DEF Moves
      <4> QED
        BY <4>1, <4>2, <4>3
    <3> QED
      BY <1>3, <3>1, <3>2, RequestParts
  <2>2. docs'[req.doc] = new /\ \A j \in Known \ {req.doc} : docs'[j] = docs[j]
    BY <1>1, <1>3, <2>1
  <2>3. Known' = Known
    BY <1>1, <1>3, <2>1 DEF Known, Cloud!Exists
  <2> QED
    BY <1>1, <1>3, <2>1, <2>2, <2>3 DEF Cloud!Replied
<1> QED
  BY <1>2, <1>3

LEMMA StagedMisses ==
  ASSUME SyncTypeOK, LocalTrue, CloudTrue, NEW d \in Devices,
         handler[Pusher(d)].stage = "staged",
         Moves(Pusher(d), handler[Pusher(d)], pass[d].current.request),
         NoneMissed(docs, Known, pass[d], handler[Pusher(d)], rows[d])
  PROVE  NoneMissed(docs', Known', pass[d], handler'[Pusher(d)], rows[d])
<1> DEFINE p == pass[d]
           c == p.current
           req == c.request
           rs == rows[d]
           push == handler[Pusher(d)]
           reply == handler'[Pusher(d)]
<1>1. /\ PassTrue(p, resolution[d], rs) /\ NoneMissed(docs, Known, p, push, rs)
      /\ p.pc = "calling" /\ c \in PushCall(Known) /\ Known \in SUBSET DocIds
      /\ PassTyped(p, Known) /\ StoreOK(rs, issued[d], Known)
      /\ \A i \in Known : docs[i].version \in Nat
  BY AtHand, KnownAre DEF CallsOK, Doc
<1>2. /\ req \in Cloud!Request /\ (req.op # "create" => req.doc \in Known)
      /\ push \in Cloud!Handler /\ ServedTrue(docs, push, req)
  BY <1>1, PushParts DEF SyncTypeOK, WindowOK, CloudTrue, CallsTrue
<1>3. /\ reply.stage = "replied" /\ reply.status = 200
      /\ req.op = "create" =>
           \E i \in DocIds \ Known : /\ reply.doc = i /\ Known' = Known \cup {i}
                                     /\ \A j \in Known : docs'[j] = docs[j]
      /\ req.op # "create" =>
           /\ reply.doc = req.doc /\ Known' = Known
           /\ \A j \in Known \ {req.doc} : docs'[j] = docs[j]
           /\ docs'[req.doc].version = docs[req.doc].version + 1
           /\ req.op = "delete" => /\ docs'[req.doc].deleted
                                   /\ docs'[req.doc].payload = docs[req.doc].payload
  BY <1>2, WrittenFor
<1>4. /\ \A q \in p.pushes \cup UnderWay(p) : PushTrue(rs, q)
      /\ c \in UnderWay(p) /\ PushTrue(rs, c)
      /\ c.row \in StoredIn(rs) /\ c.row \notin DOMAIN p.marks
      /\ rs[c.row].deleted <=> req.op = "delete"
  BY <1>1 DEF PassTrue, PushTrue, UnderWay, ToPush
<1>5. ASSUME NEW q \in p.pushes \cup UnderWay(p), q.request.op = "update"
      PROVE  /\ q.request.doc \in Known /\ q.request.expected \in Nat
             /\ q.request.expected <= docs[q.request.doc].version
             /\ ~q.request.force
  <2>1. q \in PushCall(Known)
    BY <1>1 DEF PassTyped, UnderWay
  <2>2. q.request.doc \in Known /\ q.request.expected \in Nat
    BY <1>5, <2>1, PushParts, RequestParts
  <2>3. /\ q.row \in StoredIn(rs) /\ Local!Linked(rs[q.row]) /\ q.request.doc = rs[q.row].cloudId
        /\ q.request.expected = rs[q.row].base /\ ~q.request.force
    BY <1>4, <1>5 DEF PushTrue, ToPush
  <2>4. RowTrue(docs, rs[q.row])
    BY <2>3 DEF CloudTrue, SeenTrue
  <2> QED
    BY <2>2, <2>3, <2>4 DEF RowTrue
<1>6. push.stage = "staged"
  BY DEF push
<1> HIDE DEF p, push, reply, rs, c, req
<1>7. ASSUME NEW j \in Known, ShownDoc(docs, p, push, rs, j)
      PROVE  ShownDoc(docs', p, reply, rs, j) /\ docs'[j].payload.name = docs[j].payload.name
  <2>1. PICK k \in LocalIds : ShowsDoc(docs, p, push, rs, k, j)
    BY <1>7 DEF ShownDoc
  <2>2. Outdated(docs, p, j) /\ rs[k].cloudId = j
    BY <1>1, <1>6, <2>1 DEF ShowsDoc
  <2>3. /\ docs'[j].payload.name = docs[j].payload.name
        /\ docs'[j].version \in Nat /\ docs'[j].version >= docs[j].version
    <3>1. CASE req.op = "create" \/ req.doc # j
      BY <1>1, <1>3, <3>1
    <3>2. CASE req.op = "update" /\ req.doc = j
      <4>1. req.expected < docs[j].version
        BY <1>4, <2>2, <3>2 DEF Outdated, req
      <4>2. req.expected = docs[j].version
        BY <1>2, <1>4, <1>5, <1>6, <3>2 DEF ServedTrue, req
      <4> QED
        BY <1>1, <4>1, <4>2
    <3>3. CASE req.op = "delete" /\ req.doc = j
      BY <1>1, <1>3, <3>3
    <3> QED
      BY <1>2, <3>1, <3>2, <3>3, RequestParts
  <2>4. Outdated(docs', p, j)
    <3> SUFFICES ASSUME NEW q \in p.pushes \cup UnderWay(p), q.request.op = "update",
                        q.request.doc = j
                 PROVE  q.request.expected < docs'[j].version
      BY DEF Outdated
    <3>1. q.request.expected < docs[j].version /\ q.request.expected \in Nat
      BY <1>5, <2>2 DEF Outdated
    <3> QED
      BY <1>1, <2>3, <3>1
  <2> QED
    BY <2>1, <2>2, <2>3, <2>4 DEF ShownDoc, ShowsDoc
<1>8. ASSUME NEW j \in Known', ~docs'[j].deleted
      PROVE  \/ ShownDoc(docs', p, reply, rs, j)
             \/ j \in Known /\ ~docs[j].deleted /\ docs[j].payload.name = docs'[j].payload.name
  <2>1. CASE j \in Known /\ (req.op = "create" \/ j # req.doc)
    BY <1>3, <1>8, <2>1
  <2>2. CASE j \notin Known
    <3>1. req.op = "create" /\ reply.doc = j
      BY <1>3, <1>8, <2>2
    <3>2. Outdated(docs', p, j)
      BY <1>5, <2>2 DEF Outdated
    <3>3. ShowsDoc(docs', p, reply, rs, c.row, j)
      BY <1>1, <1>3, <1>4, <3>1, <3>2 DEF ShowsDoc, c
    <3>4. c.row \in LocalIds
      BY <1>4 DEF StoredIn
    <3> QED
      BY <3>3, <3>4 DEF ShownDoc
  <2>3. CASE j \in Known /\ req.op # "create" /\ j = req.doc
    <3>1. req.op = "update"
      BY <1>2, <1>3, <1>8, <2>3, RequestParts
    <3>2. docs'[j].version = docs[j].version + 1
      BY <1>3, <2>3
    <3>3. Outdated(docs', p, j)
      <4> SUFFICES ASSUME NEW q \in p.pushes \cup UnderWay(p), q.request.op = "update",
                          q.request.doc = j
                   PROVE  q.request.expected < docs'[j].version
        BY DEF Outdated
      <4> QED
        BY <1>1, <1>5, <2>3, <3>2
    <3>4. rs[c.row].cloudId = j /\ ~rs[c.row].deleted
      BY <1>4, <2>3, <3>1 DEF PushTrue, req
    <3>5. ShowsDoc(docs', p, reply, rs, c.row, j)
      BY <1>4, <3>3, <3>4 DEF ShowsDoc
    <3>6. c.row \in LocalIds
      BY <1>4 DEF StoredIn
    <3> QED
      BY <3>5, <3>6 DEF ShownDoc
  <2> QED
    BY <2>1, <2>2, <2>3
<1>9. NoneMissed(docs', Known', p, reply, rs)
  <2>1. Known \subseteq Known'
    BY <1>3, <1>2, RequestParts
  <2>2. push.stage # "replied" /\ (reply.stage = "replied" /\ reply.status = 400
          /\ p.current.collision = {} => Blocked(docs', Known', p, reply, rs, p.current.row))
    BY <1>3, <1>6
  <2>3. \A i \in Known : ShownDoc(docs, p, push, rs, i) =>
          ShownDoc(docs', p, reply, rs, i) /\ docs'[i].payload.name = docs[i].payload.name
    BY <1>7
  <2>4. \A i \in Known' : ~docs'[i].deleted =>
          \/ ShownDoc(docs', p, reply, rs, i)
          \/ i \in Known /\ ~docs[i].deleted /\ docs[i].payload.name = docs'[i].payload.name
    BY <1>8
  <2> QED
    BY <1>1, <2>1, <2>2, <2>3, <2>4, MovedMisses
<1> QED
  BY <1>9 DEF p, reply, rs

\* A pass that no call of the cloud is under way for is over, or the cloud serves
\* the only call there is.
LEMMA CloudMisses ==
  ASSUME SyncTypeOK, LocalTrue, CloudTrue, CloudStep, NEW e \in Devices,
         NoneMissed(docs, Known, pass[e], handler[Pusher(e)], rows[e])
  PROVE  NoneMissed(docs', Known', pass'[e], handler'[Pusher(e)], rows'[e])
<1>1. /\ SyncTypeOK' /\ pass'[e] = pass[e] /\ rows'[e] = rows[e]
      /\ \A f \in Devices : PassTrue(pass[f], resolution[f], rows[f])
  BY CloudTypes, CloudStepDoes DEF SyncTypeOK, LocalTrue, SameStore, SameWindow
<1>2. PICK d \in Devices :
        \/ /\ handler[Pusher(d)].stage # "idle" /\ handler'[Pusher(d)].stage # "idle"
           /\ Moves(Pusher(d), handler[Pusher(d)], pass[d].current.request)
        \/ handler[Dialog(d)].stage # "idle"
  BY CloudTypes
<1>3. CASE pass[e].pc = "idle"
  BY <1>1, <1>3, IdleMissesNothing DEF PassTrue
<1>4. CASE pass[e].pc # "idle"
  <2>1. /\ handler[Dialog(d)].stage # "idle" => resolution[d] # NoCall
        /\ handler[Pusher(d)].stage # "idle" => pass[d].pc = "calling"
    BY DEF SyncTypeOK, WindowOK, CallsOK
  <2>2. ~Quiet(e) /\ ~Quiet(d)
    BY <1>2, <1>4, <2>1 DEF Quiet, At
  <2>3. d = e
    BY <2>2 DEF CloudTrue, OnlyOneActs
  <2>4. resolution[d] = NoCall
    BY <1>1, <1>4, <2>3 DEF PassTrue
  <2>5. Moves(Pusher(e), handler[Pusher(e)], pass[e].current.request)
    BY <1>2, <2>1, <2>3, <2>4
  <2>6. CASE handler[Pusher(e)].stage = "staged"
    BY <1>1, <2>5, <2>6, StagedMisses
  <2>7. CASE handler[Pusher(e)].stage = "received"
    <3>1. docs' = docs /\ Known' = Known
      BY <2>5, <2>7 DEF Moves, Known, Cloud!Exists
    <3>2. pass[e].current \in PushCall(Known)
      BY <2>7 DEF SyncTypeOK, WindowOK, CallsOK
    <3>3. pass[e].current.request.op # "create" => pass[e].current.request.doc \in Known
      BY <3>2, PushParts
    <3>4. handler'[Pusher(e)].stage # "replied" \/ handler'[Pusher(e)].status # 200
      BY <2>5, <2>7, <3>3 DEF Moves, Cloud!Replied, Cloud!Staged
    <3> QED
      BY <1>1, <2>7, <3>1, <3>4, ReceivedMisses
  <2> QED
    BY <2>5, <2>6, <2>7 DEF Moves
<1> QED
  BY <1>3, <1>4

LEMMA AnsweredSteps ==
  ASSUME OneAtATime, MaxDocs <= ListLimit
  PROVE  SyncTypeOK /\ LocalTrue /\ CloudTrue /\ AllAnswered /\ [Next]_vars => AllAnswered'
<1> SUFFICES ASSUME SyncTypeOK, LocalTrue, CloudTrue, AllAnswered, [Next]_vars, faults' = 0
             PROVE  /\ AllRemembered'
                    /\ \A d \in Devices :
                         NoneMissed(docs', Known', pass'[d], handler'[Pusher(d)], rows'[d])
  BY DEF AllAnswered
<1>1. faults \in Nat /\ ~EditDuringPass
  BY DEF SyncTypeOK, OneAtATime
<1>2. CASE UNCHANGED vars
  BY <1>2
  DEF vars, localVars, cloudVars, AllAnswered, AllRemembered, Known, Cloud!Exists
<1>3. ASSUME NEW d \in Devices, DeviceStep(d)
      PROVE  /\ AllRemembered'
             /\ \A e \in Devices :
                  NoneMissed(docs', Known', pass'[e], handler'[Pusher(e)], rows'[e])
  <2>1. faults = 0 /\ ~Fault(d)
    <3>1. CASE UserCreates(d) \/ UserEdits(d) \/ UserDeletes(d)
      <4>1. faults' = faults
        BY <3>1 DEF UserCreates, UserEdits, UserDeletes, UserStep
      <4>2. lastEdit' = lastEdit + 1 /\ lastEdit \in Nat
        BY <3>1, BoundsAssumption DEF UserCreates, UserEdits, UserDeletes, UserStep, SyncTypeOK
      <4>3. ~Fault(d)
        BY <4>2, HistoryStays
      <4> QED
        BY <4>1, <4>3
    <3>2. CASE ~(UserCreates(d) \/ UserEdits(d) \/ UserDeletes(d))
      <4>1. faults' = faults \/ faults' = faults + 1
        BY <1>3, <3>2, HistoryStays DEF DeviceStep, User
      <4>2. ~Fault(d)
        BY <1>1 DEF Fault, ReadFails, PushLost, ConfirmLost, PullLost, KeepLocalLost, WindowCloses
      <4> QED
        BY <1>1, <4>1, <4>2
    <3> QED
      BY <3>1, <3>2
  <2>2. AllRemembered /\ \A e \in Devices :
          NoneMissed(docs, Known, pass[e], handler[Pusher(e)], rows[e])
    BY <2>1 DEF AllAnswered
  <2>3. /\ docs' = docs /\ Known' = Known
        /\ \A e \in Devices \ {d} :
             /\ pass'[e] = pass[e] /\ rows'[e] = rows[e]
             /\ handler'[Pusher(e)] = handler[Pusher(e)]
    BY <1>3, PassOthers, DeviceTypes DEF OthersStay, SameStore, SameWindow, SameCalls
  <2>4. AllRemembered'
    BY <1>1, <1>3, <2>1, <2>2, <2>3, PassRemembers DEF AllRemembered
  <2>5. NoneMissed(docs, Known, pass'[d], handler'[Pusher(d)], rows'[d])
    BY <1>3, <2>1, <2>2, PassMisses
  <2> QED
    BY <2>2, <2>3, <2>4, <2>5
<1>4. CASE CloudStep
  <2>1. faults' = faults /\ \A d \in Devices : SameStore(d) /\ SameWindow(d)
    BY <1>4, CloudStepDoes DEF SyncTypeOK
  <2>2. AllRemembered /\ \A e \in Devices :
          NoneMissed(docs, Known, pass[e], handler[Pusher(e)], rows[e])
    BY <2>1 DEF AllAnswered
  <2>3. AllRemembered'
    BY <2>1, <2>2 DEF AllRemembered, SameStore, SameWindow
  <2> QED
    BY <1>4, <2>2, <2>3, CloudMisses
<1> QED
  BY <1>2, <1>3, <1>4 DEF Next, DeviceStep

\* What AllAnswered says at the end of a pass.
LEMMA AnsweredTells ==
  SyncTypeOK /\ AllAnswered =>
    \A d \in Devices : EndPass(d) /\ faults = 0 =>
      \A l \in Local!Visible(d) :
        \/ Local!Linked(Row(d, l)) /\ ~Local!Dirty(Row(d, l))
        \/ \E k \in conflicts'[d] : k.row = l
        \/ \E k \in Local!Visible(d) \ {l} :
             /\ Local!Linked(Row(d, k))
             /\ DocOf(d, k).payload.name = Row(d, l).payload.name
<1> SUFFICES ASSUME SyncTypeOK, AllAnswered, NEW d \in Devices, EndPass(d), faults = 0,
                    NEW l \in Local!Visible(d),
                    ~(Local!Linked(rows[d][l]) /\ ~Local!Dirty(rows[d][l])),
                    ~\E k \in conflicts'[d] : k.row = l
             PROVE  \E k \in Local!Visible(d) \ {l} :
                      /\ Local!Linked(rows[d][k])
                      /\ docs[rows[d][k].cloudId].payload.name = rows[d][l].payload.name
  BY DEF Row, DocOf
<1> DEFINE p == pass[d]
           rs == rows[d]
           push == handler[Pusher(d)]
<1>1. p.pc = "pushing" /\ p.pushes = {} /\ conflicts'[d] = p.found
  BY EndPassDoes DEF SyncTypeOK
<1>2. l \in StoredIn(rs) /\ ~rs[l].deleted
  BY DEF Local!Visible, Local!Stored, StoredIn
<1>3. NoneForgotten(p, rs) /\ NoneMissed(docs, Known, p, push, rs) /\ NoDoc \notin Known
  BY KnownAre, SentinelAssumption DEF AllAnswered, AllRemembered
<1>4. ~Kept(p, rs, l)
  BY <1>1 DEF Kept, UnderWay
<1>5. ~Local!Linked(rs[l])
  BY <1>1, <1>2, <1>3, <1>4 DEF NoneForgotten
<1>6. Blocked(docs, Known, p, push, rs, l)
  BY <1>1, <1>2, <1>3, <1>4, <1>5 DEF NoneMissed
<1>7. PICK i \in Known, k \in LocalIds :
        /\ docs[i].payload.name = rs[l].payload.name
        /\ k \in StoredIn(rs) /\ ~rs[k].deleted /\ rs[k].cloudId = i
  BY <1>1, <1>6 DEF Blocked, ShownDoc, ShowsDoc
<1>8. Local!Linked(rs[k]) /\ k # l /\ k \in Local!Visible(d)
  BY <1>3, <1>5, <1>7 DEF Local!Linked, Local!Visible, Local!Stored, StoredIn
<1> QED
  BY <1>7, <1>8

\* A pass none of whose calls was lost leaves no visible row behind in silence: the
\* row is in sync, or on a card of the dialog, or its name is that of a document
\* another visible row of the device is linked to (pushEntity's name-collision
\* branch).  One device acts at a time, and the list route returns all documents.
THEOREM NothingIsLeftBehind ==
  ASSUME OneAtATime, MaxDocs <= ListLimit
  PROVE  Spec => NothingLeftBehind
<1> DEFINE AnsweredInv == LocalTrue /\ CloudTrue /\ AllAnswered
           Told == \A d \in Devices : EndPass(d) /\ faults = 0 =>
             \A l \in Local!Visible(d) :
               \/ Local!Linked(Row(d, l)) /\ ~Local!Dirty(Row(d, l))
               \/ \E k \in conflicts'[d] : k.row = l
               \/ \E k \in Local!Visible(d) \ {l} :
                    /\ Local!Linked(Row(d, k))
                    /\ DocOf(d, k).payload.name = Row(d, l).payload.name
<1>1. Init => AnsweredInv
  <2>1. Init => AllAnswered
    BY IdleForgetsNothing, IdleMissesNothing DEF Init, AllAnswered, AllRemembered
  <2> QED
    BY <2>1, LocalStarts, CloudStarts
<1>2. SyncTypeOK /\ AnsweredInv /\ [Next]_vars => AnsweredInv'
  BY LocalSteps, CloudSteps, AnsweredSteps DEF OneAtATime
<1>3. SyncTypeOK /\ AnsweredInv => [Told]_vars
  BY AnsweredTells
<1> HIDE DEF AnsweredInv
<1> QED
  BY <1>1, <1>2, <1>3, SyncTypeCorrect, PTL DEF Spec, NothingLeftBehind

===============================================================================
