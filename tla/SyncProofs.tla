----------------------------- MODULE SyncProofs -----------------------------
(***************************************************************************)
(* Proofs about SyncEngine, for any number of devices, rows and documents. *)
(* First what each action does to the values of its device (...Does); then *)
(* one layer of SyncInvariants after the other: types, a pass against its  *)
(* device's rows, what is held of the documents against the documents, and *)
(* what a pass remembers.  Each layer rests on those before it and on the  *)
(* switches it needs; its theorems stand at its end.                       *)
(* The last part is about SyncReferences.                                  *)
(***************************************************************************)
EXTENDS SyncInvariants, SyncReferences, TLAPS

-----------------------------------------------------------------------------
(* The steps of a device leave the other devices and the documents alone.  *)

\* The two stores and the engine speak of the same data.
RowType ==
  [cloudId: DocIds \cup {NoDoc}, payload: Payload, version: Nat, base: Nat, deleted: BOOLEAN]
RequestType ==
  [op: {"create"}, payload: Payload]
    \cup [op: {"update"}, doc: DocIds, payload: Payload, expected: Nat, force: BOOLEAN]
    \cup [op: {"delete"}, doc: DocIds]
HandlerType ==
  {Cloud!Idle}
    \cup [stage: {"received"}, req: RequestType]
    \cup [stage: {"staged"}, req: RequestType, read: Nat]
    \cup [stage: {"replied"}, status: {200, 400, 404, 409}, doc: DocIds \cup {NoDoc},
          result: Doc \cup {NoDoc}]

LEMMA SameData ==
  /\ Local!Row = RowType
  /\ Cloud!Request = RequestType
  /\ Cloud!Handler = HandlerType
  /\ Cloud!DocIds = DocIds
BY DEF Local!Row, Local!Payload, Payload, Local!DocIds, DocIds, Local!Edits, Edits, RowType,
       Cloud!Request, Cloud!Handler, Cloud!DocIds, Cloud!Payload, Cloud!Edits, Cloud!Status,
       Cloud!Doc, Doc, RequestType, HandlerType

LEMMA ClientsDiffer ==
  /\ \A d \in Devices : Pusher(d) \in Clients /\ Dialog(d) \in Clients
  /\ \A d, e \in Devices : Pusher(d) # Dialog(e)
  /\ \A d, e \in Devices : (Pusher(d) = Pusher(e) => d = e) /\ (Dialog(d) = Dialog(e) => d = e)
  /\ \A c \in Clients : \E d \in Devices : c = Pusher(d) \/ c = Dialog(d)
BY DEF Clients, Pusher, Dialog

SameStore(d) == rows'[d] = rows[d] /\ issued'[d] = issued[d]
SameCalls(d) == handler'[Pusher(d)] = handler[Pusher(d)] /\ handler'[Dialog(d)] = handler[Dialog(d)]
SameWindow(d) ==
  pass'[d] = pass[d] /\ conflicts'[d] = conflicts[d] /\ resolution'[d] = resolution[d]

OthersStay(d) ==
  /\ Shape' /\ docs' = docs
  /\ lastEdit' = lastEdit \/ (lastEdit < MaxEdits /\ lastEdit' = lastEdit + 1)
  /\ faults' = faults \/ faults' = faults + 1
  /\ \A e \in Devices \ {d} : SameStore(e) /\ SameCalls(e) /\ SameWindow(e)

USE DEF Shape, OthersStay, SameStore, SameCalls, SameWindow, localVars, cloudVars, Window

\* A step of d changes pass[d] only.
PassAlone(d) ==
  /\ OthersStay(d) /\ SameStore(d) /\ SameCalls(d)
  /\ conflicts'[d] = conflicts[d] /\ resolution'[d] = resolution[d]

LEMMA StartPassDoes ==
  ASSUME Shape, NEW d \in Devices, StartPass(d)
  PROVE  /\ PassAlone(d)
         /\ pass'[d] = [pass[d] EXCEPT !.pc = "reading"]
BY DEF StartPass, PassAlone

LEMMA ReadDoes ==
  ASSUME Shape, NEW d \in Devices, Read(d)
  PROVE  /\ PassAlone(d) /\ pass[d].pc = "reading"
         /\ \/ pass'[d] = [pass[d] EXCEPT !.localState = StateOf(rows[d])]
            \/ pass'[d] = [pass[d] EXCEPT !.localList = ListOf(rows[d])]
            \/ pass'[d] = [pass[d] EXCEPT !.cloudState = StateOfDocs(docs, Known)]
            \/ \E S \in SUBSET Known :
                 pass'[d] = [pass[d] EXCEPT !.cloudList = [i \in S |-> docs[i]]]
<1>1. CASE ReadLocalState(d)
  BY <1>1 DEF ReadLocalState, Arrives, PassAlone, StateOf, StoredIn, Local!Stored, At
<1>2. CASE ReadLocalList(d)
  BY <1>2 DEF ReadLocalList, Arrives, PassAlone, ListOf, StoredIn, Local!Visible, Local!Stored, At
<1>3. CASE ReadCloudState(d)
  BY <1>3 DEF ReadCloudState, Arrives, PassAlone, StateOfDocs, Known, At
<1>4. CASE ReadCloudList(d)
  <2>1. PICK S \in SUBSET Known : Arrives(d, "cloudList", [i \in S |-> docs[i]])
    BY <1>4 DEF ReadCloudList, Known, Cloud!Live, Restrict
  <2> QED
    BY <2>1 DEF Arrives, PassAlone, At
<1> QED
  BY <1>1, <1>2, <1>3, <1>4 DEF Read

LEMMA ReadFailsDoes ==
  ASSUME Shape, NEW d \in Devices, ReadFails(d)
  PROVE  /\ OthersStay(d) /\ SameStore(d) /\ SameCalls(d) /\ resolution'[d] = resolution[d]
         /\ pass[d].pc = "reading" /\ pass'[d] = NoPass /\ conflicts'[d] = {}
BY DEF ReadFails, At

\* What Decide makes of the four responses.
Decided(p, byCloudId) ==
  [NoPass EXCEPT
     !.pc = "pushing",
     !.pushes = Pushes(p.localState, p.localList, p.cloudState, p.cloudList),
     !.pulls = NewRecords(p.localState, p.cloudState, p.cloudList),
     !.marks = StaleMarks(p.localState, p.cloudState, p.cloudList, byCloudId)]

LEMMA DecideDoes ==
  ASSUME Shape, NEW d \in Devices, Decide(d)
  PROVE  /\ PassAlone(d) /\ pass[d].pc = "reading"
         /\ NotRead \notin {pass[d].localState, pass[d].localList,
                            pass[d].cloudState, pass[d].cloudList}
         /\ \E f \in LocalByCloudId(pass[d].localState, pass[d].cloudState) :
              pass'[d] = Decided(pass[d], f)
BY DEF Decide, PassAlone, Decided, At

LEMMA PushDoes ==
  ASSUME Shape, NEW d \in Devices, Push(d)
  PROVE  /\ OthersStay(d) /\ SameStore(d)
         /\ conflicts'[d] = conflicts[d] /\ resolution'[d] = resolution[d]
         /\ pass[d].pc = "pushing"
         /\ handler[Pusher(d)].stage = "idle" /\ handler'[Dialog(d)] = handler[Dialog(d)]
         /\ \E p \in pass[d].pushes :
              /\ handler'[Pusher(d)] = Cloud!Received(p.request)
              /\ pass'[d] = StartPush(pass[d], p)
<1>1. PICK p \in pass[d].pushes :
        Cloud!Send(Pusher(d), p.request) /\ pass' = [pass EXCEPT ![d] = StartPush(pass[d], p)]
  BY DEF Push
<1>2. /\ handler[Pusher(d)] = Cloud!Idle /\ docs' = docs
      /\ handler' = [handler EXCEPT ![Pusher(d)] = Cloud!Received(p.request)]
  BY <1>1 DEF Cloud!Send
<1>3. OthersStay(d)
  BY <1>1, <1>2, ClientsDiffer DEF Push
<1>4. handler[Pusher(d)].stage = "idle"
  BY <1>2 DEF Cloud!Idle
<1> QED
  BY <1>1, <1>2, <1>3, <1>4, ClientsDiffer DEF Push, At

\* The pass takes an answer: its handler is free again.
Taken(d) ==
  /\ OthersStay(d) /\ SameStore(d)
  /\ conflicts'[d] = conflicts[d] /\ resolution'[d] = resolution[d]
  /\ pass[d].pc = "calling"
  /\ handler'[Pusher(d)] = Cloud!Idle /\ handler'[Dialog(d)] = handler[Dialog(d)]

LEMMA PushAcceptedDoes ==
  ASSUME Shape, NEW d \in Devices, PushAccepted(d)
  PROVE  /\ Taken(d) /\ Answer(d).stage = "replied" /\ Answer(d).status = 200
         /\ pass'[d] = AcceptPush(pass[d],
              MarkEntry(Answer(d).doc, Answer(d).result.version,
                        pass[d].current.request.op = "delete", NoPayload))
<1>1. /\ handler[Pusher(d)].stage = "replied" /\ docs' = docs
      /\ handler' = [handler EXCEPT ![Pusher(d)] = Cloud!Idle]
  BY DEF PushAccepted, Cloud!Take
<1>2. OthersStay(d)
  <2>1. Shape'
    BY <1>1 DEF PushAccepted
  <2> QED
    BY <1>1, <2>1, ClientsDiffer DEF PushAccepted
<1>3. Taken(d)
  BY <1>1, <1>2, ClientsDiffer DEF PushAccepted, Taken, At
<1> QED
  BY <1>1, <1>3 DEF PushAccepted, Answer

LEMMA PushConflictsDoes ==
  ASSUME Shape, NEW d \in Devices, PushConflicts(d)
  PROVE  /\ Taken(d) /\ Answer(d).stage = "replied" /\ Answer(d).status = 409
         /\ pass'[d] = NextPush(pass[d], pass[d].found \cup
              {Conflict(pass[d].current.row, pass[d].current.local, Answer(d).doc, Answer(d).result)})
<1>1. /\ handler[Pusher(d)].stage = "replied" /\ docs' = docs
      /\ handler' = [handler EXCEPT ![Pusher(d)] = Cloud!Idle]
  BY DEF PushConflicts, Cloud!Take
<1>2. OthersStay(d)
  <2>1. Shape'
    BY <1>1 DEF PushConflicts
  <2> QED
    BY <1>1, <2>1, ClientsDiffer DEF PushConflicts
<1>3. Taken(d)
  BY <1>1, <1>2, ClientsDiffer DEF PushConflicts, Taken, At
<1> QED
  BY <1>1, <1>3 DEF PushConflicts, Answer

LEMMA PushCollidesDoes ==
  ASSUME Shape, NEW d \in Devices, PushCollides(d)
  PROVE  /\ Taken(d) /\ Answer(d).stage = "replied" /\ Answer(d).status = 400
         /\ pass'[d] = NextPush(pass[d], pass[d].found \cup pass[d].current.collision)
<1>1. /\ handler[Pusher(d)].stage = "replied" /\ docs' = docs
      /\ handler' = [handler EXCEPT ![Pusher(d)] = Cloud!Idle]
  BY DEF PushCollides, Cloud!Take
<1>2. OthersStay(d)
  <2>1. Shape'
    BY <1>1 DEF PushCollides
  <2> QED
    BY <1>1, <2>1, ClientsDiffer DEF PushCollides
<1>3. Taken(d)
  BY <1>1, <1>2, ClientsDiffer DEF PushCollides, Taken, At
<1> QED
  BY <1>1, <1>3 DEF PushCollides, Answer

LEMMA PushLostDoes ==
  ASSUME Shape, NEW d \in Devices, PushLost(d)
  PROVE  /\ Taken(d) /\ pass'[d] = NextPush(pass[d], pass[d].found)
BY ClientsDiffer DEF PushLost, Cloud!Lose, Taken, At

\* What mark-synced makes of the rows of a device.
Marked(rs, marks) ==
  [l \in LocalIds |-> IF l \in DOMAIN marks /\ l \in StoredIn(rs)
                        THEN Local!SyncedRow(rs[l], marks[l])
                        ELSE rs[l]]

LEMMA ConfirmDoes ==
  ASSUME Shape, NEW d \in Devices, Confirm(d)
  PROVE  /\ OthersStay(d) /\ SameCalls(d)
         /\ conflicts'[d] = conflicts[d] /\ resolution'[d] = resolution[d]
         /\ pass[d].pc = "marking" /\ pass'[d] = NextPush(pass[d], pass[d].found)
         /\ issued'[d] = issued[d]
         /\ rows'[d] = Marked(rows[d], [l \in {pass[d].current.row} |-> pass[d].mark])
BY DEF Confirm, Local!MarkSynced, Marked, StoredIn, Local!Stored, At

LEMMA ConfirmLostDoes ==
  ASSUME Shape, NEW d \in Devices, ConfirmLost(d)
  PROVE  /\ PassAlone(d) /\ pass[d].pc = "marking"
         /\ pass'[d] = NextPush(pass[d], pass[d].found)
BY DEF ConfirmLost, PassAlone, At


LEMMA PullNewDoes ==
  ASSUME Shape, NEW d \in Devices, PullNew(d)
  PROVE  /\ OthersStay(d) /\ SameCalls(d)
         /\ conflicts'[d] = conflicts[d] /\ resolution'[d] = resolution[d]
         /\ pass[d].pc = "pushing" /\ pass[d].pushes = {}
         /\ pass'[d] = [pass[d] EXCEPT !.pulls = {}]
         /\ issued[d] \subseteq issued'[d] /\ issued'[d] \subseteq issued[d] \cup LocalIds
         /\ rows'[d] = [l \in LocalIds |-> rows'[d][l]]
         /\ \A l \in LocalIds :
              \/ rows'[d][l] = rows[d][l]
              \/ /\ l \notin issued[d] /\ l \in issued'[d]
                 /\ \E e \in pass[d].pulls : rows'[d][l] = Local!PulledRow(e)
<1>1. PICK id \in [pass[d].pulls -> Local!FreshIds(d)] :
        /\ rows' = [rows EXCEPT ![d] =
             [l \in LocalIds |->
                IF \E e \in pass[d].pulls : id[e] = l
                  THEN Local!PulledRow(CHOOSE e \in pass[d].pulls : id[e] = l)
                  ELSE rows[d][l]]]
        /\ issued' = [issued EXCEPT ![d] = @ \cup {id[e] : e \in pass[d].pulls}]
  BY DEF PullNew, Local!Pull
<1>2. pass' = [pass EXCEPT ![d].pulls = {}] /\ UNCHANGED <<cloudVars, Window, faults>>
      /\ pass[d].pc = "pushing" /\ pass[d].pushes = {}
  BY DEF PullNew, Pushed, At
<1>3. OthersStay(d)
  BY <1>1, <1>2
<1>4. \A l \in LocalIds :
        rows'[d][l] = IF \E e \in pass[d].pulls : id[e] = l
                        THEN Local!PulledRow(CHOOSE e \in pass[d].pulls : id[e] = l)
                        ELSE rows[d][l]
  BY <1>1
<1>5. \A l \in LocalIds :
        \/ rows'[d][l] = rows[d][l]
        \/ /\ l \notin issued[d] /\ l \in issued'[d]
           /\ \E e \in pass[d].pulls : rows'[d][l] = Local!PulledRow(e)
  <2> SUFFICES ASSUME NEW l \in LocalIds, NEW e \in pass[d].pulls, id[e] = l
               PROVE  /\ l \notin issued[d] /\ l \in issued'[d]
                      /\ \E f \in pass[d].pulls : rows'[d][l] = Local!PulledRow(f)
    BY <1>4
  <2>1. l \notin issued[d] /\ l \in issued'[d]
    BY <1>1 DEF Local!FreshIds
  <2> QED
    BY <1>4, <2>1
<1>6. issued'[d] \subseteq issued[d] \cup LocalIds
  BY <1>1 DEF Local!FreshIds
<1> QED
  BY <1>1, <1>2, <1>3, <1>5, <1>6

LEMMA MarkPulledDoes ==
  ASSUME Shape, NEW d \in Devices, MarkPulled(d)
  PROVE  /\ OthersStay(d) /\ SameCalls(d)
         /\ conflicts'[d] = conflicts[d] /\ resolution'[d] = resolution[d]
         /\ pass[d].pc = "pushing" /\ pass[d].pushes = {}
         /\ pass'[d] = [pass[d] EXCEPT !.marks = <<>>]
         /\ issued'[d] = issued[d] /\ rows'[d] = Marked(rows[d], pass[d].marks)
BY DEF MarkPulled, Pushed, Local!MarkSynced, Marked, StoredIn, Local!Stored, At

LEMMA PullLostDoes ==
  ASSUME Shape, NEW d \in Devices, PullLost(d)
  PROVE  /\ PassAlone(d) /\ pass[d].pc = "pushing"
         /\ \/ pass'[d] = [pass[d] EXCEPT !.pulls = {}]
            \/ pass'[d] = [pass[d] EXCEPT !.marks = <<>>]
BY DEF PullLost, Pushed, PassAlone, At

LEMMA EndPassDoes ==
  ASSUME Shape, NEW d \in Devices, EndPass(d)
  PROVE  /\ OthersStay(d) /\ SameStore(d) /\ SameCalls(d) /\ resolution'[d] = resolution[d]
         /\ pass[d].pc = "pushing" /\ pass[d].pushes = {}
         /\ pass'[d] = NoPass /\ conflicts'[d] = pass[d].found
BY DEF EndPass, Pushed, At

-----------------------------------------------------------------------------
(* The steps of the dialog, and of the user. *)

LEMMA KeepCloudDoes ==
  ASSUME Shape, NEW d \in Devices, KeepCloud(d)
  PROVE  /\ OthersStay(d) /\ SameCalls(d) /\ MayAct(d) /\ MaySync(d)
         /\ pass'[d] = pass[d] /\ issued'[d] = issued[d]
         /\ resolution[d] = NoCall /\ resolution'[d] = NoCall
         /\ \E k \in conflicts[d] :
              /\ rows'[d] = Marked(rows[d], [l \in {k.row} |->
                   MarkEntry(k.doc, k.cloud.version, k.cloud.deleted,
                             IF k.cloud.deleted THEN NoPayload ELSE k.cloud.payload)])
              /\ conflicts'[d] = Without(conflicts[d], k.row)
<1>1. PICK k \in conflicts[d] :
        /\ rows' = [rows EXCEPT ![d] = Marked(rows[d], [l \in {k.row} |->
             MarkEntry(k.doc, k.cloud.version, k.cloud.deleted,
                       IF k.cloud.deleted THEN NoPayload ELSE k.cloud.payload)])]
        /\ conflicts' = [conflicts EXCEPT ![d] = Without(conflicts[d], k.row)]
        /\ issued' = issued
  BY DEF KeepCloud, Local!MarkSynced, Marked, StoredIn, Local!Stored
<1>2. OthersStay(d)
  <2>1. Shape'
    BY <1>1 DEF KeepCloud
  <2> QED
    BY <1>1, <2>1 DEF KeepCloud
<1> QED
  BY <1>1, <1>2 DEF KeepCloud

\* The card is captured, and its call is made unless the document is there.
Opening(k) == [stage |-> "recreating", card |-> k, doc |-> NoDoc, version |-> 0]
Aiming(k)  == [stage |-> "target", card |-> k, doc |-> k.doc, version |-> 0]

LEMMA KeepLocalDoes ==
  ASSUME Shape, NEW d \in Devices, KeepLocal(d)
  PROVE  /\ OthersStay(d) /\ SameStore(d) /\ MayAct(d) /\ MaySync(d)
         /\ pass'[d] = pass[d] /\ conflicts'[d] = conflicts[d]
         /\ handler'[Pusher(d)] = handler[Pusher(d)]
         /\ resolution[d] = NoCall
         /\ \E k \in conflicts[d] :
              \/ /\ resolution'[d] = Opening(k)
                 /\ handler[Dialog(d)].stage = "idle"
                 /\ handler'[Dialog(d)] = Cloud!Received([op |-> "create", payload |-> k.local])
              \/ /\ resolution'[d] = Aiming(k)
                 /\ handler'[Dialog(d)] = handler[Dialog(d)]
<1>1. PICK k \in conflicts[d] :
        IF k.cloud.deleted
          THEN /\ Cloud!Send(Dialog(d), [op |-> "create", payload |-> k.local])
               /\ resolution' = [resolution EXCEPT ![d] = Opening(k)]
          ELSE /\ resolution' = [resolution EXCEPT ![d] = Aiming(k)]
               /\ UNCHANGED handler
  BY DEF KeepLocal, Opening, Aiming
<1>2. CASE k.cloud.deleted
  <2>1. /\ handler[Dialog(d)] = Cloud!Idle
        /\ handler' = [handler EXCEPT ![Dialog(d)] =
                         Cloud!Received([op |-> "create", payload |-> k.local])]
        /\ resolution' = [resolution EXCEPT ![d] = Opening(k)]
    BY <1>1, <1>2 DEF Cloud!Send
  <2>2. OthersStay(d)
    <3>1. Shape'
      BY <2>1 DEF KeepLocal
    <3> QED
      BY <2>1, <3>1, ClientsDiffer DEF KeepLocal
  <2>3. handler[Dialog(d)].stage = "idle"
    BY <2>1 DEF Cloud!Idle
  <2> QED
    <3>1. /\ SameStore(d) /\ MayAct(d) /\ MaySync(d)
          /\ pass'[d] = pass[d] /\ conflicts'[d] = conflicts[d] /\ resolution[d] = NoCall
      BY DEF KeepLocal
    <3>2. /\ handler'[Pusher(d)] = handler[Pusher(d)]
          /\ handler'[Dialog(d)] = Cloud!Received([op |-> "create", payload |-> k.local])
          /\ resolution'[d] = Opening(k)
      BY <2>1, ClientsDiffer
    <3> QED
      BY <2>2, <2>3, <3>1, <3>2
<1>3. CASE ~k.cloud.deleted
  <2>1. handler' = handler /\ resolution' = [resolution EXCEPT ![d] = Aiming(k)]
    BY <1>1, <1>3
  <2>2. OthersStay(d)
    <3>1. Shape'
      BY <2>1 DEF KeepLocal
    <3> QED
      BY <2>1, <3>1 DEF KeepLocal
  <2> QED
    BY <2>1, <2>2 DEF KeepLocal
<1> QED
  BY <1>2, <1>3

\* A step of the resolution that changes no row and no card.
DialogAlone(d, stage) ==
  /\ OthersStay(d) /\ SameStore(d)
  /\ pass'[d] = pass[d] /\ conflicts'[d] = conflicts[d]
  /\ handler'[Pusher(d)] = handler[Pusher(d)]
  /\ resolution[d] # NoCall /\ resolution[d].stage = stage

LEMMA RecreatedDoes ==
  ASSUME Shape, NEW d \in Devices, Recreated(d)
  PROVE  /\ DialogAlone(d, "recreating")
         /\ handler[Dialog(d)].stage = "replied" /\ handler[Dialog(d)].status = 200
         /\ handler'[Dialog(d)] = Cloud!Idle
         /\ resolution'[d] = AimAt(resolution[d], handler[Dialog(d)].doc)
<1>1. /\ handler[Dialog(d)].stage = "replied" /\ docs' = docs
      /\ handler' = [handler EXCEPT ![Dialog(d)] = Cloud!Idle]
  BY DEF Recreated, Cloud!Take
<1>2. OthersStay(d)
  <2>1. Shape'
    BY <1>1 DEF Recreated
  <2> QED
    BY <1>1, <2>1, ClientsDiffer DEF Recreated
<1> QED
  BY <1>1, <1>2, ClientsDiffer DEF Recreated, DialogAlone, Resolving

LEMMA ForceLocalDoes ==
  ASSUME Shape, NEW d \in Devices, ForceLocal(d)
  PROVE  /\ DialogAlone(d, "target") /\ handler[Dialog(d)].stage = "idle"
         /\ resolution'[d] = [resolution[d] EXCEPT !.stage = "forcing"]
         /\ handler'[Dialog(d)] =
              Cloud!Received([op |-> "update", doc |-> resolution[d].doc,
                              payload |-> resolution[d].card.local,
                              expected |-> 0, force |-> TRUE])
<1>1. /\ handler[Dialog(d)] = Cloud!Idle /\ docs' = docs
      /\ handler' = [handler EXCEPT ![Dialog(d)] =
           Cloud!Received([op |-> "update", doc |-> resolution[d].doc,
                           payload |-> resolution[d].card.local,
                           expected |-> 0, force |-> TRUE])]
  BY DEF ForceLocal, Cloud!Send
<1>2. OthersStay(d)
  <2>1. Shape'
    BY <1>1 DEF ForceLocal
  <2> QED
    BY <1>1, <2>1, ClientsDiffer DEF ForceLocal
<1>3. handler[Dialog(d)].stage = "idle"
  BY <1>1 DEF Cloud!Idle
<1> QED
  BY <1>1, <1>2, <1>3, ClientsDiffer DEF ForceLocal, DialogAlone, Resolving

LEMMA ForcedDoes ==
  ASSUME Shape, NEW d \in Devices, Forced(d)
  PROVE  /\ DialogAlone(d, "forcing")
         /\ handler[Dialog(d)].stage = "replied" /\ handler[Dialog(d)].status = 200
         /\ handler'[Dialog(d)] = Cloud!Idle
         /\ resolution'[d] = Settle(resolution[d], handler[Dialog(d)].result.version)
<1>1. /\ handler[Dialog(d)].stage = "replied" /\ docs' = docs
      /\ handler' = [handler EXCEPT ![Dialog(d)] = Cloud!Idle]
  BY DEF Forced, Cloud!Take
<1>2. OthersStay(d)
  <2>1. Shape'
    BY <1>1 DEF Forced
  <2> QED
    BY <1>1, <2>1, ClientsDiffer DEF Forced
<1> QED
  BY <1>1, <1>2, ClientsDiffer DEF Forced, DialogAlone, Resolving

LEMMA FinishKeepLocalDoes ==
  ASSUME Shape, NEW d \in Devices, FinishKeepLocal(d)
  PROVE  /\ OthersStay(d) /\ SameCalls(d) /\ pass'[d] = pass[d] /\ issued'[d] = issued[d]
         /\ resolution[d] # NoCall /\ resolution[d].stage = "marking"
         /\ resolution'[d] = NoCall
         /\ conflicts'[d] = Without(conflicts[d], resolution[d].card.row)
         /\ rows'[d] = Marked(rows[d], [l \in {resolution[d].card.row} |->
              MarkEntry(resolution[d].doc, resolution[d].version, FALSE, NoPayload)])
<1>1. /\ rows' = [rows EXCEPT ![d] = Marked(rows[d], [l \in {resolution[d].card.row} |->
              MarkEntry(resolution[d].doc, resolution[d].version, FALSE, NoPayload)])]
      /\ issued' = issued
  BY DEF FinishKeepLocal, Local!MarkSynced, Marked, StoredIn, Local!Stored
<1>2. OthersStay(d)
  <2>1. Shape'
    BY <1>1 DEF FinishKeepLocal
  <2> QED
    BY <1>1, <2>1 DEF FinishKeepLocal
<1> QED
  BY <1>1, <1>2 DEF FinishKeepLocal, Resolving

\* The resolution ends with an error, or a call of it is lost.
LEMMA KeepLocalEnds ==
  ASSUME Shape, NEW d \in Devices, KeepLocalRefused(d) \/ KeepLocalLost(d)
  PROVE  /\ OthersStay(d) /\ SameStore(d)
         /\ pass'[d] = pass[d] /\ conflicts'[d] = conflicts[d]
         /\ handler'[Pusher(d)] = handler[Pusher(d)]
         /\ resolution[d] # NoCall /\ resolution'[d] = NoCall
         /\ \/ handler'[Dialog(d)] = Cloud!Idle
            \/ resolution[d].stage = "marking" /\ handler'[Dialog(d)] = handler[Dialog(d)]
<1>1. /\ docs' = docs
      /\ \/ handler' = [handler EXCEPT ![Dialog(d)] = Cloud!Idle]
         \/ resolution[d].stage = "marking" /\ handler' = handler
  BY DEF KeepLocalRefused, KeepLocalLost, Cloud!Take, Cloud!Lose, Resolving, cloudVars
<1>2. /\ UNCHANGED <<rows, issued, pass, conflicts, lastEdit>>
      /\ resolution' = [resolution EXCEPT ![d] = NoCall]
      /\ faults' = faults \/ faults' = faults + 1
      /\ resolution[d] # NoCall
  BY DEF KeepLocalRefused, KeepLocalLost, Resolving
<1>3. OthersStay(d)
  <2>1. Shape'
    BY <1>1, <1>2
  <2> QED
    BY <1>1, <1>2, <2>1, ClientsDiffer
<1> QED
  BY <1>1, <1>2, <1>3, ClientsDiffer

LEMMA UserActsDo ==
  ASSUME SyncTypeOK, NEW d \in Devices, UserCreates(d) \/ UserEdits(d) \/ UserDeletes(d)
  PROVE  /\ OthersStay(d) /\ SameCalls(d) /\ SameWindow(d) /\ MayAct(d)
         /\ EditBehindDialog \/ conflicts[d] = {}
         /\ \E l \in LocalIds :
              /\ \A k \in LocalIds \ {l} : rows'[d][k] = rows[d][k]
              /\ rows'[d] = [k \in LocalIds |-> rows'[d][k]]
              /\ \/ /\ l \notin issued[d] /\ issued'[d] = issued[d] \cup {l}
                    /\ \E p \in Payload : rows'[d][l] = Local!NewRow(p)
                 \/ /\ rows[d][l] # NoRow /\ ~rows[d][l].deleted /\ issued'[d] = issued[d]
                    /\ \E p \in Payload : /\ rows'[d][l] = Local!EditedRow(rows[d][l], p)
                                          /\ DerivesFrom(p, rows[d][l].payload)
                 \/ /\ rows[d][l] # NoRow /\ ~rows[d][l].deleted /\ issued'[d] = issued[d]
                    /\ rows'[d][l] = IF Local!Linked(rows[d][l])
                                       THEN Local!BuriedRow(rows[d][l]) ELSE NoRow
<1> USE DEF UserStep
<1>1. CASE UserCreates(d)
  <2>1. PICK l \in Local!FreshIds(d), n \in Names :
          Local!Create(d, l, [name |-> n, edits |-> {lastEdit + 1}])
    BY <1>1 DEF UserCreates
  <2>2. lastEdit + 1 \in Edits /\ l \in LocalIds /\ l \notin issued[d]
    BY <1>1, <2>1, BoundsAssumption DEF UserCreates, SyncTypeOK, Edits, Local!FreshIds
  <2>3. PICK p \in Payload : Local!Create(d, l, p)
    BY <2>1, <2>2 DEF Payload
  <2>4. rows' = [rows EXCEPT ![d][l] = Local!NewRow(p)] /\ issued' = [issued EXCEPT ![d] = @ \cup {l}]
    BY <2>3 DEF Local!Create
  <2> QED
    BY <1>1, <2>2, <2>4 DEF UserCreates, SyncTypeOK, StoreOK
<1>2. CASE UserEdits(d)
  <2>1. PICK l \in Local!Visible(d), n \in Names :
          Local!Update(d, l, [name |-> n, edits |-> rows[d][l].payload.edits \cup {lastEdit + 1}])
    BY <1>2 DEF UserEdits
  <2>2. /\ lastEdit + 1 \in Edits /\ l \in LocalIds
        /\ rows[d][l] \in Local!Row /\ rows[d][l] # NoRow /\ ~rows[d][l].deleted
    <3>1. l \in LocalIds /\ rows[d][l] # NoRow /\ ~rows[d][l].deleted
      BY <2>1 DEF Local!Visible, Local!Stored
    <3>2. rows[d][l] \in Local!Row
      BY <3>1 DEF SyncTypeOK, StoreOK
    <3>3. lastEdit + 1 \in Edits
      BY <1>2, BoundsAssumption DEF UserEdits, SyncTypeOK, Edits
    <3> QED
      BY <3>1, <3>2, <3>3
  <2>3. [name |-> n, edits |-> rows[d][l].payload.edits \cup {lastEdit + 1}] \in Payload
    <3>1. n \in Names /\ rows[d][l].payload.edits \subseteq Edits
      BY <2>1, <2>2, SameData DEF Payload, RowType
    <3> QED
      BY <2>2, <3>1 DEF Payload
  <2>4. PICK p \in Payload : Local!Update(d, l, p) /\ DerivesFrom(p, rows[d][l].payload)
    BY <2>1, <2>3 DEF DerivesFrom
  <2>5. rows' = [rows EXCEPT ![d][l] = Local!EditedRow(rows[d][l], p)] /\ issued' = issued
    BY <2>4 DEF Local!Update
  <2> QED
    BY <1>2, <2>2, <2>4, <2>5 DEF UserEdits, SyncTypeOK, StoreOK
<1>3. CASE UserDeletes(d)
  <2>1. PICK l \in Local!Visible(d) : Local!Delete(d, l)
    BY <1>3 DEF UserDeletes
  <2>2. l \in LocalIds /\ rows[d][l] # NoRow /\ ~rows[d][l].deleted
    BY <2>1 DEF Local!Visible, Local!Stored
  <2>3. /\ rows' = [rows EXCEPT ![d][l] = IF Local!Linked(rows[d][l])
                                            THEN Local!BuriedRow(rows[d][l]) ELSE NoRow]
        /\ issued' = issued
    BY <2>1 DEF Local!Delete
  <2> QED
    BY <1>3, <2>2, <2>3 DEF UserDeletes, SyncTypeOK, StoreOK
<1> QED
  BY <1>1, <1>2, <1>3

LEMMA WindowClosesDoes ==
  ASSUME Shape, NEW d \in Devices, WindowCloses(d)
  PROVE  /\ OthersStay(d) /\ SameStore(d)
         /\ pass'[d] = NoPass /\ conflicts'[d] = {} /\ resolution'[d] = NoCall
         /\ handler'[Pusher(d)] = Cloud!Idle /\ handler'[Dialog(d)] = Cloud!Idle
<1>1. /\ \A c \in Clients : c[1] = d => handler'[c] = Cloud!Idle
      /\ \A c \in Clients : c[1] # d => handler'[c] = handler[c]
  BY DEF WindowCloses
<1>2. /\ handler'[Pusher(d)] = Cloud!Idle /\ handler'[Dialog(d)] = Cloud!Idle
      /\ \A e \in Devices \ {d} : SameCalls(e)
  <2>1. \A e \in Devices : Pusher(e)[1] = e /\ Dialog(e)[1] = e
    BY DEF Pusher, Dialog
  <2> QED
    BY <1>1, <2>1, ClientsDiffer
<1>3. Shape'
  BY DEF WindowCloses
<1> QED
  BY <1>2, <1>3 DEF WindowCloses

\* The cloud's steps leave the devices alone, and all handlers but one.
LEMMA CloudStepDoes ==
  ASSUME Shape, CloudStep
  PROVE  /\ \A d \in Devices : SameStore(d) /\ SameWindow(d)
         /\ lastEdit' = lastEdit /\ faults' = faults
         /\ Shape'
         /\ \E c \in Clients : /\ Cloud!HandlerStep(c)
                               /\ \A o \in Clients \ {c} : handler'[o] = handler[o]
<1>1. PICK c \in Clients : Cloud!HandlerStep(c)
  BY DEF CloudStep
<1>2. \E h : handler' = [handler EXCEPT ![c] = h]
  BY <1>1 DEF Cloud!HandlerStep, Cloud!RaiseNotFound, Cloud!RaiseConflict, Cloud!RaiseNameTaken,
     Cloud!FindOne, Cloud!InsertOne, Cloud!UpdateOne, Cloud!SoftDelete, Cloud!Answer, Cloud!Write
<1>3. Shape' /\ \A o \in Clients \ {c} : handler'[o] = handler[o]
  BY <1>2 DEF CloudStep
<1> QED
  BY <1>1, <1>3 DEF CloudStep

HIDE DEF Shape, OthersStay, SameStore, SameCalls, SameWindow, localVars, cloudVars, Window

-----------------------------------------------------------------------------
(* Types. *)

LEMMA TypesAfter ==
  ASSUME SyncTypeOK, NEW d \in Devices, OthersStay(d),
         StoreOK(rows'[d], issued'[d], Known),
         WindowOK(pass'[d], conflicts'[d], resolution'[d],
                  handler'[Pusher(d)], handler'[Dialog(d)], Known)
  PROVE  SyncTypeOK' /\ Known' = Known
<1>1. Known' = Known
  BY DEF OthersStay, Known, Cloud!Exists
<1>2. lastEdit' \in 0..MaxEdits /\ faults' \in Nat
  BY BoundsAssumption DEF OthersStay, SyncTypeOK
<1>3. \A e \in Devices :
        /\ StoreOK(rows'[e], issued'[e], Known)
        /\ WindowOK(pass'[e], conflicts'[e], resolution'[e],
                    handler'[Pusher(e)], handler'[Dialog(e)], Known)
  BY DEF OthersStay, SyncTypeOK, SameStore, SameCalls, SameWindow
<1> QED
  BY <1>1, <1>2, <1>3 DEF OthersStay, SyncTypeOK

LEMMA HandlerParts ==
  ASSUME NEW h \in Cloud!Handler
  PROVE  /\ h.stage \in {"idle", "received", "staged", "replied"}
         /\ h.stage \in {"received", "staged"} => h.req \in RequestType
         /\ h.stage = "staged" => h.read \in Nat
         /\ h.stage = "replied" =>
              /\ h.status \in {200, 400, 404, 409}
              /\ h.doc \in DocIds \cup {NoDoc} /\ h.result \in Doc \cup {NoDoc}
BY SameData DEF HandlerType, Cloud!Idle

LEMMA IdleHandler == Cloud!Idle \in Cloud!Handler /\ Cloud!Idle.stage = "idle"
BY SameData DEF HandlerType, Cloud!Idle

LEMMA ReceivedHandler ==
  ASSUME NEW req \in Cloud!Request
  PROVE  /\ Cloud!Received(req) \in Cloud!Handler
         /\ Cloud!Received(req).stage = "received" /\ Cloud!Received(req).req = req
BY SameData DEF HandlerType, Cloud!Received

LEMMA NoPassTyped ==
  ASSUME NEW D
  PROVE  PassTyped(NoPass, D) /\ NoPass.pc = "idle"
BY DEF PassTyped, NoPass, Partial

LEMMA MarkedOK ==
  ASSUME NEW D \in SUBSET DocIds, NEW rs, NEW ids, StoreOK(rs, ids, D), NEW marks,
         \A l \in DOMAIN marks : marks[l] \in MarkOf(D)
  PROVE  StoreOK(Marked(rs, marks), ids, D)
<1>1. \A l \in LocalIds :
        \/ Marked(rs, marks)[l] = rs[l]
        \/ /\ rs[l] \in RowType /\ rs[l] # NoRow
           /\ \E m \in MarkOf(D) : Marked(rs, marks)[l] = Local!SyncedRow(rs[l], m)
  BY SameData DEF Marked, StoredIn, StoreOK
<1>2. \A row \in RowType, m \in MarkOf(D) :
        Local!SyncedRow(row, m) \in RowType /\ Local!SyncedRow(row, m).cloudId \in D
  BY DEF RowType, MarkOf, Local!SyncedRow
<1>3. \A l \in LocalIds :
        /\ Marked(rs, marks)[l] \in RowType \cup {NoRow}
        /\ Marked(rs, marks)[l] # NoRow => l \in ids /\ Marked(rs, marks)[l].cloudId \in D \cup {NoDoc}
  BY <1>1, <1>2, SameData DEF StoreOK
<1>4. Marked(rs, marks) \in [LocalIds -> RowType \cup {NoRow}]
  BY <1>3 DEF Marked
<1> QED
  BY <1>3, <1>4, SameData DEF StoreOK

LEMMA MarkEntryOK ==
  ASSUME NEW D, NEW i \in D, NEW v \in Nat, NEW b \in BOOLEAN, NEW p \in Payload \cup {NoPayload}
  PROVE  MarkEntry(i, v, b, p) \in MarkOf(D)
BY DEF MarkEntry, MarkOf

LEMMA KnownAre == ASSUME SyncTypeOK PROVE /\ Known \subseteq DocIds
                                          /\ \A i \in Known : docs[i] \in Doc
BY DEF SyncTypeOK, Known, Cloud!Exists

LEMMA InitTypes == Init => SyncTypeOK
<1> SUFFICES ASSUME Init PROVE SyncTypeOK
  OBVIOUS
<1> USE DEF Init
<1>1. Shape
  BY DEF Shape, Local!LocalInit, Cloud!CloudInit
<1>2. docs \in [DocIds -> Doc \cup {NoDoc}] /\ lastEdit \in 0..MaxEdits /\ faults \in Nat
  BY BoundsAssumption, SameData DEF Cloud!CloudInit
<1>3. ASSUME NEW d \in Devices
      PROVE  /\ StoreOK(rows[d], issued[d], Known)
             /\ WindowOK(pass[d], conflicts[d], resolution[d],
                         handler[Pusher(d)], handler[Dialog(d)], Known)
  <2>1. StoreOK(rows[d], issued[d], Known)
    BY DEF Local!LocalInit, StoreOK
  <2>2. /\ pass[d] = NoPass /\ conflicts[d] = {} /\ resolution[d] = NoCall
        /\ handler[Pusher(d)] = Cloud!Idle /\ handler[Dialog(d)] = Cloud!Idle
    BY ClientsDiffer DEF Cloud!CloudInit
  <2> QED
    BY <2>1, <2>2, NoPassTyped, IdleHandler DEF WindowOK, CallsOK
<1> QED
  BY <1>1, <1>2, <1>3 DEF SyncTypeOK


\* A pass in which nothing but what is named differs.
LEMMA ReadingTyped ==
  ASSUME NEW D, NEW p, PassTyped(p, D), p.pc = "reading"
  PROVE  /\ \A v : Partial(v, LocalIds, StateEntry(D)) => PassTyped([p EXCEPT !.localState = v], D)
         /\ \A v : Partial(v, LocalIds, Payload) => PassTyped([p EXCEPT !.localList = v], D)
         /\ \A v : Partial(v, D, [version: Nat, deleted: BOOLEAN]) =>
                     PassTyped([p EXCEPT !.cloudState = v], D)
         /\ \A v : Partial(v, D, Doc) => PassTyped([p EXCEPT !.cloudList = v], D)
BY DEF PassTyped, NoPass

LEMMA ResponsesTyped ==
  ASSUME SyncTypeOK, NEW d \in Devices
  PROVE  /\ Partial(StateOf(rows[d]), LocalIds, StateEntry(Known))
         /\ Partial(ListOf(rows[d]), LocalIds, Payload)
         /\ Partial(StateOfDocs(docs, Known), Known, [version: Nat, deleted: BOOLEAN])
         /\ \A S \in SUBSET Known : Partial([i \in S |-> docs[i]], Known, Doc)
<1>1. \A l \in StoredIn(rows[d]) :
        rows[d][l] \in RowType /\ rows[d][l].cloudId \in Known \cup {NoDoc}
  BY SameData DEF SyncTypeOK, StoreOK, StoredIn
<1>2. Partial(StateOf(rows[d]), LocalIds, StateEntry(Known))
  BY <1>1 DEF Partial, StateOf, StateEntry, RowType, StoredIn, Local!Dirty
<1>3. Partial(ListOf(rows[d]), LocalIds, Payload)
  BY <1>1 DEF Partial, ListOf, RowType, StoredIn
<1>4. \A i \in Known : docs[i] \in Doc
  BY KnownAre
<1>5. Partial(StateOfDocs(docs, Known), Known, [version: Nat, deleted: BOOLEAN])
  BY <1>4 DEF Partial, StateOfDocs, Doc
<1> QED
  BY <1>2, <1>3, <1>4, <1>5 DEF Partial

LEMMA ReadTypes ==
  ASSUME SyncTypeOK, NEW d \in Devices, StartPass(d) \/ Read(d) \/ ReadFails(d)
  PROVE  SyncTypeOK' /\ Known' = Known
<1>1. Shape /\ StoreOK(rows[d], issued[d], Known)
      /\ WindowOK(pass[d], conflicts[d], resolution[d],
                  handler[Pusher(d)], handler[Dialog(d)], Known)
  BY DEF SyncTypeOK
<1>2. CASE StartPass(d)
  <2>1. PassTyped([pass[d] EXCEPT !.pc = "reading"], Known) /\ pass[d].pc = "idle"
    BY <1>1, <1>2 DEF WindowOK, PassTyped, NoPass, StartPass, At
  <2>2. [pass[d] EXCEPT !.pc = "reading"].pc = "reading"
    BY <1>1 DEF WindowOK, PassTyped, NoPass
  <2>3. WindowOK(pass'[d], conflicts'[d], resolution'[d],
                 handler'[Pusher(d)], handler'[Dialog(d)], Known)
    BY <1>1, <1>2, <2>1, <2>2, StartPassDoes DEF WindowOK, CallsOK, PassAlone, SameCalls
  <2> QED
    BY <1>1, <1>2, <2>3, StartPassDoes, TypesAfter DEF PassAlone, SameStore
<1>3. CASE Read(d)
  <2>1. PassTyped(pass'[d], Known) /\ pass'[d].pc = "reading"
    <3>1. PassTyped(pass[d], Known) /\ pass[d].pc = "reading"
      BY <1>1, <1>3, ReadDoes DEF WindowOK
    <3>2. \/ pass'[d] = [pass[d] EXCEPT !.localState = StateOf(rows[d])]
          \/ pass'[d] = [pass[d] EXCEPT !.localList = ListOf(rows[d])]
          \/ pass'[d] = [pass[d] EXCEPT !.cloudState = StateOfDocs(docs, Known)]
          \/ \E S \in SUBSET Known :
               pass'[d] = [pass[d] EXCEPT !.cloudList = [i \in S |-> docs[i]]]
      BY <1>1, <1>3, ReadDoes
    <3>3. PassTyped(pass'[d], Known)
      <4>1. PassTyped([pass[d] EXCEPT !.localState = StateOf(rows[d])], Known)
        BY <3>1, ReadingTyped, ResponsesTyped
      <4>2. PassTyped([pass[d] EXCEPT !.localList = ListOf(rows[d])], Known)
        BY <3>1, ReadingTyped, ResponsesTyped
      <4>3. PassTyped([pass[d] EXCEPT !.cloudState = StateOfDocs(docs, Known)], Known)
        BY <3>1, ReadingTyped, ResponsesTyped
      <4>4. ASSUME NEW S \in SUBSET Known
            PROVE  PassTyped([pass[d] EXCEPT !.cloudList = [i \in S |-> docs[i]]], Known)
        BY <3>1, ReadingTyped, ResponsesTyped
      <4> QED
        BY <3>2, <4>1, <4>2, <4>3, <4>4
    <3>4. pass'[d].pc = "reading"
      BY <3>1, <3>2 DEF PassTyped, NoPass
    <3> QED
      BY <3>3, <3>4
  <2>2. WindowOK(pass'[d], conflicts'[d], resolution'[d],
                 handler'[Pusher(d)], handler'[Dialog(d)], Known)
    BY <1>1, <1>3, <2>1, ReadDoes DEF WindowOK, CallsOK, PassAlone, SameCalls
  <2> QED
    BY <1>1, <1>3, <2>2, ReadDoes, TypesAfter DEF PassAlone, SameStore
<1>4. CASE ReadFails(d)
  <2>1. WindowOK(pass'[d], conflicts'[d], resolution'[d],
                 handler'[Pusher(d)], handler'[Dialog(d)], Known)
    BY <1>1, <1>4, ReadFailsDoes, NoPassTyped DEF WindowOK, CallsOK, SameCalls
  <2> QED
    BY <1>1, <1>4, <2>1, ReadFailsDoes, TypesAfter DEF SameStore
<1> QED
  BY <1>2, <1>3, <1>4

\* What Decide makes of well typed responses is well typed.
LEMMA DecidedTyped ==
  ASSUME NEW D \in SUBSET DocIds, NEW p, PassTyped(p, D),
         NotRead \notin {p.localState, p.localList, p.cloudState, p.cloudList},
         NEW f \in LocalByCloudId(p.localState, p.cloudState)
  PROVE  PassTyped(Decided(p, f), D) /\ Decided(p, f).pc = "pushing"
<1> DEFINE ls == p.localState
           ll == p.localList
           cs == p.cloudState
           cl == p.cloudList
<1>1. /\ DOMAIN ls \subseteq LocalIds /\ \A l \in DOMAIN ls : ls[l] \in StateEntry(D)
      /\ DOMAIN ll \subseteq LocalIds /\ \A l \in DOMAIN ll : ll[l] \in Payload
      /\ DOMAIN cs \subseteq D /\ \A i \in DOMAIN cs : cs[i] \in [version: Nat, deleted: BOOLEAN]
      /\ DOMAIN cl \subseteq D /\ \A i \in DOMAIN cl : cl[i] \in Doc
  BY DEF PassTyped, Partial
<1> HIDE DEF ls, ll, cs, cl
<1>2. \A l \in LocalIds, q \in Payload : Namesake(l, q, cl) \subseteq CardOf(D)
  BY <1>1 DEF Namesake, Conflict, CardOf
<1>3. Creates(ls, ll, cl) \subseteq PushCall(D)
  <2> SUFFICES ASSUME NEW l \in DOMAIN ls \cap DOMAIN ll
               PROVE  PushOf(l, ll[l], [op |-> "create", payload |-> ll[l]],
                             Namesake(l, ll[l], cl)) \in PushCall(D)
    BY DEF Creates
  <2>1. l \in LocalIds /\ ll[l] \in Payload
    BY <1>1
  <2>2. [op |-> "create", payload |-> ll[l]] \in Cloud!Request
    BY <2>1, SameData DEF RequestType
  <2> QED
    BY <1>2, <2>1, <2>2 DEF PushOf, PushCall
<1>4. Deletes(ls, cs) \subseteq PushCall(D)
  <2> SUFFICES ASSUME NEW l \in DirtyKnown(ls, cs)
               PROVE  PushOf(l, NoPayload, [op |-> "delete", doc |-> ls[l].cloudId], {}) \in PushCall(D)
    BY DEF Deletes
  <2>1. l \in LocalIds /\ ls[l].cloudId \in D
    BY <1>1 DEF DirtyKnown
  <2>2. [op |-> "delete", doc |-> ls[l].cloudId] \in Cloud!Request
    BY <2>1, SameData DEF RequestType
  <2> QED
    BY <2>1, <2>2 DEF PushOf, PushCall
<1>5. Updates(ls, ll, cs) \subseteq PushCall(D)
  <2> SUFFICES ASSUME NEW l \in DirtyKnown(ls, cs) \cap DOMAIN ll
               PROVE  PushOf(l, ll[l], [op |-> "update", doc |-> ls[l].cloudId, payload |-> ll[l],
                                        expected |-> ls[l].base, force |-> FALSE], {}) \in PushCall(D)
    BY DEF Updates
  <2>1. l \in LocalIds /\ ls[l].cloudId \in D /\ ll[l] \in Payload /\ ls[l].base \in Nat
    BY <1>1 DEF DirtyKnown, StateEntry
  <2>2. [op |-> "update", doc |-> ls[l].cloudId, payload |-> ll[l],
         expected |-> ls[l].base, force |-> FALSE] \in Cloud!Request
    BY <2>1, SameData DEF RequestType
  <2> QED
    BY <2>1, <2>2 DEF PushOf, PushCall
<1>6. NewRecords(ls, cs, cl) \subseteq PullOf(D)
  BY <1>1 DEF NewRecords, PullOf, Doc
<1>7. Partial(StaleMarks(ls, cs, cl, f), LocalIds, MarkOf(D))
  <2>1. \A l \in StaleRows(ls, cs, cl, f) :
          /\ l \in DOMAIN ls /\ ls[l].cloudId \in DOMAIN cs
          /\ cs[ls[l].cloudId].deleted \/ ls[l].cloudId \in DOMAIN cl
    BY DEF StaleRows, LocalByCloudId, LinkedRows, ls, cs
  <2>2. \A l \in StaleRows(ls, cs, cl, f) :
          LET i == ls[l].cloudId IN
          MarkEntry(i, cs[i].version, cs[i].deleted,
                    IF cs[i].deleted THEN NoPayload ELSE cl[i].payload) \in MarkOf(D)
    BY <1>1, <2>1 DEF MarkEntry, MarkOf, Doc
  <2>3. StaleRows(ls, cs, cl, f) \subseteq LocalIds
    BY <1>1, <2>1
  <2> QED
    BY <2>2, <2>3 DEF StaleMarks, Partial
<1>8. Pushes(ls, ll, cs, cl) \subseteq PushCall(D)
  BY <1>3, <1>4, <1>5 DEF Pushes
<1> QED
  BY <1>6, <1>7, <1>8 DEF PassTyped, Decided, NoPass, ls, ll, cs, cl


LEMMA DecideTypes ==
  ASSUME SyncTypeOK, NEW d \in Devices, Decide(d)
  PROVE  SyncTypeOK' /\ Known' = Known
<1>1. Shape /\ StoreOK(rows[d], issued[d], Known) /\ Known \in SUBSET DocIds
      /\ WindowOK(pass[d], conflicts[d], resolution[d],
                  handler[Pusher(d)], handler[Dialog(d)], Known)
  BY KnownAre DEF SyncTypeOK
<1>2. PassTyped(pass'[d], Known) /\ pass'[d].pc = "pushing" /\ pass[d].pc = "reading"
  <2>1. PICK f \in LocalByCloudId(pass[d].localState, pass[d].cloudState) :
          pass'[d] = Decided(pass[d], f)
    BY <1>1, DecideDoes
  <2> QED
    <3>1. /\ PassTyped(pass[d], Known) /\ pass[d].pc = "reading"
          /\ NotRead \notin {pass[d].localState, pass[d].localList,
                             pass[d].cloudState, pass[d].cloudList}
      BY <1>1, DecideDoes DEF WindowOK
    <3>2. PassTyped(Decided(pass[d], f), Known) /\ Decided(pass[d], f).pc = "pushing"
      BY <1>1, <3>1, DecidedTyped
    <3> QED
      BY <2>1, <3>1, <3>2
<1>3. WindowOK(pass'[d], conflicts'[d], resolution'[d],
               handler'[Pusher(d)], handler'[Dialog(d)], Known)
  BY <1>1, <1>2, DecideDoes DEF WindowOK, CallsOK, PassAlone, SameCalls
<1> QED
  BY <1>1, <1>3, DecideDoes, TypesAfter DEF PassAlone, SameStore

LEMMA PushParts ==
  ASSUME NEW D, NEW q \in PushCall(D)
  PROVE  /\ q.row \in LocalIds /\ q.request \in Cloud!Request /\ q.collision \subseteq CardOf(D)
         /\ q.request.op # "create" => q.request.doc \in D
         /\ q.request.op = "delete" \/ (q.local = q.request.payload /\ q.local \in Payload)
BY SameData DEF PushCall, RequestType

LEMMA CallingTyped ==
  ASSUME NEW D, NEW p, PassTyped(p, D)
  PROVE  /\ \A q \in p.pushes : /\ PassTyped(StartPush(p, q), D)
                                /\ StartPush(p, q).pc = "calling" /\ StartPush(p, q).current = q
         /\ \A m \in MarkOf(D) :
              /\ PassTyped(AcceptPush(p, m), D)
              /\ AcceptPush(p, m).pc = "marking" /\ AcceptPush(p, m).mark = m
              /\ AcceptPush(p, m).current = p.current
         /\ \A found \in SUBSET CardOf(D) : /\ PassTyped(NextPush(p, found), D)
                                          /\ NextPush(p, found).pc = "pushing"
BY DEF PassTyped, NoPass, StartPush, AcceptPush, NextPush

LEMMA PushTypes ==
  ASSUME SyncTypeOK, NEW d \in Devices, Push(d)
  PROVE  SyncTypeOK' /\ Known' = Known
<1>1. Shape /\ StoreOK(rows[d], issued[d], Known)
      /\ WindowOK(pass[d], conflicts[d], resolution[d],
                  handler[Pusher(d)], handler[Dialog(d)], Known)
  BY DEF SyncTypeOK
<1>2. PICK q \in pass[d].pushes : /\ handler'[Pusher(d)] = Cloud!Received(q.request)
                                  /\ pass'[d] = StartPush(pass[d], q)
  BY <1>1, PushDoes
<1>3. q \in PushCall(Known) /\ PassTyped(pass[d], Known)
  BY <1>1 DEF WindowOK, PassTyped
<1>4. /\ PassTyped(pass'[d], Known) /\ pass'[d].pc = "calling" /\ pass'[d].current = q
      /\ handler'[Pusher(d)] \in Cloud!Handler
      /\ handler'[Pusher(d)].stage = "received" /\ handler'[Pusher(d)].req = q.request
  BY <1>2, <1>3, CallingTyped, PushParts, ReceivedHandler
<1>5. WindowOK(pass'[d], conflicts'[d], resolution'[d],
               handler'[Pusher(d)], handler'[Dialog(d)], Known)
  BY <1>1, <1>3, <1>4, PushDoes DEF WindowOK, CallsOK, Serves
<1> QED
  BY <1>1, <1>5, PushDoes, TypesAfter DEF SameStore

LEMMA AnswerTypes ==
  ASSUME SyncTypeOK, NEW d \in Devices,
         PushAccepted(d) \/ PushConflicts(d) \/ PushCollides(d) \/ PushLost(d)
  PROVE  SyncTypeOK' /\ Known' = Known
<1>1. Shape /\ StoreOK(rows[d], issued[d], Known)
      /\ WindowOK(pass[d], conflicts[d], resolution[d],
                  handler[Pusher(d)], handler[Dialog(d)], Known)
  BY DEF SyncTypeOK
<1>2. Taken(d)
  BY <1>1, PushAcceptedDoes, PushConflictsDoes, PushCollidesDoes, PushLostDoes, ZenonT(60)
<1>3. /\ PassTyped(pass[d], Known)
      /\ pass[d].current \in PushCall(Known) /\ pass[d].found \subseteq CardOf(Known)
      /\ Answer(d).stage = "replied" => Serves(Answer(d), pass[d].current.request, Known)
  BY <1>1, <1>2 DEF WindowOK, CallsOK, PassTyped, Taken, Answer
<1>6. ASSUME NEW found \in SUBSET CardOf(Known)
      PROVE  /\ PassTyped(NextPush(pass[d], found), Known)
             /\ NextPush(pass[d], found).pc = "pushing"
  BY <1>3, CallingTyped
<1>4. \/ pass'[d].pc = "pushing" /\ PassTyped(pass'[d], Known)
      \/ /\ pass'[d].pc = "marking" /\ PassTyped(pass'[d], Known)
         /\ pass'[d].current \in PushCall(Known) /\ pass'[d].mark \in MarkOf(Known)
  <2>1. CASE PushAccepted(d)
    <3> DEFINE m == MarkEntry(Answer(d).doc, Answer(d).result.version,
                              pass[d].current.request.op = "delete", NoPayload)
    <3>1. Answer(d).doc \in Known /\ Answer(d).result.version \in Nat
      BY <1>1, <1>3, <2>1, PushAcceptedDoes DEF Serves, Doc
    <3>2. m \in MarkOf(Known)
      BY <3>1, MarkEntryOK
    <3> QED
      BY <1>1, <1>3, <2>1, <3>2, PushAcceptedDoes, CallingTyped
  <2>2. CASE PushConflicts(d)
    <3>1. /\ Answer(d).doc \in Known /\ Answer(d).result \in Doc
          /\ pass[d].current.request.op = "update"
      BY <1>1, <1>3, <2>2, PushConflictsDoes, ZenonT(60) DEF Serves
    <3>2. Conflict(pass[d].current.row, pass[d].current.local, Answer(d).doc, Answer(d).result)
            \in CardOf(Known)
      BY <1>3, <3>1, PushParts DEF Conflict, CardOf
    <3> QED
      <4>1. PICK found \in SUBSET CardOf(Known) : pass'[d] = NextPush(pass[d], found)
        <5>1. pass'[d] = NextPush(pass[d], pass[d].found \cup
                {Conflict(pass[d].current.row, pass[d].current.local,
                          Answer(d).doc, Answer(d).result)})
          BY <1>1, <2>2, PushConflictsDoes
        <5> QED
          BY <1>3, <3>2, <5>1
      <4> QED
        BY <1>6, <4>1
  <2>3. CASE PushCollides(d)
    <3>1. pass[d].current.collision \subseteq CardOf(Known)
      BY <1>3, PushParts
    <3> QED
      <4>1. PICK found \in SUBSET CardOf(Known) : pass'[d] = NextPush(pass[d], found)
        <5>1. pass'[d] = NextPush(pass[d], pass[d].found \cup pass[d].current.collision)
          BY <1>1, <2>3, PushCollidesDoes
        <5> QED
          BY <1>3, <3>1, <5>1
      <4> QED
        BY <1>6, <4>1
  <2>4. CASE PushLost(d)
    BY <1>1, <1>3, <1>6, <2>4, PushLostDoes
  <2> QED
    BY <2>1, <2>2, <2>3, <2>4
<1>5. WindowOK(pass'[d], conflicts'[d], resolution'[d],
               handler'[Pusher(d)], handler'[Dialog(d)], Known)
  BY <1>1, <1>2, <1>4, IdleHandler DEF WindowOK, CallsOK, Taken
<1> QED
  BY <1>1, <1>2, <1>5, TypesAfter DEF Taken, SameStore

LEMMA ConfirmTypes ==
  ASSUME SyncTypeOK, NEW d \in Devices, Confirm(d) \/ ConfirmLost(d)
  PROVE  SyncTypeOK' /\ Known' = Known
<1>1. Shape /\ StoreOK(rows[d], issued[d], Known) /\ Known \in SUBSET DocIds
      /\ WindowOK(pass[d], conflicts[d], resolution[d],
                  handler[Pusher(d)], handler[Dialog(d)], Known)
  BY KnownAre DEF SyncTypeOK
<1>2. /\ pass[d].pc = "marking" /\ PassTyped(pass[d], Known)
      /\ pass[d].mark \in MarkOf(Known) /\ pass[d].found \in SUBSET CardOf(Known)
  BY <1>1, ConfirmDoes, ConfirmLostDoes DEF WindowOK, CallsOK, PassTyped
<1>3. /\ OthersStay(d) /\ SameCalls(d) /\ issued'[d] = issued[d]
      /\ conflicts'[d] = conflicts[d] /\ resolution'[d] = resolution[d]
      /\ pass'[d] = NextPush(pass[d], pass[d].found)
  BY <1>1, ConfirmDoes, ConfirmLostDoes DEF PassAlone, SameStore
<1>4. PassTyped(pass'[d], Known) /\ pass'[d].pc = "pushing"
  BY <1>2, <1>3, CallingTyped
<1>5. StoreOK(rows'[d], issued'[d], Known)
  <2>1. CASE Confirm(d)
    <3>1. rows'[d] = Marked(rows[d], [l \in {pass[d].current.row} |-> pass[d].mark])
      BY <1>1, <2>1, ConfirmDoes
    <3>2. \A l \in DOMAIN [l \in {pass[d].current.row} |-> pass[d].mark] :
            [k \in {pass[d].current.row} |-> pass[d].mark][l] \in MarkOf(Known)
      BY <1>2
    <3> QED
      BY <1>1, <1>3, <3>1, <3>2, MarkedOK
  <2>2. CASE ConfirmLost(d)
    BY <1>1, <2>2, ConfirmLostDoes DEF PassAlone, SameStore
  <2> QED
    BY <2>1, <2>2
<1>6. WindowOK(pass'[d], conflicts'[d], resolution'[d],
               handler'[Pusher(d)], handler'[Dialog(d)], Known)
  BY <1>1, <1>2, <1>3, <1>4 DEF WindowOK, CallsOK, SameCalls
<1> QED
  BY <1>3, <1>5, <1>6, TypesAfter

LEMMA PullingTyped ==
  ASSUME NEW D, NEW p, PassTyped(p, D)
  PROVE  /\ PassTyped([p EXCEPT !.pulls = {}], D) /\ PassTyped([p EXCEPT !.marks = <<>>], D)
         /\ [p EXCEPT !.pulls = {}].pc = p.pc /\ [p EXCEPT !.marks = <<>>].pc = p.pc
BY DEF PassTyped, NoPass, Partial

LEMMA PullTypes ==
  ASSUME SyncTypeOK, NEW d \in Devices,
         PullNew(d) \/ MarkPulled(d) \/ PullLost(d)
  PROVE  SyncTypeOK' /\ Known' = Known
<1>1. Shape /\ StoreOK(rows[d], issued[d], Known) /\ Known \in SUBSET DocIds
      /\ WindowOK(pass[d], conflicts[d], resolution[d],
                  handler[Pusher(d)], handler[Dialog(d)], Known)
  BY KnownAre DEF SyncTypeOK
<1>2. /\ OthersStay(d) /\ SameCalls(d) /\ pass[d].pc = "pushing"
      /\ conflicts'[d] = conflicts[d] /\ resolution'[d] = resolution[d]
      /\ \/ pass'[d] = [pass[d] EXCEPT !.pulls = {}]
         \/ pass'[d] = [pass[d] EXCEPT !.marks = <<>>]
  BY <1>1, PullNewDoes, MarkPulledDoes, PullLostDoes DEF PassAlone
<1>3. PassTyped(pass[d], Known)
  BY <1>1 DEF WindowOK
<1>4. PassTyped(pass'[d], Known) /\ pass'[d].pc = "pushing"
  BY <1>2, <1>3, PullingTyped
<1>5. StoreOK(rows'[d], issued'[d], Known)
  <2>1. CASE PullNew(d)
    <3>1. /\ issued[d] \subseteq issued'[d] /\ issued'[d] \subseteq LocalIds
          /\ rows'[d] = [l \in LocalIds |-> rows'[d][l]]
          /\ \A l \in LocalIds :
               \/ rows'[d][l] = rows[d][l]
               \/ l \in issued'[d] /\ \E e \in pass[d].pulls : rows'[d][l] = Local!PulledRow(e)
      BY <1>1, <2>1, PullNewDoes DEF StoreOK
    <3>2. \A e \in pass[d].pulls :
            Local!PulledRow(e) \in RowType /\ Local!PulledRow(e).cloudId \in Known
      BY <1>1, <1>3 DEF PassTyped, PullOf, Local!PulledRow, RowType
    <3> QED
      BY <1>1, <3>1, <3>2, SameData DEF StoreOK
  <2>2. CASE MarkPulled(d)
    <3>1. rows'[d] = Marked(rows[d], pass[d].marks) /\ issued'[d] = issued[d]
      BY <1>1, <2>2, MarkPulledDoes
    <3>2. \A l \in DOMAIN pass[d].marks : pass[d].marks[l] \in MarkOf(Known)
      BY <1>3 DEF PassTyped, Partial
    <3> QED
      BY <1>1, <3>1, <3>2, MarkedOK
  <2>3. CASE PullLost(d)
    BY <1>1, <2>3, PullLostDoes DEF PassAlone, SameStore
  <2> QED
    BY <2>1, <2>2, <2>3
<1>6. WindowOK(pass'[d], conflicts'[d], resolution'[d],
               handler'[Pusher(d)], handler'[Dialog(d)], Known)
  BY <1>1, <1>2, <1>4 DEF WindowOK, CallsOK, SameCalls
<1> QED
  BY <1>2, <1>5, <1>6, TypesAfter

LEMMA EndTypes ==
  ASSUME SyncTypeOK, NEW d \in Devices, EndPass(d) \/ WindowCloses(d)
  PROVE  SyncTypeOK' /\ Known' = Known
<1>1. Shape /\ StoreOK(rows[d], issued[d], Known)
      /\ WindowOK(pass[d], conflicts[d], resolution[d],
                  handler[Pusher(d)], handler[Dialog(d)], Known)
  BY DEF SyncTypeOK
<1>2. CASE EndPass(d)
  <2>1. WindowOK(pass'[d], conflicts'[d], resolution'[d],
                 handler'[Pusher(d)], handler'[Dialog(d)], Known)
    BY <1>1, <1>2, EndPassDoes, NoPassTyped DEF WindowOK, CallsOK, SameCalls, PassTyped
  <2> QED
    BY <1>1, <1>2, <2>1, EndPassDoes, TypesAfter DEF SameStore
<1>3. CASE WindowCloses(d)
  <2>1. WindowOK(pass'[d], conflicts'[d], resolution'[d],
                 handler'[Pusher(d)], handler'[Dialog(d)], Known)
    BY <1>1, <1>3, WindowClosesDoes, NoPassTyped, IdleHandler DEF WindowOK, CallsOK
  <2> QED
    BY <1>1, <1>3, <2>1, WindowClosesDoes, TypesAfter DEF SameStore
<1> QED
  BY <1>2, <1>3

LEMMA KeepCloudTypes ==
  ASSUME SyncTypeOK, NEW d \in Devices, KeepCloud(d)
  PROVE  SyncTypeOK' /\ Known' = Known
<1>1. Shape /\ StoreOK(rows[d], issued[d], Known) /\ Known \in SUBSET DocIds
      /\ WindowOK(pass[d], conflicts[d], resolution[d],
                  handler[Pusher(d)], handler[Dialog(d)], Known)
  BY KnownAre DEF SyncTypeOK
<1>2. PICK k \in conflicts[d] :
        /\ rows'[d] = Marked(rows[d], [l \in {k.row} |->
             MarkEntry(k.doc, k.cloud.version, k.cloud.deleted,
                       IF k.cloud.deleted THEN NoPayload ELSE k.cloud.payload)])
        /\ conflicts'[d] = Without(conflicts[d], k.row)
  BY <1>1, KeepCloudDoes
<1>3. MarkEntry(k.doc, k.cloud.version, k.cloud.deleted,
                IF k.cloud.deleted THEN NoPayload ELSE k.cloud.payload) \in MarkOf(Known)
  BY <1>1 DEF WindowOK, CardOf, Doc, MarkEntry, MarkOf
<1>4. StoreOK(rows'[d], issued'[d], Known)
  BY <1>1, <1>2, <1>3, MarkedOK, KeepCloudDoes
<1>5. WindowOK(pass'[d], conflicts'[d], resolution'[d],
               handler'[Pusher(d)], handler'[Dialog(d)], Known)
  BY <1>1, <1>2, KeepCloudDoes DEF WindowOK, SameCalls, Without
<1> QED
  BY <1>1, <1>4, <1>5, TypesAfter, KeepCloudDoes

LEMMA ResolutionParts ==
  ASSUME NEW D \in SUBSET DocIds, NEW r \in Resolution(D)
  PROVE  /\ r.card \in CardOf(D) /\ r.doc \in D \cup {NoDoc} /\ r.version \in Nat
         /\ r.stage \in {"recreating", "target", "forcing", "marking"}
         /\ r.stage # "recreating" /\ r.doc \in D => DialogRequest(r) \in Cloud!Request
         /\ r.stage = "recreating" => DialogRequest(r) \in Cloud!Request
BY SameData DEF Resolution, DialogRequest, CardOf, RequestType

LEMMA Resolves ==
  ASSUME NEW D \in SUBSET DocIds
  PROVE  /\ \A r \in Resolution(D) : r # NoCall
         /\ \A k \in CardOf(D) : Opening(k) \in Resolution(D) /\ Aiming(k) \in Resolution(D)
         /\ \A r \in Resolution(D), i \in D :
              /\ AimAt(r, i) \in Resolution(D) /\ AimAt(r, i).stage = "target"
              /\ AimAt(r, i).doc = i /\ AimAt(r, i).card = r.card
         /\ \A r \in Resolution(D) :
              /\ [r EXCEPT !.stage = "forcing"] \in Resolution(D)
              /\ [r EXCEPT !.stage = "forcing"].stage = "forcing"
              /\ [r EXCEPT !.stage = "forcing"].doc = r.doc
              /\ [r EXCEPT !.stage = "forcing"].card = r.card
         /\ \A r \in Resolution(D), v \in Nat :
              /\ Settle(r, v) \in Resolution(D) /\ Settle(r, v).stage = "marking"
              /\ Settle(r, v).doc = r.doc /\ Settle(r, v).card = r.card
              /\ Settle(r, v).version = v
<1>1. \A r \in Resolution(D) : r # NoCall
  <2>1. Resolution(D) \subseteq Resolution(DocIds)
    BY DEF Resolution, CardOf
  <2> QED
    BY <2>1, NoCallAssumption
<1>2. \A k \in CardOf(D) : Opening(k) \in Resolution(D) /\ Aiming(k) \in Resolution(D)
  BY DEF Opening, Aiming, Resolution, CardOf
<1> QED
  BY <1>1, <1>2 DEF AimAt, Settle, Resolution

LEMMA KeepLocalTypes ==
  ASSUME SyncTypeOK, NEW d \in Devices, KeepLocal(d)
  PROVE  SyncTypeOK' /\ Known' = Known
<1>1. Shape /\ StoreOK(rows[d], issued[d], Known) /\ Known \in SUBSET DocIds
      /\ WindowOK(pass[d], conflicts[d], resolution[d],
                  handler[Pusher(d)], handler[Dialog(d)], Known)
  BY KnownAre DEF SyncTypeOK
<1>2. PICK k \in conflicts[d] :
        \/ /\ resolution'[d] = Opening(k)
           /\ handler[Dialog(d)].stage = "idle"
           /\ handler'[Dialog(d)] = Cloud!Received([op |-> "create", payload |-> k.local])
        \/ /\ resolution'[d] = Aiming(k)
           /\ handler'[Dialog(d)] = handler[Dialog(d)]
  BY <1>1, KeepLocalDoes
<1>3. k \in CardOf(Known) /\ k.doc \in Known /\ resolution[d] = NoCall
  BY <1>1, KeepLocalDoes DEF WindowOK, CardOf
<1>4. /\ Opening(k).stage = "recreating" /\ Opening(k).card = k
      /\ Aiming(k).stage = "target" /\ Aiming(k).doc = k.doc
  BY DEF Opening, Aiming
<1>5. Opening(k) \in Resolution(Known) /\ Aiming(k) \in Resolution(Known)
      /\ Opening(k) # NoCall /\ Aiming(k) # NoCall
  BY <1>1, <1>3, Resolves
<1>6. CASE /\ resolution'[d] = Opening(k)
           /\ handler'[Dialog(d)] = Cloud!Received([op |-> "create", payload |-> k.local])
  <2>1. DialogRequest(Opening(k)) = [op |-> "create", payload |-> k.local]
    BY <1>4 DEF DialogRequest
  <2>2. /\ handler'[Dialog(d)] \in Cloud!Handler
        /\ handler'[Dialog(d)].stage = "received"
        /\ handler'[Dialog(d)].req = DialogRequest(Opening(k))
    BY <1>1, <1>4, <1>5, <1>6, <2>1, ReceivedHandler, ResolutionParts
  <2> QED
    <3>1. WindowOK(pass'[d], conflicts'[d], resolution'[d],
                   handler'[Pusher(d)], handler'[Dialog(d)], Known)
      BY <1>1, <1>4, <1>5, <1>6, <2>2, KeepLocalDoes DEF WindowOK, CallsOK, Serves
    <3> QED
      BY <1>1, <3>1, KeepLocalDoes, TypesAfter DEF SameStore
<1>7. CASE resolution'[d] = Aiming(k) /\ handler'[Dialog(d)] = handler[Dialog(d)]
  <2>1. WindowOK(pass'[d], conflicts'[d], resolution'[d],
                 handler'[Pusher(d)], handler'[Dialog(d)], Known)
    BY <1>1, <1>3, <1>4, <1>5, <1>7, KeepLocalDoes DEF WindowOK, CallsOK
  <2> QED
    BY <1>1, <2>1, KeepLocalDoes, TypesAfter DEF SameStore
<1> QED
  BY <1>2, <1>6, <1>7

LEMMA ResolveTypes ==
  ASSUME SyncTypeOK, NEW d \in Devices, DialogStep(d) \/ KeepLocalLost(d)
  PROVE  SyncTypeOK' /\ Known' = Known
<1>1. Shape /\ StoreOK(rows[d], issued[d], Known) /\ Known \in SUBSET DocIds
      /\ WindowOK(pass[d], conflicts[d], resolution[d],
                  handler[Pusher(d)], handler[Dialog(d)], Known)
  BY KnownAre DEF SyncTypeOK
<1> DEFINE r == resolution[d]
<1>2. r # NoCall => /\ r \in Resolution(Known) /\ r.card \in CardOf(Known)
                    /\ r.stage # "recreating" => r.doc \in Known
  BY <1>1, ResolutionParts DEF WindowOK, CallsOK
<1>3. handler[Dialog(d)].stage = "replied" => Serves(handler[Dialog(d)], DialogRequest(r), Known)
  BY <1>1 DEF WindowOK, CallsOK
<1> HIDE DEF r
<1> USE DEF r
<1>4. CASE Recreated(d)
  <2>1. handler[Dialog(d)].doc \in Known
    BY <1>1, <1>3, <1>4, RecreatedDoes DEF Serves
  <2>2. /\ resolution'[d] \in Resolution(Known) /\ resolution'[d] # NoCall
        /\ resolution'[d].stage = "target" /\ resolution'[d].doc \in Known
    BY <1>1, <1>2, <1>4, <2>1, RecreatedDoes, Resolves DEF DialogAlone
  <2>3. WindowOK(pass'[d], conflicts'[d], resolution'[d],
                 handler'[Pusher(d)], handler'[Dialog(d)], Known)
    BY <1>1, <1>4, <2>2, RecreatedDoes, IdleHandler DEF WindowOK, CallsOK, DialogAlone
  <2> QED
    BY <1>1, <1>4, <2>3, RecreatedDoes, TypesAfter DEF DialogAlone, SameStore
<1>5. CASE ForceLocal(d)
  <2> DEFINE s == [r EXCEPT !.stage = "forcing"]
  <2>1. /\ s \in Resolution(Known) /\ s # NoCall /\ s.stage = "forcing" /\ s.doc = r.doc
        /\ s.doc \in Known /\ s.card = r.card /\ resolution'[d] = s
    <3>1. r # NoCall /\ r.stage = "target" /\ resolution'[d] = s
      BY <1>1, <1>5, ForceLocalDoes DEF DialogAlone
    <3>2. r \in Resolution(Known) /\ r.doc \in Known
      BY <1>2, <3>1
    <3> QED
      BY <1>1, <3>1, <3>2, Resolves
  <2>2. handler'[Dialog(d)] = Cloud!Received(DialogRequest(s))
    BY <1>1, <1>5, <2>1, ForceLocalDoes DEF DialogRequest
  <2>3. DialogRequest(s) \in Cloud!Request
    BY <1>1, <2>1, ResolutionParts, ZenonT(60)
  <2>4. /\ handler'[Dialog(d)] \in Cloud!Handler
        /\ handler'[Dialog(d)].stage = "received" /\ handler'[Dialog(d)].req = DialogRequest(s)
    BY <2>2, <2>3, ReceivedHandler
  <2> HIDE DEF s
  <2>5. WindowOK(pass'[d], conflicts'[d], resolution'[d],
                 handler'[Pusher(d)], handler'[Dialog(d)], Known)
    <3>1. /\ pass'[d] = pass[d] /\ conflicts'[d] = conflicts[d]
          /\ handler'[Pusher(d)] = handler[Pusher(d)]
      BY <1>1, <1>5, ForceLocalDoes DEF DialogAlone
    <3> QED
      BY <1>1, <2>1, <2>4, <3>1 DEF WindowOK, CallsOK, Serves
  <2> QED
    BY <1>1, <1>5, <2>5, ForceLocalDoes, TypesAfter DEF DialogAlone, SameStore
<1>6. CASE Forced(d)
  <2>1. handler[Dialog(d)].result.version \in Nat
    BY <1>1, <1>3, <1>6, ForcedDoes DEF Serves, Doc
  <2>2. r # NoCall /\ r.stage = "forcing" /\ r.doc \in Known /\ r \in Resolution(Known)
    BY <1>1, <1>2, <1>6, ForcedDoes DEF DialogAlone
  <2>3. /\ resolution'[d] \in Resolution(Known) /\ resolution'[d] # NoCall
        /\ resolution'[d].stage = "marking" /\ resolution'[d].doc \in Known
    <3>1. resolution'[d] = Settle(r, handler[Dialog(d)].result.version)
      BY <1>1, <1>6, ForcedDoes
    <3> QED
      <4>1. PICK v \in Nat : resolution'[d] = Settle(r, v)
        BY <2>1, <3>1
      <4>2. /\ Settle(r, v) \in Resolution(Known) /\ Settle(r, v).stage = "marking"
            /\ Settle(r, v).doc = r.doc
        BY <1>1, <2>2, Resolves
      <4> QED
        BY <1>1, <2>2, <4>1, <4>2, Resolves
  <2>4. WindowOK(pass'[d], conflicts'[d], resolution'[d],
                 handler'[Pusher(d)], handler'[Dialog(d)], Known)
    BY <1>1, <1>6, <2>3, ForcedDoes, IdleHandler DEF WindowOK, CallsOK, DialogAlone
  <2> QED
    BY <1>1, <1>6, <2>4, ForcedDoes, TypesAfter DEF DialogAlone, SameStore
<1>7. CASE FinishKeepLocal(d)
  <2>1. r # NoCall /\ r.stage = "marking" /\ r.doc \in Known /\ r.version \in Nat
    BY <1>1, <1>2, <1>7, FinishKeepLocalDoes, ResolutionParts
  <2>2. MarkEntry(r.doc, r.version, FALSE, NoPayload) \in MarkOf(Known)
    BY <2>1, MarkEntryOK
  <2>3. StoreOK(rows'[d], issued'[d], Known)
    <3>1. /\ issued'[d] = issued[d]
          /\ rows'[d] = Marked(rows[d], [l \in {r.card.row} |->
                          MarkEntry(r.doc, r.version, FALSE, NoPayload)])
      BY <1>1, <1>7, FinishKeepLocalDoes
    <3> QED
      BY <1>1, <2>2, <3>1, MarkedOK
  <2>4. handler[Dialog(d)].stage = "idle"
    BY <1>1, <2>1 DEF WindowOK, CallsOK
  <2>5. WindowOK(pass'[d], conflicts'[d], resolution'[d],
                 handler'[Pusher(d)], handler'[Dialog(d)], Known)
    BY <1>1, <1>7, <2>4, FinishKeepLocalDoes DEF WindowOK, CallsOK, SameCalls, Without
  <2> QED
    BY <1>1, <1>7, <2>3, <2>5, FinishKeepLocalDoes, TypesAfter
<1>8. CASE KeepLocalRefused(d) \/ KeepLocalLost(d)
  <2>1. handler'[Dialog(d)] \in Cloud!Handler /\ handler'[Dialog(d)].stage = "idle"
    BY <1>1, <1>8, KeepLocalEnds, IdleHandler DEF WindowOK, CallsOK
  <2>2. WindowOK(pass'[d], conflicts'[d], resolution'[d],
                 handler'[Pusher(d)], handler'[Dialog(d)], Known)
    BY <1>1, <1>8, <2>1, KeepLocalEnds DEF WindowOK, CallsOK
  <2> QED
    BY <1>1, <1>8, <2>2, KeepLocalEnds, TypesAfter DEF SameStore
<1> QED
  BY <1>4, <1>5, <1>6, <1>7, <1>8 DEF DialogStep

LEMMA RowsWritten ==
  /\ \A p \in Payload : Local!NewRow(p) \in RowType /\ Local!NewRow(p).cloudId = NoDoc
  /\ \A row \in RowType, p \in Payload :
       Local!EditedRow(row, p) \in RowType /\ Local!EditedRow(row, p).cloudId = row.cloudId
  /\ \A row \in RowType :
       Local!BuriedRow(row) \in RowType /\ Local!BuriedRow(row).cloudId = row.cloudId
<1>1. \A p \in Payload : Local!NewRow(p) \in RowType /\ Local!NewRow(p).cloudId = NoDoc
  BY DEF Local!NewRow, RowType
<1>2. ASSUME NEW row \in RowType, NEW p \in Payload
      PROVE  Local!EditedRow(row, p) \in RowType /\ Local!EditedRow(row, p).cloudId = row.cloudId
  <2>1. PICK v \in Nat : v = row.version + 1
    BY DEF RowType
  <2> QED
    BY <2>1 DEF Local!EditedRow, RowType
<1>3. ASSUME NEW row \in RowType
      PROVE  Local!BuriedRow(row) \in RowType /\ Local!BuriedRow(row).cloudId = row.cloudId
  <2>1. PICK v \in Nat : v = row.version + 1
    BY DEF RowType
  <2> QED
    BY <2>1 DEF Local!BuriedRow, RowType
<1> QED
  BY <1>1, <1>2, <1>3

LEMMA UserTypes ==
  ASSUME SyncTypeOK, NEW d \in Devices, UserCreates(d) \/ UserEdits(d) \/ UserDeletes(d)
  PROVE  SyncTypeOK' /\ Known' = Known
<1>1. Shape /\ StoreOK(rows[d], issued[d], Known)
      /\ WindowOK(pass[d], conflicts[d], resolution[d],
                  handler[Pusher(d)], handler[Dialog(d)], Known)
  BY DEF SyncTypeOK
<1>2. PICK l \in LocalIds :
        /\ \A k \in LocalIds \ {l} : rows'[d][k] = rows[d][k]
        /\ rows'[d] = [k \in LocalIds |-> rows'[d][k]]
        /\ \/ /\ l \notin issued[d] /\ issued'[d] = issued[d] \cup {l}
              /\ \E p \in Payload : rows'[d][l] = Local!NewRow(p)
           \/ /\ rows[d][l] # NoRow /\ ~rows[d][l].deleted /\ issued'[d] = issued[d]
              /\ \E p \in Payload : /\ rows'[d][l] = Local!EditedRow(rows[d][l], p)
                                    /\ DerivesFrom(p, rows[d][l].payload)
           \/ /\ rows[d][l] # NoRow /\ ~rows[d][l].deleted /\ issued'[d] = issued[d]
              /\ rows'[d][l] = IF Local!Linked(rows[d][l])
                                 THEN Local!BuriedRow(rows[d][l]) ELSE NoRow
  BY UserActsDo
<1>3. /\ issued'[d] \subseteq LocalIds /\ issued[d] \subseteq issued'[d]
      /\ \/ rows'[d][l] = NoRow
         \/ /\ rows'[d][l] \in RowType /\ l \in issued'[d]
            /\ rows'[d][l].cloudId \in Known \cup {NoDoc}
  BY <1>1, <1>2, RowsWritten, SameData DEF StoreOK
<1>4. StoreOK(rows'[d], issued'[d], Known)
  BY <1>1, <1>2, <1>3, SameData DEF StoreOK
<1>5. WindowOK(pass'[d], conflicts'[d], resolution'[d],
               handler'[Pusher(d)], handler'[Dialog(d)], Known)
  BY <1>1, UserActsDo DEF SameWindow, SameCalls
<1> QED
  BY <1>4, <1>5, UserActsDo, TypesAfter

DeviceStep(d) == StartPass(d) \/ PassStep(d) \/ DialogStep(d) \/ User(d) \/ Fault(d)

LEMMA DeviceTypes ==
  ASSUME SyncTypeOK, NEW d \in Devices, DeviceStep(d)
  PROVE  SyncTypeOK' /\ Known' = Known
BY ReadTypes, DecideTypes, PushTypes, AnswerTypes, ConfirmTypes, PullTypes, EndTypes,
   KeepCloudTypes, KeepLocalTypes, ResolveTypes, UserTypes
DEF DeviceStep, PassStep, DialogStep, User, Fault

-----------------------------------------------------------------------------
(* The cloud's steps. *)

\* What the handler of client c can do for request req, with h = handler[c].
Moves(c, h, req) ==
  \/ /\ h.stage = "received" /\ docs' = docs
     /\ req.op # "create" /\ req.doc \notin Known
  \/ /\ h.stage = "received" /\ docs' = docs
     /\ req.op = "update" /\ ~req.force /\ docs[req.doc].version # req.expected
     /\ handler'[c] = Cloud!Replied(409, req.doc, docs[req.doc])
  \/ /\ h.stage = "received" /\ docs' = docs
     /\ UniqueNames /\ req.op = "create" /\ handler'[c] = Cloud!Replied(400, NoDoc, NoDoc)
  \/ /\ h.stage = "received" /\ docs' = docs
     /\ req.op = "update" => req.force \/ docs[req.doc].version = req.expected
     /\ req.op = "create" => handler'[c] = Cloud!Staged(req, 0)
     /\ req.op # "create" => handler'[c] = Cloud!Staged(req, docs[req.doc].version)
  \/ /\ h.stage = "staged" /\ req.op = "create"
     /\ \E i \in DocIds \ Known :
          /\ docs' = [docs EXCEPT ![i] = Cloud!CreatedDoc(req.payload)]
          /\ handler'[c] = Cloud!Replied(200, i, Cloud!CreatedDoc(req.payload))
  \/ /\ h.stage = "staged" /\ req.op = "update"
     /\ LET new == Cloud!UpdatedDoc(docs[req.doc], h.read, req.payload) IN
          /\ docs' = [docs EXCEPT ![req.doc] = new]
          /\ handler'[c] = Cloud!Replied(200, req.doc, new)
  \/ /\ h.stage = "staged" /\ req.op = "delete"
     /\ LET new == Cloud!BuriedDoc(docs[req.doc], h.read) IN
          /\ docs' = [docs EXCEPT ![req.doc] = new]
          /\ handler'[c] = Cloud!Replied(200, req.doc, new)

LEMMA HandlerMoves ==
  ASSUME SyncTypeOK, NEW c \in Clients, Cloud!HandlerStep(c),
         NEW req \in Cloud!Request, handler[c].req = req,
         req.op # "create" => req.doc \in Known
  PROVE  Moves(c, handler[c], req)
<1> USE DEF Moves
<1>1. DOMAIN handler = Clients
  BY DEF SyncTypeOK, Shape
<1>2. CASE Cloud!RaiseNotFound(c)
  BY <1>2 DEF Cloud!RaiseNotFound, Cloud!Missing, Known, Cloud!Exists
<1>3. CASE Cloud!RaiseConflict(c)
  BY <1>1, <1>3 DEF Cloud!RaiseConflict, Cloud!Conflicting, Cloud!Answer
<1>4. CASE Cloud!RaiseNameTaken(c)
  BY <1>1, <1>4 DEF Cloud!RaiseNameTaken, Cloud!Colliding, Cloud!Answer
<1>5. CASE Cloud!FindOne(c)
  <2>1. req.op = "update" => req.force \/ docs[req.doc].version = req.expected
    BY <1>5 DEF Cloud!FindOne, Cloud!Conflicting, Known, Cloud!Exists
  <2> QED
    BY <1>1, <1>5, <2>1 DEF Cloud!FindOne
<1>6. CASE Cloud!InsertOne(c)
  <2>1. PICK i \in DocIds \ Known : Cloud!Write(c, i, Cloud!CreatedDoc(req.payload))
    BY <1>6, SameData DEF Cloud!InsertOne, Cloud!Unused, Known, Cloud!Exists
  <2> QED
    BY <1>1, <1>6, <2>1, ZenonT(60) DEF Cloud!InsertOne, Cloud!Pending, Cloud!Write, Cloud!Answer
<1>7. CASE Cloud!UpdateOne(c)
  BY <1>1, <1>7 DEF Cloud!UpdateOne, Cloud!Pending, Cloud!Write, Cloud!Answer
<1>8. CASE Cloud!SoftDelete(c)
  BY <1>1, <1>8 DEF Cloud!SoftDelete, Cloud!Pending, Cloud!Write, Cloud!Answer
<1> QED
  BY <1>2, <1>3, <1>4, <1>5, <1>6, <1>7, <1>8 DEF Cloud!HandlerStep

\* The documents that are written are well typed.
LEMMA CreatedDocs ==
  ASSUME NEW p \in Payload
  PROVE  Cloud!CreatedDoc(p) \in Doc
<1>1. [p EXCEPT !.edits = {}] \in Payload
  BY DEF Payload
<1> QED
  BY <1>1 DEF Cloud!CreatedDoc, Doc

LEMMA UpdatedDocs ==
  \A doc \in Doc, v \in Nat, p \in Payload :
     /\ Cloud!UpdatedDoc(doc, v, p) \in Doc
     /\ Cloud!UpdatedDoc(doc, v, p).version = v + 1
     /\ Cloud!UpdatedDoc(doc, v, p).payload = p
<1> SUFFICES ASSUME NEW doc \in Doc, NEW v \in Nat, NEW p \in Payload
             PROVE  /\ Cloud!UpdatedDoc(doc, v, p) \in Doc
                    /\ Cloud!UpdatedDoc(doc, v, p).version = v + 1
                    /\ Cloud!UpdatedDoc(doc, v, p).payload = p
  OBVIOUS
<1>1. v + 1 \in Nat
  OBVIOUS
<1> QED
  BY <1>1 DEF Cloud!UpdatedDoc, Doc

LEMMA BuriedDocs ==
  ASSUME NEW doc \in Doc, NEW v \in Nat
  PROVE  Cloud!BuriedDoc(doc, v) \in Doc /\ Cloud!BuriedDoc(doc, v).version = v + 1
<1>1. v + 1 \in Nat
  OBVIOUS
<1> QED
  BY <1>1 DEF Cloud!BuriedDoc, Doc

LEMMA RequestParts ==
  ASSUME NEW req \in Cloud!Request
  PROVE  /\ req.op \in {"create", "update", "delete"}
         /\ req.op # "delete" => req.payload \in Payload
         /\ req.op # "create" => req.doc \in DocIds
         /\ req.op = "update" => req.expected \in Nat /\ req.force \in BOOLEAN
BY SameData DEF RequestType

\* A handler goes on serving its request, and documents never go away.
LEMMA HandlerServes ==
  ASSUME SyncTypeOK, NEW c \in Clients, NEW req \in Cloud!Request,
         handler[c] \in Cloud!Handler,
         req.op # "create" => req.doc \in Known,
         Moves(c, handler[c], req)
  PROVE  /\ docs' \in [DocIds -> Doc \cup {NoDoc}] /\ Known \subseteq Known'
         /\ handler'[c] \in Cloud!Handler
         /\ handler'[c].stage # "idle"
         /\ Serves(handler'[c], req, Known')
<1> DEFINE h == handler[c]
<1>1. /\ Known \subseteq DocIds /\ \A i \in Known : docs[i] \in Doc /\ docs[i].version \in Nat
      /\ docs \in [DocIds -> Doc \cup {NoDoc}]
      /\ h.stage = "staged" => h.read \in Nat
      /\ NoDoc \notin Doc
  BY KnownAre, HandlerParts, SentinelAssumption DEF SyncTypeOK, Doc
<1>2. \A status \in {200, 400, 409}, i \in DocIds \cup {NoDoc}, doc \in Doc \cup {NoDoc} :
        /\ Cloud!Replied(status, i, doc) \in Cloud!Handler
        /\ Cloud!Replied(status, i, doc).stage = "replied"
        /\ Cloud!Replied(status, i, doc).status = status
        /\ Cloud!Replied(status, i, doc).doc = i
        /\ Cloud!Replied(status, i, doc).result = doc
  BY SameData DEF HandlerType, Cloud!Replied
<1>3. \A v \in Nat : /\ Cloud!Staged(req, v) \in Cloud!Handler
                     /\ Cloud!Staged(req, v).stage = "staged" /\ Cloud!Staged(req, v).req = req
  BY SameData DEF HandlerType, Cloud!Staged
<1>4. CASE h.stage = "received"
  <2>1. docs' = docs /\ Known' = Known
    BY <1>4 DEF Moves, Known, Cloud!Exists
  <2>2. \/ req.op = "update" /\ ~req.force /\ handler'[c] = Cloud!Replied(409, req.doc, docs[req.doc])
        \/ req.op = "create" /\ handler'[c] = Cloud!Replied(400, NoDoc, NoDoc)
        \/ \E v \in Nat : handler'[c] = Cloud!Staged(req, v)
    BY <1>1, <1>4 DEF Moves
  <2>3. CASE req.op = "update" /\ ~req.force /\ handler'[c] = Cloud!Replied(409, req.doc, docs[req.doc])
    BY <1>1, <1>2, <2>1, <2>3 DEF Serves
  <2>4. CASE req.op = "create" /\ handler'[c] = Cloud!Replied(400, NoDoc, NoDoc)
    <3>1. /\ Cloud!Replied(400, NoDoc, NoDoc) \in Cloud!Handler
          /\ Cloud!Replied(400, NoDoc, NoDoc).stage = "replied"
          /\ Cloud!Replied(400, NoDoc, NoDoc).status = 400
      <4>1. NoDoc \in DocIds \cup {NoDoc} /\ NoDoc \in Doc \cup {NoDoc}
        OBVIOUS
      <4> QED
        BY <1>2, <4>1
    <3> QED
      BY <1>1, <2>1, <2>4, <3>1 DEF Serves
  <2>5. CASE \E v \in Nat : handler'[c] = Cloud!Staged(req, v)
    BY <1>1, <1>3, <2>1, <2>5 DEF Serves
  <2> QED
    BY <2>2, <2>3, <2>4, <2>5
<1>5. CASE h.stage = "staged"
  <2>1. PICK i \in DocIds, doc \in Doc :
          docs' = [docs EXCEPT ![i] = doc] /\ handler'[c] = Cloud!Replied(200, i, doc)
    <3>1. CASE req.op = "create"
      BY <1>5, <3>1, CreatedDocs, RequestParts DEF Moves
    <3>2. CASE req.op = "update"
      <4>1. /\ req.doc \in DocIds
            /\ Cloud!UpdatedDoc(docs[req.doc], h.read, req.payload) \in Doc
        BY <1>1, <1>5, <3>2, UpdatedDocs, RequestParts
      <4> QED
        BY <1>5, <3>2, <4>1 DEF Moves
    <3>3. CASE req.op = "delete"
      <4>1. req.doc \in DocIds /\ Cloud!BuriedDoc(docs[req.doc], h.read) \in Doc
        BY <1>1, <1>5, <3>3, BuriedDocs, RequestParts
      <4> QED
        BY <1>5, <3>3, <4>1 DEF Moves
    <3> QED
      BY <3>1, <3>2, <3>3, RequestParts
  <2>2. docs' \in [DocIds -> Doc \cup {NoDoc}] /\ Known \subseteq Known' /\ i \in Known'
    BY <1>1, <2>1 DEF Known, Cloud!Exists
  <2> QED
    BY <1>2, <2>1, <2>2 DEF Serves
<1> QED
  BY <1>4, <1>5 DEF Moves

\* With more documents known, everything stays well typed.
LEMMA MoreKnown ==
  ASSUME NEW D \in SUBSET DocIds, NEW E \in SUBSET DocIds, D \subseteq E
  PROVE  /\ CardOf(D) \subseteq CardOf(E) /\ PushCall(D) \subseteq PushCall(E)
         /\ Resolution(D) \subseteq Resolution(E) /\ MarkOf(D) \subseteq MarkOf(E)
         /\ PullOf(D) \subseteq PullOf(E) /\ StateEntry(D) \subseteq StateEntry(E)
         /\ \A rs, ids : StoreOK(rs, ids, D) => StoreOK(rs, ids, E)
         /\ \A p : PassTyped(p, D) => PassTyped(p, E)
         /\ \A h, req : Serves(h, req, D) => Serves(h, req, E)
<1>1. CardOf(D) \subseteq CardOf(E)
  BY DEF CardOf
<1>2. PushCall(D) \subseteq PushCall(E)
  BY <1>1 DEF PushCall
<1>3. Resolution(D) \subseteq Resolution(E)
  BY <1>1 DEF Resolution
<1>4. MarkOf(D) \subseteq MarkOf(E) /\ PullOf(D) \subseteq PullOf(E) /\ StateEntry(D) \subseteq StateEntry(E)
  BY DEF MarkOf, PullOf, StateEntry
<1>5. \A rs, ids : StoreOK(rs, ids, D) => StoreOK(rs, ids, E)
  BY DEF StoreOK
<1>6. \A f, S : /\ Partial(f, S, StateEntry(D)) => Partial(f, S, StateEntry(E))
                /\ Partial(f, S, MarkOf(D)) => Partial(f, S, MarkOf(E))
  BY <1>4 DEF Partial
<1>7. \A f, T : Partial(f, D, T) => Partial(f, E, T)
  BY DEF Partial
<1>8. \A p : PassTyped(p, D) => PassTyped(p, E)
  BY <1>1, <1>2, <1>4, <1>6, <1>7 DEF PassTyped
<1> QED
  BY <1>1, <1>2, <1>3, <1>4, <1>5, <1>8 DEF Serves

LEMMA CloudTypes ==
  ASSUME SyncTypeOK, CloudStep
  PROVE  /\ SyncTypeOK' /\ Known \subseteq Known'
         /\ \E d \in Devices :
              /\ \A e \in Devices \ {d} : SameCalls(e)
              /\ \/ /\ handler[Pusher(d)].stage # "idle" /\ handler'[Pusher(d)].stage # "idle"
                    /\ handler'[Dialog(d)] = handler[Dialog(d)]
                    /\ Moves(Pusher(d), handler[Pusher(d)], pass[d].current.request)
                 \/ /\ handler[Dialog(d)].stage # "idle" /\ handler'[Dialog(d)].stage # "idle"
                    /\ handler'[Pusher(d)] = handler[Pusher(d)]
                    /\ Moves(Dialog(d), handler[Dialog(d)], DialogRequest(resolution[d]))
<1>1. Shape /\ Known \in SUBSET DocIds /\ Known' \in SUBSET DocIds
  BY KnownAre DEF SyncTypeOK, Known
<1>2. PICK c \in Clients : Cloud!HandlerStep(c) /\ \A o \in Clients \ {c} : handler'[o] = handler[o]
  BY <1>1, CloudStepDoes
<1>3. /\ Shape' /\ lastEdit' = lastEdit /\ faults' = faults
      /\ \A d \in Devices : SameStore(d) /\ SameWindow(d)
  BY <1>1, CloudStepDoes
<1>4. handler[c].stage \in {"received", "staged"}
  BY <1>2 DEF Cloud!HandlerStep, Cloud!RaiseNotFound, Cloud!RaiseConflict, Cloud!RaiseNameTaken,
     Cloud!FindOne, Cloud!InsertOne, Cloud!UpdateOne, Cloud!SoftDelete, Cloud!Pending
<1>5. PICK d \in Devices : c = Pusher(d) \/ c = Dialog(d)
  BY ClientsDiffer
<1>6. \A e \in Devices \ {d} : SameCalls(e)
  BY <1>2, <1>5, ClientsDiffer DEF SameCalls
<1>7. \A e \in Devices : /\ StoreOK(rows[e], issued[e], Known)
                         /\ WindowOK(pass[e], conflicts[e], resolution[e],
                                     handler[Pusher(e)], handler[Dialog(e)], Known)
  BY DEF SyncTypeOK
<1> DEFINE req == IF c = Pusher(d) THEN pass[d].current.request ELSE DialogRequest(resolution[d])
<1>8. /\ handler[c] \in Cloud!Handler /\ handler[c].req = req
      /\ req \in Cloud!Request /\ (req.op # "create" => req.doc \in Known)
  <2>1. CASE c = Pusher(d)
    <3>1. pass[d].current \in PushCall(Known) /\ handler[c] \in Cloud!Handler
          /\ handler[c].req = pass[d].current.request
      BY <1>4, <1>7, <2>1 DEF WindowOK, CallsOK, Serves
    <3> QED
      BY <2>1, <3>1, PushParts
  <2>2. CASE c = Dialog(d)
    <3>1. /\ c # Pusher(d) /\ handler[c] \in Cloud!Handler
          /\ handler[c].req = DialogRequest(resolution[d]) /\ resolution[d] \in Resolution(Known)
          /\ resolution[d].stage # "recreating" => resolution[d].doc \in Known
      BY <1>4, <1>7, <2>2, ClientsDiffer DEF WindowOK, CallsOK, Serves
    <3>2. DialogRequest(resolution[d]) \in Cloud!Request
      BY <1>1, <3>1, ResolutionParts
    <3>3. DialogRequest(resolution[d]).op # "create" => DialogRequest(resolution[d]).doc \in Known
      BY <3>1 DEF DialogRequest
    <3> QED
      BY <3>1, <3>2, <3>3
  <2> QED
    BY <1>5, <2>1, <2>2
<1>9. Moves(c, handler[c], req)
  BY <1>2, <1>8, HandlerMoves
<1>10. /\ docs' \in [DocIds -> Doc \cup {NoDoc}] /\ Known \subseteq Known'
       /\ handler'[c] \in Cloud!Handler
       /\ handler'[c].stage # "idle"
       /\ Serves(handler'[c], req, Known')
  BY <1>8, <1>9, HandlerServes
<1>11. \/ /\ c = Pusher(d) /\ req = pass[d].current.request
          /\ handler'[Dialog(d)] = handler[Dialog(d)]
       \/ /\ c = Dialog(d) /\ req = DialogRequest(resolution[d])
          /\ handler'[Pusher(d)] = handler[Pusher(d)]
  BY <1>2, <1>5, ClientsDiffer
<1> HIDE DEF req
<1>12. ASSUME NEW e \in Devices
       PROVE  /\ StoreOK(rows'[e], issued'[e], Known')
              /\ WindowOK(pass'[e], conflicts'[e], resolution'[e],
                          handler'[Pusher(e)], handler'[Dialog(e)], Known')
  <2>1. /\ StoreOK(rows'[e], issued'[e], Known') /\ PassTyped(pass'[e], Known')
        /\ conflicts'[e] \subseteq CardOf(Known') /\ resolution'[e] \in Resolution(Known') \cup {NoCall}
    BY <1>1, <1>3, <1>7, <1>10, MoreKnown DEF SameStore, SameWindow, WindowOK
  <2>2. WindowOK(pass[e], conflicts[e], resolution[e],
                 handler[Pusher(e)], handler[Dialog(e)], Known')
    <3>1. CallsOK(pass[e], resolution[e], handler[Pusher(e)], handler[Dialog(e)], Known)
      BY <1>7 DEF WindowOK
    <3>2. /\ PushCall(Known) \subseteq PushCall(Known') /\ MarkOf(Known) \subseteq MarkOf(Known')
          /\ \A h, q : Serves(h, q, Known) => Serves(h, q, Known')
      BY <1>1, <1>10, MoreKnown
    <3>3. CallsOK(pass[e], resolution[e], handler[Pusher(e)], handler[Dialog(e)], Known')
      BY <1>10, <3>1, <3>2 DEF CallsOK
    <3> QED
      BY <1>3, <1>7, <2>1, <3>3 DEF WindowOK, SameWindow
  <2>3. CASE e # d
    BY <1>3, <1>6, <2>1, <2>2, <2>3 DEF SameWindow, SameCalls
  <2>4. CASE e = d
    BY <1>3, <1>4, <1>10, <1>11, <2>1, <2>2, <2>4 DEF SameWindow, WindowOK, CallsOK
  <2> QED
    BY <2>3, <2>4
<1>13. SyncTypeOK'
  BY <1>3, <1>10, <1>12 DEF SyncTypeOK
<1> QED
  BY <1>4, <1>6, <1>9, <1>10, <1>11, <1>13

\* The sync is well typed whatever its users, windows and networks do, and a
\* handler at work always serves the call its pass or dialog waits for: an
\* answer is never taken for another request's, documents never go away, and
\* so the cloud never answers 404.
THEOREM SyncTypeCorrect == Spec => []SyncTypeOK
<1>1. SyncTypeOK /\ [Next]_vars => SyncTypeOK'
  <2>1. CASE UNCHANGED vars
    BY <2>1 DEF vars, localVars, cloudVars, SyncTypeOK, Shape, Known, Cloud!Exists
  <2>2. ASSUME SyncTypeOK, Next PROVE SyncTypeOK'
    <3>1. ASSUME NEW d \in Devices, DeviceStep(d) PROVE SyncTypeOK'
      BY <2>2, <3>1, DeviceTypes
    <3>2. ASSUME CloudStep PROVE SyncTypeOK'
      BY <2>2, <3>2, CloudTypes
    <3> QED
      BY <2>2, <3>1, <3>2 DEF Next, DeviceStep
  <2> QED
    BY <2>1, <2>2
<1> QED
  BY <1>1, InitTypes, PTL DEF Spec

-----------------------------------------------------------------------------
(* A pass and its device's rows agree. *)

LEMMA IdleTrue == \A r, rs : PassTrue(NoPass, r, rs)
BY DEF PassTrue, NoPass, UnderWay

LEMMA LocalAfter ==
  ASSUME LocalTrue, NEW d \in Devices, OthersStay(d),
         PassTrue(pass'[d], resolution'[d], rows'[d])
  PROVE  LocalTrue'
BY DEF LocalTrue, OthersStay, SameStore, SameWindow

\* What is said of a push or of a card depends on its own row only.
LEMMA SameRow ==
  ASSUME NEW rs, NEW rt, NEW l, rt[l] = rs[l]
  PROVE  /\ l \in StoredIn(rs) <=> l \in StoredIn(rt)
         /\ l \in ToPush(rs) <=> l \in ToPush(rt)
         /\ \A q : q.row = l /\ PushTrue(rs, q) => PushTrue(rt, q)
         /\ \A k : k.row = l /\ CardTrue(rs, k) => CardTrue(rt, k)
BY DEF StoredIn, ToPush, PushTrue, CardTrue

\* Once its call is over, a pass is true of rows that differ from the ones
\* before in the row of that call only, and shows at most that row's card.
LEMMA NextTrue ==
  ASSUME NEW D, NEW p, NEW r, NEW rs, NEW rt, NEW found,
         PassTyped(p, D), PassTrue(p, r, rs), p.pc \in {"calling", "marking"},
         \A l \in LocalIds \ {p.current.row} : rt[l] = rs[l],
         p.found \subseteq found,
         \A k \in found \ p.found :
           k.row = p.current.row /\ CardTrue(rt, k) /\ k.row \in ToPush(rt)
  PROVE  PassTrue(NextPush(p, found), r, rt)
<1> DEFINE n == NextPush(p, found)
<1>1. /\ n.pc = "pushing" /\ n.pushes = p.pushes /\ n.found = found /\ n.marks = p.marks
      /\ UnderWay(n) = {}
  BY DEF NextPush, PassTyped, NoPass, UnderWay
<1>2. UnderWay(p) = {p.current}
  BY DEF UnderWay
<1>3. \A q \in p.pushes : /\ q.row # p.current.row /\ PushTrue(rt, q)
                          /\ \A k \in found : k.row # q.row
  <2> SUFFICES ASSUME NEW q \in p.pushes
               PROVE  /\ q.row # p.current.row /\ PushTrue(rt, q)
                      /\ \A k \in found : k.row # q.row
    OBVIOUS
  <2>1. /\ q # p.current /\ PushTrue(rs, q) /\ q.row # p.current.row
        /\ \A k \in p.found : k.row # q.row
    BY <1>2 DEF PassTrue
  <2>2. q.row \in LocalIds
    BY <2>1 DEF PushTrue, ToPush, StoredIn
  <2>3. PushTrue(rt, q)
    BY <2>1, <2>2, SameRow
  <2> QED
    BY <2>1, <2>3
<1>4. p.current.row \in ToPush(rs) /\ \A k \in p.found : k.row # p.current.row
  BY <1>2 DEF PassTrue, PushTrue
<1>5. \A k \in found : CardTrue(rt, k) /\ k.row \in ToPush(rt)
  <2> SUFFICES ASSUME NEW k \in p.found PROVE CardTrue(rt, k) /\ k.row \in ToPush(rt)
    OBVIOUS
  <2>1. CardTrue(rs, k) /\ k.row \in ToPush(rs) /\ rt[k.row] = rs[k.row]
    BY <1>4 DEF PassTrue, ToPush, StoredIn
  <2> QED
    BY <2>1, SameRow
<1>6. DOMAIN p.marks \subseteq StoredIn(rt) \ ToPush(rt)
  <2> SUFFICES ASSUME NEW l \in DOMAIN p.marks PROVE l \in StoredIn(rt) \ ToPush(rt)
    OBVIOUS
  <2>1. l \in StoredIn(rs) \ ToPush(rs) /\ rt[l] = rs[l]
    BY <1>4 DEF PassTrue, ToPush, StoredIn
  <2> QED
    BY <2>1, SameRow
<1>7. (n.pc # "idle" => r = NoCall) /\ \A q, o \in p.pushes : q.row = o.row => q = o
  BY DEF PassTrue
<1> HIDE DEF n
<1>8. PassTrue(n, r, rt)
  BY <1>1, <1>3, <1>5, <1>6, <1>7 DEF PassTrue
<1> QED
  BY <1>8 DEF n

\* What Decide makes of the rows is true of them.
LEMMA DecidedTrue ==
  ASSUME NEW D \in SUBSET DocIds, NEW p, PassTyped(p, D), NEW rs, PassTrue(p, NoCall, rs),
         p.pc = "reading",
         NotRead \notin {p.localState, p.localList, p.cloudState, p.cloudList},
         NEW f \in LocalByCloudId(p.localState, p.cloudState)
  PROVE  PassTrue(Decided(p, f), NoCall, rs)
<1> DEFINE ls == p.localState
           ll == p.localList
           cs == p.cloudState
           cl == p.cloudList
           n  == Decided(p, f)
<1>1. ls = StateOf(rs) /\ ll = ListOf(rs)
  BY DEF PassTrue
<1>2. /\ DOMAIN ls = StoredIn(rs)
      /\ \A l \in StoredIn(rs) : /\ ls[l].cloudId = rs[l].cloudId
                                 /\ ls[l].dirty = Local!Dirty(rs[l])
                                 /\ ls[l].base = rs[l].base /\ ls[l].deleted = rs[l].deleted
      /\ DOMAIN ll = {l \in StoredIn(rs) : ~rs[l].deleted}
      /\ \A l \in DOMAIN ll : ll[l] = rs[l].payload
  BY <1>1 DEF StateOf, ListOf
<1>3. DOMAIN cs \subseteq DocIds
  BY DEF PassTyped, Partial
<1>4. /\ n.pc = "pushing" /\ n.pushes = Pushes(ls, ll, cs, cl) /\ n.found = {}
      /\ n.marks = StaleMarks(ls, cs, cl, f) /\ UnderWay(n) = {}
  BY DEF Decided, NoPass, UnderWay
<1> HIDE DEF n, ls, ll, cs, cl
<1> DEFINE CreateOf(l) == PushOf(l, ll[l], [op |-> "create", payload |-> ll[l]],
                                 Namesake(l, ll[l], cl))
           DeleteOf(l) == PushOf(l, NoPayload, [op |-> "delete", doc |-> ls[l].cloudId], {})
           UpdateOf(l) == PushOf(l, ll[l],
                            [op |-> "update", doc |-> ls[l].cloudId, payload |-> ll[l],
                             expected |-> ls[l].base, force |-> FALSE], {})
<1>5. \A q \in Creates(ls, ll, cl) :
        PushTrue(rs, q) /\ rs[q.row].cloudId = NoDoc /\ q = CreateOf(q.row)
  <2> SUFFICES ASSUME NEW q \in Creates(ls, ll, cl)
               PROVE  PushTrue(rs, q) /\ rs[q.row].cloudId = NoDoc /\ q = CreateOf(q.row)
    OBVIOUS
  <2>1. PICK l \in DOMAIN ls \cap DOMAIN ll :
          ls[l].cloudId = NoDoc /\ ~ls[l].deleted /\ q = CreateOf(l)
    BY DEF Creates
  <2>2. /\ q.row = l /\ q.local = ll[l] /\ q.request.op = "create"
        /\ q.collision = Namesake(l, ll[l], cl)
    BY <2>1 DEF PushOf
  <2>3. \A k \in q.collision : k.row = l /\ k.local = ll[l]
    BY <2>2 DEF Namesake, Conflict
  <2>4. PushTrue(rs, q) /\ rs[l].cloudId = NoDoc
    BY <1>2, <2>1, <2>2, <2>3, SMTT(30) DEF PushTrue, ToPush, Local!Linked
  <2> QED
    BY <2>1, <2>2, <2>4
<1>6. \A q \in Deletes(ls, cs) :
        /\ PushTrue(rs, q) /\ rs[q.row].deleted /\ rs[q.row].cloudId # NoDoc
        /\ q = DeleteOf(q.row)
  <2> SUFFICES ASSUME NEW q \in Deletes(ls, cs)
               PROVE  /\ PushTrue(rs, q) /\ rs[q.row].deleted /\ rs[q.row].cloudId # NoDoc
                      /\ q = DeleteOf(q.row)
    OBVIOUS
  <2>1. PICK l \in DirtyKnown(ls, cs) : ls[l].deleted /\ q = DeleteOf(l)
    BY DEF Deletes
  <2>2. /\ q.row = l /\ q.local = NoPayload /\ q.collision = {}
        /\ q.request.op = "delete" /\ q.request.doc = ls[l].cloudId
    BY <2>1 DEF PushOf
  <2>3. l \in StoredIn(rs) /\ ls[l].cloudId \in DocIds /\ ls[l].dirty
    BY <1>2, <1>3 DEF DirtyKnown
  <2>4. PushTrue(rs, q) /\ rs[l].deleted /\ rs[l].cloudId # NoDoc
    BY <1>2, <2>1, <2>2, <2>3, SentinelAssumption DEF PushTrue, ToPush, Local!Linked
  <2> QED
    BY <2>1, <2>2, <2>4
<1>7. \A q \in Updates(ls, ll, cs) :
        /\ PushTrue(rs, q) /\ ~rs[q.row].deleted /\ rs[q.row].cloudId # NoDoc
        /\ q = UpdateOf(q.row)
  <2> SUFFICES ASSUME NEW q \in Updates(ls, ll, cs)
               PROVE  /\ PushTrue(rs, q) /\ ~rs[q.row].deleted /\ rs[q.row].cloudId # NoDoc
                      /\ q = UpdateOf(q.row)
    OBVIOUS
  <2>1. PICK l \in DirtyKnown(ls, cs) \cap DOMAIN ll : ~ls[l].deleted /\ q = UpdateOf(l)
    BY DEF Updates
  <2>2. /\ q.row = l /\ q.local = ll[l] /\ q.collision = {}
        /\ q.request.op = "update" /\ q.request.doc = ls[l].cloudId
        /\ q.request.expected = ls[l].base /\ ~q.request.force
    BY <2>1 DEF PushOf
  <2>3. l \in StoredIn(rs) /\ ls[l].cloudId \in DocIds /\ ls[l].dirty
    BY <1>2, <1>3 DEF DirtyKnown
  <2>4. /\ ~rs[l].deleted /\ rs[l].cloudId # NoDoc /\ Local!Dirty(rs[l])
        /\ ll[l] = rs[l].payload /\ ls[l].base = rs[l].base /\ ls[l].cloudId = rs[l].cloudId
    BY <1>2, <2>1, <2>3, SentinelAssumption
  <2>5. PushTrue(rs, q)
    BY <2>2, <2>3, <2>4 DEF PushTrue, ToPush, Local!Linked
  <2> QED
    BY <2>1, <2>2, <2>4, <2>5
<1> HIDE DEF CreateOf, DeleteOf, UpdateOf
<1>8. \A q \in n.pushes : PushTrue(rs, q)
  BY <1>4, <1>5, <1>6, <1>7 DEF Pushes
<1>9. \A q, o \in n.pushes : q.row = o.row => q = o
  <2> SUFFICES ASSUME NEW q \in n.pushes, NEW o \in n.pushes, q.row = o.row PROVE q = o
    OBVIOUS
  <2>1. CASE q \in Creates(ls, ll, cl)
    BY <1>4, <1>5, <1>6, <1>7, <2>1 DEF Pushes
  <2>2. CASE q \in Deletes(ls, cs)
    BY <1>4, <1>5, <1>6, <1>7, <2>2 DEF Pushes
  <2>3. CASE q \in Updates(ls, ll, cs)
    BY <1>4, <1>5, <1>6, <1>7, <2>3 DEF Pushes
  <2> QED
    BY <1>4, <2>1, <2>2, <2>3 DEF Pushes
<1>10. DOMAIN n.marks \subseteq StoredIn(rs) \ ToPush(rs)
  <2> SUFFICES ASSUME NEW l \in StaleRows(ls, cs, cl, f) PROVE l \in StoredIn(rs) \ ToPush(rs)
    BY <1>4 DEF StaleMarks
  <2>1. /\ l \in DOMAIN ls /\ ~ls[l].dirty /\ ls[l].cloudId \in DocIds
    BY <1>3 DEF StaleRows, LocalByCloudId, LinkedRows, ls, cs
  <2> QED
    BY <1>2, <2>1, SentinelAssumption DEF ToPush, Local!Linked
<1>11. PassTrue(n, NoCall, rs)
  BY <1>4, <1>8, <1>9, <1>10 DEF PassTrue
<1> QED
  BY <1>11 DEF n

LEMMA ReadTrue ==
  ASSUME SyncTypeOK, LocalTrue, ~EditDuringPass, NEW d \in Devices,
         StartPass(d) \/ Read(d) \/ ReadFails(d)
  PROVE  LocalTrue'
<1>1. Shape /\ PassTyped(pass[d], Known) /\ PassTrue(pass[d], resolution[d], rows[d])
  BY DEF SyncTypeOK, WindowOK, LocalTrue
<1>2. CASE StartPass(d)
  <2>1. pass[d].pc = "idle" /\ resolution[d] = NoCall
    BY <1>2 DEF StartPass, At
  <2>2. pass[d] = NoPass /\ pass'[d] = [NoPass EXCEPT !.pc = "reading"]
    BY <1>1, <1>2, <2>1, StartPassDoes DEF PassTrue
  <2>3. PassTrue([NoPass EXCEPT !.pc = "reading"], NoCall, rows[d])
    BY DEF PassTrue, NoPass, UnderWay
  <2> QED
    BY <1>1, <1>2, <2>1, <2>2, <2>3, StartPassDoes, LocalAfter DEF PassAlone, SameStore
<1>3. CASE Read(d)
  <2>1. PassAlone(d) /\ pass[d].pc = "reading" /\ pass[d].pushes = {} /\ pass[d].found = {}
    BY <1>1, <1>3, ReadDoes DEF PassTrue
  <2>2. /\ pass'[d].pc = "reading" /\ pass'[d].pushes = {} /\ pass'[d].found = {}
        /\ pass'[d].pulls = pass[d].pulls /\ pass'[d].marks = pass[d].marks
        /\ pass'[d].localState \in {pass[d].localState, StateOf(rows[d])}
        /\ pass'[d].localList \in {pass[d].localList, ListOf(rows[d])}
    BY <1>1, <1>3, <2>1, ReadDoes, ZenonT(60) DEF PassTyped, NoPass
  <2>3. PassTrue(pass'[d], resolution[d], rows[d])
    BY <1>1, <2>1, <2>2 DEF PassTrue, UnderWay
  <2> QED
    BY <2>1, <2>3, LocalAfter DEF PassAlone, SameStore
<1>4. CASE ReadFails(d)
  BY <1>1, <1>4, ReadFailsDoes, IdleTrue, LocalAfter
<1> QED
  BY <1>2, <1>3, <1>4

LEMMA DecideTrue ==
  ASSUME SyncTypeOK, LocalTrue, NEW d \in Devices, Decide(d)
  PROVE  LocalTrue'
<1>1. /\ Shape /\ Known \in SUBSET DocIds
      /\ PassTyped(pass[d], Known) /\ PassTrue(pass[d], resolution[d], rows[d])
  BY KnownAre DEF SyncTypeOK, WindowOK, LocalTrue
<1>2. /\ PassAlone(d) /\ pass[d].pc = "reading"
      /\ NotRead \notin {pass[d].localState, pass[d].localList,
                         pass[d].cloudState, pass[d].cloudList}
  BY <1>1, DecideDoes
<1>3. PICK f \in LocalByCloudId(pass[d].localState, pass[d].cloudState) :
        pass'[d] = Decided(pass[d], f)
  BY <1>1, DecideDoes
<1>4. resolution[d] = NoCall
  BY <1>1, <1>2 DEF PassTrue
<1>5. PassTrue(Decided(pass[d], f), NoCall, rows[d])
  BY <1>1, <1>2, <1>4, DecidedTrue
<1> QED
  BY <1>2, <1>3, <1>4, <1>5, LocalAfter DEF PassAlone, SameStore

\* Between the rows nothing of a pass changes but its call.
LEMMA CallTrue ==
  ASSUME NEW D, NEW p, NEW r, NEW rs, PassTyped(p, D), PassTrue(p, r, rs)
  PROVE  /\ \A q \in p.pushes : p.pc = "pushing" => PassTrue(StartPush(p, q), r, rs)
         /\ \A m : /\ p.pc = "calling" /\ m.resolved = NoPayload
                   /\ m.deleted = rs[p.current.row].deleted
                   => PassTrue(AcceptPush(p, m), r, rs)
<1>1. ASSUME NEW q \in p.pushes, p.pc = "pushing" PROVE PassTrue(StartPush(p, q), r, rs)
  <2> DEFINE n == StartPush(p, q)
  <2>1. /\ n.pc = "calling" /\ n.current = q /\ n.pushes = p.pushes \ {q}
        /\ n.found = p.found /\ n.marks = p.marks /\ UnderWay(n) = {q} /\ UnderWay(p) = {}
    BY <1>1 DEF StartPush, PassTyped, NoPass, UnderWay
  <2> HIDE DEF n
  <2>2. PassTrue(n, r, rs)
    BY <1>1, <2>1 DEF PassTrue
  <2> QED
    BY <2>2 DEF n
<1>2. ASSUME NEW m, p.pc = "calling", m.resolved = NoPayload,
             m.deleted = rs[p.current.row].deleted
      PROVE  PassTrue(AcceptPush(p, m), r, rs)
  <2> DEFINE n == AcceptPush(p, m)
  <2>1. /\ n.pc = "marking" /\ n.mark = m /\ n.current = p.current /\ n.pushes = p.pushes
        /\ n.found = p.found /\ n.marks = p.marks /\ UnderWay(n) = UnderWay(p)
    BY <1>2 DEF AcceptPush, PassTyped, NoPass, UnderWay
  <2> HIDE DEF n
  <2>2. PassTrue(n, r, rs)
    BY <1>2, <2>1 DEF PassTrue
  <2> QED
    BY <2>2 DEF n
<1> QED
  BY <1>1, <1>2

LEMMA PushIsTrue ==
  ASSUME SyncTypeOK, LocalTrue, NEW d \in Devices, Push(d)
  PROVE  LocalTrue'
<1>1. Shape /\ PassTyped(pass[d], Known) /\ PassTrue(pass[d], resolution[d], rows[d])
  BY DEF SyncTypeOK, WindowOK, LocalTrue
<1>2. PICK q \in pass[d].pushes : pass'[d] = StartPush(pass[d], q)
  BY <1>1, PushDoes
<1>3. PassTrue(pass'[d], resolution[d], rows[d])
  BY <1>1, <1>2, CallTrue, PushDoes
<1> QED
  BY <1>1, <1>3, PushDoes, LocalAfter DEF SameStore

LEMMA AnswerTrue ==
  ASSUME SyncTypeOK, LocalTrue, NEW d \in Devices,
         PushAccepted(d) \/ PushConflicts(d) \/ PushCollides(d) \/ PushLost(d)
  PROVE  LocalTrue'
<1> DEFINE p == pass[d]
           c == pass[d].current
<1>1. Shape /\ PassTyped(p, Known) /\ PassTrue(p, resolution[d], rows[d])
  BY DEF SyncTypeOK, WindowOK, LocalTrue
<1>2. Taken(d) /\ p.pc = "calling"
  <2>1. Taken(d)
    BY <1>1, PushAcceptedDoes, PushConflictsDoes, PushCollidesDoes, PushLostDoes, ZenonT(60)
  <2> QED
    BY <2>1 DEF Taken
<1>3. c \in PushCall(Known) /\ (Answer(d).stage = "replied" => Serves(Answer(d), c.request, Known))
  BY <1>2 DEF SyncTypeOK, WindowOK, CallsOK, Answer
<1>4. /\ PushTrue(rows[d], c) /\ c.row \in StoredIn(rows[d]) /\ c.row \in ToPush(rows[d])
      /\ c.request.op # "delete" => ~rows[d][c.row].deleted /\ c.local = rows[d][c.row].payload
      /\ rows[d][c.row].deleted <=> c.request.op = "delete"
  BY <1>1, <1>2 DEF PassTrue, PushTrue, ToPush, UnderWay
<1>5. ASSUME NEW found, p.found \subseteq found,
             \A k \in found \ p.found :
               k.row = c.row /\ CardTrue(rows[d], k) /\ k.row \in ToPush(rows[d]),
             pass'[d] = NextPush(p, found)
      PROVE  LocalTrue'
  <2>1. PassTrue(NextPush(p, found), resolution[d], rows[d])
    BY <1>1, <1>2, <1>5, NextTrue
  <2> QED
    BY <1>2, <1>5, <2>1, LocalAfter DEF Taken, SameStore
<1>6. CASE PushAccepted(d)
  <2> DEFINE m == MarkEntry(Answer(d).doc, Answer(d).result.version,
                            c.request.op = "delete", NoPayload)
  <2>1. pass'[d] = AcceptPush(p, m)
    BY <1>1, <1>6, PushAcceptedDoes
  <2>2. m.resolved = NoPayload /\ m.deleted = (c.request.op = "delete")
    BY DEF MarkEntry
  <2>3. rows[d][c.row].deleted \in BOOLEAN
    BY <1>4, SameData DEF SyncTypeOK, StoreOK, StoredIn, RowType, ToPush
  <2>4. m.deleted = rows[d][c.row].deleted
    BY <1>4, <2>2, <2>3
  <2> HIDE DEF m
  <2>5. PassTrue(AcceptPush(p, m), resolution[d], rows[d])
    BY <1>1, <1>2, <2>2, <2>4, CallTrue
  <2> QED
    BY <1>2, <2>1, <2>5, LocalAfter DEF Taken, SameStore
<1>7. CASE PushConflicts(d)
  <2> DEFINE k == Conflict(c.row, c.local, Answer(d).doc, Answer(d).result)
  <2>1. pass'[d] = NextPush(p, p.found \cup {k})
    BY <1>1, <1>7, PushConflictsDoes
  <2>2. k.row = c.row /\ k.local = c.local
    BY DEF Conflict
  <2>3. c.request.op = "update"
    BY <1>1, <1>3, <1>7, PushConflictsDoes, ZenonT(60) DEF Serves
  <2> HIDE DEF k
  <2>4. CardTrue(rows[d], k)
    BY <1>4, <2>2, <2>3 DEF CardTrue
  <2> QED
    BY <1>4, <1>5, <2>1, <2>2, <2>4
<1>8. CASE PushCollides(d)
  <2>1. pass'[d] = NextPush(p, p.found \cup c.collision)
    BY <1>1, <1>8, PushCollidesDoes
  <2>2. c.request.op = "create"
    BY <1>1, <1>3, <1>8, PushCollidesDoes, ZenonT(60) DEF Serves
  <2>3. \A k \in c.collision : k.row = c.row /\ CardTrue(rows[d], k) /\ k.row \in ToPush(rows[d])
    BY <1>4, <2>2 DEF CardTrue, PushTrue
  <2> QED
    BY <1>5, <2>1, <2>3
<1>9. CASE PushLost(d)
  BY <1>1, <1>5, <1>9, PushLostDoes
<1> QED
  BY <1>6, <1>7, <1>8, <1>9

LEMMA ConfirmTrue ==
  ASSUME SyncTypeOK, LocalTrue, NEW d \in Devices, Confirm(d) \/ ConfirmLost(d)
  PROVE  LocalTrue'
<1> DEFINE p == pass[d]
<1>1. Shape /\ PassTyped(p, Known) /\ PassTrue(p, resolution[d], rows[d])
  BY DEF SyncTypeOK, WindowOK, LocalTrue
<1>2. /\ OthersStay(d) /\ resolution'[d] = resolution[d] /\ p.pc = "marking"
      /\ pass'[d] = NextPush(p, p.found)
  BY <1>1, ConfirmDoes, ConfirmLostDoes DEF PassAlone
<1>3. rows[d] \in [LocalIds -> Local!Row \cup {NoRow}]
  BY DEF SyncTypeOK, StoreOK
<1>4. \A l \in LocalIds \ {p.current.row} : rows'[d][l] = rows[d][l]
  <2>1. CASE Confirm(d)
    <3>1. rows'[d] = Marked(rows[d], [l \in {p.current.row} |-> p.mark])
      BY <1>1, <2>1, ConfirmDoes
    <3> QED
      BY <1>3, <3>1 DEF Marked
  <2>2. CASE ConfirmLost(d)
    BY <1>1, <2>2, ConfirmLostDoes DEF PassAlone, SameStore
  <2> QED
    BY <2>1, <2>2
<1>5. PassTrue(NextPush(p, p.found), resolution[d], rows'[d])
  BY <1>1, <1>2, <1>4, NextTrue
<1> QED
  BY <1>2, <1>5, LocalAfter

\* Pulling comes after the pushes: it writes fresh rows, and clean ones.
LEMMA PullTrue ==
  ASSUME SyncTypeOK, LocalTrue, NEW d \in Devices,
         PullNew(d) \/ MarkPulled(d) \/ PullLost(d)
  PROVE  LocalTrue'
<1> DEFINE p == pass[d]
           n == pass'[d]
           rs == rows[d]
           rt == rows'[d]
<1>1. /\ Shape /\ PassTyped(p, Known) /\ PassTrue(p, resolution[d], rs)
      /\ StoreOK(rs, issued[d], Known)
  BY DEF SyncTypeOK, WindowOK, LocalTrue
<1>2. /\ OthersStay(d) /\ resolution'[d] = resolution[d] /\ p.pc = "pushing"
      /\ \/ n = [p EXCEPT !.pulls = {}]
         \/ n = [p EXCEPT !.marks = <<>>]
  BY <1>1, PullNewDoes, MarkPulledDoes, PullLostDoes DEF PassAlone
<1>3. /\ n.pc = "pushing" /\ n.pushes = p.pushes /\ n.found = p.found
      /\ UnderWay(n) = {} /\ DOMAIN n.marks \subseteq DOMAIN p.marks
  BY <1>1, <1>2 DEF PassTyped, NoPass, UnderWay
<1>4. /\ \A k \in p.found : CardTrue(rs, k) /\ k.row \in ToPush(rs) /\ k.row \in LocalIds
      /\ DOMAIN p.marks \subseteq StoredIn(rs) \ ToPush(rs) /\ resolution[d] = NoCall
      /\ StoredIn(rs) \subseteq LocalIds
  BY <1>1, <1>2 DEF PassTrue, ToPush, StoredIn
<1> HIDE DEF n
<1>5. CASE PullLost(d)
  <2>1. PassTrue(n, resolution[d], rs)
    BY <1>1, <1>2, <1>3 DEF PassTrue, UnderWay
  <2> QED
    BY <1>1, <1>2, <1>5, <2>1, PullLostDoes, LocalAfter DEF PassAlone, SameStore, n
<1>6. CASE PullNew(d) \/ MarkPulled(d)
  <2>1. /\ n.pushes = {}
        /\ \A k \in p.found : rt[k.row] = rs[k.row]
        /\ \A l \in DOMAIN n.marks : rt[l] = rs[l]
    <3>1. CASE PullNew(d)
      <4>1. \A l \in LocalIds : rt[l] = rs[l] \/ l \notin issued[d]
        BY <1>1, <3>1, PullNewDoes
      <4>2. \A l \in StoredIn(rs) : rt[l] = rs[l]
        BY <1>1, <4>1 DEF StoreOK, StoredIn
      <4>3. \A k \in p.found : k.row \in StoredIn(rs)
        BY <1>4 DEF CardTrue
      <4> QED
        BY <1>1, <1>3, <1>4, <3>1, <4>2, <4>3, PullNewDoes
    <3>2. CASE MarkPulled(d)
      <4>1. rt = Marked(rs, p.marks) /\ p.pushes = {} /\ n = [p EXCEPT !.marks = <<>>]
        BY <1>1, <3>2, MarkPulledDoes DEF n
      <4>2. \A l \in LocalIds \ DOMAIN p.marks : rt[l] = rs[l]
        BY <4>1 DEF Marked
      <4>3. DOMAIN n.marks = {}
        BY <1>1, <4>1 DEF PassTyped, NoPass
      <4> QED
        BY <1>3, <1>4, <4>1, <4>2, <4>3
    <3> QED
      BY <1>6, <3>1, <3>2
  <2>2. \A k \in n.found : CardTrue(rt, k) /\ k.row \in ToPush(rt)
    BY <1>3, <1>4, <2>1, SameRow, ZenonT(60)
  <2>3. DOMAIN n.marks \subseteq StoredIn(rt) \ ToPush(rt)
    <3> SUFFICES ASSUME NEW l \in DOMAIN n.marks PROVE l \in StoredIn(rt) \ ToPush(rt)
      OBVIOUS
    <3>1. l \in StoredIn(rs) /\ l \notin ToPush(rs) /\ rt[l] = rs[l]
      BY <1>3, <1>4, <2>1
    <3> QED
      BY <3>1, SameRow
  <2>4. PassTrue(n, resolution[d], rt)
    BY <1>3, <1>4, <2>1, <2>2, <2>3 DEF PassTrue
  <2> QED
    BY <1>2, <2>4, LocalAfter DEF n
<1> QED
  BY <1>5, <1>6

\* Every step of a device is its own.
LEMMA DialogOthers ==
  ASSUME Shape, NEW d \in Devices, DialogStep(d) \/ KeepLocalLost(d)
  PROVE  OthersStay(d) /\ pass'[d] = pass[d] /\ resolution[d] # NoCall
<1>1. CASE Recreated(d)
  BY <1>1, RecreatedDoes DEF DialogAlone
<1>2. CASE ForceLocal(d)
  BY <1>2, ForceLocalDoes DEF DialogAlone
<1>3. CASE Forced(d)
  BY <1>3, ForcedDoes DEF DialogAlone
<1>4. CASE FinishKeepLocal(d)
  BY <1>4, FinishKeepLocalDoes
<1>5. CASE KeepLocalRefused(d) \/ KeepLocalLost(d)
  BY <1>5, KeepLocalEnds
<1> QED
  BY <1>1, <1>2, <1>3, <1>4, <1>5 DEF DialogStep

LEMMA PassOthers ==
  ASSUME SyncTypeOK, NEW d \in Devices, DeviceStep(d)
  PROVE  /\ OthersStay(d)
         /\ \/ SameStore(d) \/ pass'[d] = pass[d]
            \/ Confirm(d) \/ PullNew(d) \/ MarkPulled(d)
<1>1. Shape
  BY DEF SyncTypeOK
<1>2. CASE StartPass(d) \/ Read(d) \/ Decide(d)
  BY <1>1, <1>2, StartPassDoes, ReadDoes, DecideDoes DEF PassAlone
<1>3. CASE ReadFails(d) \/ Push(d) \/ EndPass(d) \/ WindowCloses(d)
  BY <1>1, <1>3, ReadFailsDoes, PushDoes, EndPassDoes, WindowClosesDoes
<1>4. CASE PushAccepted(d) \/ PushConflicts(d) \/ PushCollides(d) \/ PushLost(d)
  <2>1. Taken(d)
    BY <1>1, <1>4, PushAcceptedDoes, PushConflictsDoes, PushCollidesDoes, PushLostDoes, ZenonT(60)
  <2> QED
    BY <2>1 DEF Taken
<1>5. CASE ConfirmLost(d) \/ PullLost(d)
  BY <1>1, <1>5, ConfirmLostDoes, PullLostDoes DEF PassAlone
<1>6. CASE Confirm(d) \/ PullNew(d) \/ MarkPulled(d)
  BY <1>1, <1>6, ConfirmDoes, PullNewDoes, MarkPulledDoes
<1>7. CASE DialogStep(d) \/ KeepLocalLost(d)
  BY <1>1, <1>7, DialogOthers
<1>8. CASE User(d)
  BY <1>1, <1>8, UserActsDo, KeepCloudDoes, KeepLocalDoes DEF User, SameWindow
<1> QED
  BY <1>2, <1>3, <1>4, <1>5, <1>6, <1>7, <1>8 DEF DeviceStep, PassStep, Fault

\* The window's user acts, and answers conflicts, between the passes.
LEMMA BetweenTrue ==
  ASSUME SyncTypeOK, LocalTrue, ~EditDuringPass, NEW d \in Devices,
         User(d) \/ DialogStep(d) \/ KeepLocalLost(d) \/ EndPass(d) \/ WindowCloses(d)
  PROVE  LocalTrue'
<1>1. Shape /\ PassTrue(pass[d], resolution[d], rows[d])
  BY DEF SyncTypeOK, LocalTrue
<1>2. CASE User(d)
  <2>1. OthersStay(d) /\ pass'[d] = pass[d] /\ MayAct(d)
    BY <1>1, <1>2, UserActsDo, KeepCloudDoes, KeepLocalDoes DEF User, SameWindow
  <2>2. pass[d].pc = "idle"
    BY <2>1 DEF MayAct, Quiet, At
  <2> QED
    BY <1>1, <2>1, <2>2, IdleTrue, LocalAfter DEF PassTrue
<1>3. CASE DialogStep(d) \/ KeepLocalLost(d)
  <2>1. OthersStay(d) /\ pass'[d] = pass[d] /\ resolution[d] # NoCall
    BY <1>1, <1>3, DialogOthers
  <2> QED
    BY <1>1, <2>1, IdleTrue, LocalAfter DEF PassTrue
<1>4. CASE EndPass(d)
  BY <1>1, <1>4, EndPassDoes, IdleTrue, LocalAfter
<1>5. CASE WindowCloses(d)
  BY <1>1, <1>5, WindowClosesDoes, IdleTrue, LocalAfter
<1> QED
  BY <1>2, <1>3, <1>4, <1>5

LEMMA LocalSteps ==
  ASSUME ~EditDuringPass
  PROVE  SyncTypeOK /\ LocalTrue /\ [Next]_vars => LocalTrue'
<1> SUFFICES ASSUME SyncTypeOK, LocalTrue, [Next]_vars PROVE LocalTrue'
  OBVIOUS
<1>1. CASE UNCHANGED vars
  BY <1>1 DEF vars, localVars, LocalTrue
<1>2. ASSUME NEW d \in Devices, DeviceStep(d) PROVE LocalTrue'
  BY <1>2, ReadTrue, DecideTrue, PushIsTrue, AnswerTrue, ConfirmTrue, PullTrue, BetweenTrue
  DEF DeviceStep, PassStep, Fault
<1>3. CASE CloudStep
  BY <1>3, CloudStepDoes DEF SyncTypeOK, LocalTrue, SameStore, SameWindow
<1> QED
  BY <1>1, <1>2, <1>3 DEF Next, DeviceStep

LEMMA LocalStarts == Init => LocalTrue
<1> SUFFICES ASSUME Init PROVE LocalTrue
  OBVIOUS
<1>1. \A d \in Devices : pass[d] = NoPass
  BY DEF Init
<1> QED
  BY <1>1, IdleTrue DEF LocalTrue

\* A pass never touches an edit it has not pushed: it writes a dirty row only
\* to confirm the push of the very content the row holds, however its calls
\* interleave with those of the other devices, are lost, or are refused.  The
\* user must not act during the pass (AppContext.tsx serializes nothing, see
\* the README for what happens otherwise).
THEOREM DirtyRowsAreSafe ==
  ASSUME ~EditDuringPass
  PROVE  Spec => PassKeepsLocalEdits
<1> DEFINE Kept0 == \A d \in Devices : \A l \in Local!Stored(d) :
      /\ pass'[d] # pass[d] /\ rows'[d][l] # Row(d, l)
      /\ Local!Dirty(Row(d, l))
      => /\ pass[d].current # NoCall /\ pass[d].current.row = l
         /\ pass[d].current.local = IF Row(d, l).deleted THEN NoPayload ELSE Row(d, l).payload
<1>1. SyncTypeOK /\ LocalTrue /\ [Next]_vars => [Kept0]_vars
  <2> SUFFICES ASSUME SyncTypeOK, LocalTrue, Next,
                      NEW d \in Devices, NEW l \in Local!Stored(d),
                      pass'[d] # pass[d], rows'[d][l] # rows[d][l], Local!Dirty(rows[d][l])
               PROVE  /\ pass[d].current # NoCall /\ pass[d].current.row = l
                      /\ pass[d].current.local =
                           IF rows[d][l].deleted THEN NoPayload ELSE rows[d][l].payload
    BY DEF Row
  <2>1. /\ Shape /\ PassTrue(pass[d], resolution[d], rows[d]) /\ l \in StoredIn(rows[d])
        /\ l \in LocalIds /\ l \in ToPush(rows[d]) /\ rows[d][l] # NoRow
        /\ StoreOK(rows[d], issued[d], Known)
    BY DEF SyncTypeOK, LocalTrue, Local!Stored, StoredIn, ToPush
  <2>2. DeviceStep(d)
    <3>1. CASE CloudStep
      BY <2>1, <3>1, CloudStepDoes DEF SameStore
    <3>2. ASSUME NEW e \in Devices, DeviceStep(e), e # d PROVE FALSE
      <4>1. OthersStay(e)
        BY <3>2, PassOthers
      <4> QED
        BY <3>2, <4>1 DEF OthersStay, SameStore
    <3> QED
      BY <3>1, <3>2 DEF Next, DeviceStep
  <2>3. Confirm(d) \/ PullNew(d) \/ MarkPulled(d)
    BY <2>2, PassOthers DEF SameStore
  <2>4. ~PullNew(d)
    <3> SUFFICES ASSUME PullNew(d) PROVE FALSE
      OBVIOUS
    <3>1. l \notin issued[d]
      BY <2>1, PullNewDoes
    <3> QED
      BY <2>1, <3>1 DEF StoreOK
  <2>5. ~MarkPulled(d)
    <3> SUFFICES ASSUME MarkPulled(d) PROVE FALSE
      OBVIOUS
    <3>1. rows'[d] = Marked(rows[d], pass[d].marks)
      BY <2>1, MarkPulledDoes
    <3>2. l \in DOMAIN pass[d].marks
      BY <2>1, <3>1 DEF Marked
    <3> QED
      BY <2>1, <3>2 DEF PassTrue
  <2>6. /\ pass[d].pc = "marking"
        /\ rows'[d] = Marked(rows[d], [k \in {pass[d].current.row} |-> pass[d].mark])
    BY <2>1, <2>3, <2>4, <2>5, ConfirmDoes
  <2>7. pass[d].current.row = l
    BY <2>1, <2>6 DEF Marked
  <2>8. PushTrue(rows[d], pass[d].current)
    BY <2>1, <2>6 DEF PassTrue, UnderWay
  <2>9. pass[d].current # NoCall
    <3>1. pass[d].current \in PushCall(Known) /\ Known \in SUBSET DocIds /\ DocIds \in SUBSET DocIds
      BY <2>6, KnownAre DEF SyncTypeOK, WindowOK, CallsOK
    <3> QED
      BY <3>1, MoreKnown, NoCallAssumption
  <2> QED
    BY <2>7, <2>8, <2>9 DEF PushTrue
<1> QED
  BY <1>1, SyncTypeCorrect, LocalStarts, LocalSteps, PTL DEF Spec, PassKeepsLocalEdits

-----------------------------------------------------------------------------
(* What is held of the documents is what they are, and one device acts.    *)

OneAtATime ==
  ~EditDuringPass /\ ~EditBehindDialog /\ ~ConcurrentDevices /\ ~CreateDropsContent

Quieted(d) == pass'[d].pc = "idle" /\ resolution'[d] = NoCall

LEMMA OneActs ==
  ASSUME OneAtATime, SyncTypeOK, OnlyOneActs, NEW d \in Devices, DeviceStep(d)
  PROVE  Quieted(d) \/ \A e \in Devices \ {d} : Quiet(e)
<1>1. Shape
  BY DEF SyncTypeOK
<1>2. CASE ~Quiet(d)
  BY <1>2 DEF OnlyOneActs
<1>3. CASE Quiet(d)
  <2>1. pass[d].pc = "idle" /\ resolution[d] = NoCall
    BY <1>3 DEF Quiet, At
  <2>2. CASE MaySync(d)
    BY <2>2 DEF MaySync, OneAtATime
  <2>3. CASE UserCreates(d) \/ UserEdits(d) \/ UserDeletes(d)
    BY <2>1, <2>3, UserActsDo DEF SameWindow, Quieted
  <2>4. CASE WindowCloses(d)
    BY <1>1, <2>4, WindowClosesDoes, NoPassTyped DEF Quieted
  <2>5. ~PassStep(d) /\ ~DialogStep(d)
    BY <2>1 DEF PassStep, Read, ReadLocalState, ReadLocalList, ReadCloudState, ReadCloudList,
       Arrives, Decide, Push, PushAccepted, PushConflicts, PushCollides, Confirm, PullNew,
       MarkPulled, EndPass, Pushed, At, DialogStep, Recreated, ForceLocal, Forced,
       FinishKeepLocal, KeepLocalRefused, Resolving
  <2>6. ~ReadFails(d) /\ ~PushLost(d) /\ ~ConfirmLost(d) /\ ~PullLost(d) /\ ~KeepLocalLost(d)
    BY <2>1 DEF ReadFails, PushLost, ConfirmLost, PullLost, Pushed, At, KeepLocalLost
  <2>7. StartPass(d) \/ KeepCloud(d) \/ KeepLocal(d) => MaySync(d)
    BY DEF StartPass, KeepCloud, KeepLocal
  <2> QED
    BY <2>2, <2>3, <2>4, <2>5, <2>6, <2>7 DEF DeviceStep, User, Fault
<1> QED
  BY <1>2, <1>3

LEMMA CloudAfter ==
  ASSUME SyncTypeOK, CloudTrue, NEW d \in Devices, OthersStay(d),
         Quieted(d) \/ \A e \in Devices \ {d} : Quiet(e),
         SeenTrue(docs, Known, pass'[d], conflicts'[d], resolution'[d], rows'[d]),
         CallsTrue(docs, pass'[d], resolution'[d], handler'[Pusher(d)], handler'[Dialog(d)])
  PROVE  CloudTrue'
<1>1. /\ docs' = docs /\ Known' = Known
      /\ \A e \in Devices \ {d} : SameStore(e) /\ SameCalls(e) /\ SameWindow(e)
  BY DEF OthersStay, Known, Cloud!Exists
<1>2. OnlyOneActs'
  BY <1>1 DEF CloudTrue, OnlyOneActs, Quiet, At, Quieted, SameWindow
<1>3. \A e \in Devices :
        /\ SeenTrue(docs, Known, pass'[e], conflicts'[e], resolution'[e], rows'[e])
        /\ CallsTrue(docs, pass'[e], resolution'[e], handler'[Pusher(e)], handler'[Dialog(e)])
  BY <1>1 DEF CloudTrue, SameStore, SameCalls, SameWindow
<1> QED
  BY <1>1, <1>2, <1>3 DEF CloudTrue

\* The parts of an idle pass, and of one between two rows.
LEMMA SeenIdle ==
  ASSUME NEW D, NEW known, NEW asks, NEW r, NEW rs
  PROVE  SeenTrue(D, known, NoPass, asks, r, rs) <=>
           /\ \A l \in StoredIn(rs) : RowTrue(D, rs[l])
           /\ \A k \in asks : CardShown(D, k) /\ CardTrue(rs, k)
           /\ r # NoCall => r.card \in asks
           /\ r # NoCall /\ r.stage = "marking" => Snapshot(D, r.doc, r.version, r.card.local)
BY DEF SeenTrue, NoPass, UnderWay

LEMMA SeenPushing ==
  ASSUME NEW D, NEW known, NEW p, NEW asks, NEW r, NEW rs, p.pc = "pushing"
  PROVE  SeenTrue(D, known, p, asks, r, rs) <=>
           /\ \A l \in StoredIn(rs) : RowTrue(D, rs[l])
           /\ \A e \in p.pulls : Snapshot(D, e.cloudId, e.version, e.payload)
           /\ \A l \in DOMAIN p.marks : MarkTrue(D, p.marks[l])
           /\ \A k \in p.found : CardShown(D, k)
           /\ \A q \in p.pushes : \A k \in q.collision : CardShown(D, k)
           /\ r # NoCall => r.card \in asks
           /\ r # NoCall /\ r.stage = "marking" => Snapshot(D, r.doc, r.version, r.card.local)
BY DEF SeenTrue, UnderWay

\* A pass between two rows, after a call that found these cards.
LEMMA SeenNext ==
  ASSUME NEW D, NEW known, NEW asks, NEW r, NEW rs, NEW rt, NEW p, NEW T, PassTyped(p, T),
         SeenTrue(D, known, p, asks, r, rs),
         \A l \in StoredIn(rt) : RowTrue(D, rt[l]),
         NEW found, \A k \in found : CardShown(D, k)
  PROVE  SeenTrue(D, known, NextPush(p, found), asks, r, rt)
<1> DEFINE n == NextPush(p, found)
<1>1. /\ n.pc = "pushing" /\ n.pushes = p.pushes /\ n.found = found
      /\ n.pulls = p.pulls /\ n.marks = p.marks
  BY DEF NextPush, PassTyped, NoPass
<1> HIDE DEF n
<1>2. /\ \A e \in p.pulls : Snapshot(D, e.cloudId, e.version, e.payload)
      /\ \A l \in DOMAIN p.marks : MarkTrue(D, p.marks[l])
      /\ \A q \in p.pushes : \A k \in q.collision : CardShown(D, k)
      /\ r # NoCall => r.card \in asks
      /\ r # NoCall /\ r.stage = "marking" => Snapshot(D, r.doc, r.version, r.card.local)
  BY DEF SeenTrue
<1>3. SeenTrue(D, known, n, asks, r, rt)
  BY <1>1, <1>2, SeenPushing
<1> QED
  BY <1>3 DEF n

LEMMA ReadSeen ==
  ASSUME OneAtATime, SyncTypeOK, LocalTrue, CloudTrue, NEW d \in Devices,
         StartPass(d) \/ Read(d) \/ ReadFails(d)
  PROVE  CloudTrue'
<1>1. /\ Shape /\ PassTyped(pass[d], Known) /\ PassTrue(pass[d], resolution[d], rows[d])
      /\ SeenTrue(docs, Known, pass[d], conflicts[d], resolution[d], rows[d])
      /\ CallsTrue(docs, pass[d], resolution[d], handler[Pusher(d)], handler[Dialog(d)])
      /\ OnlyOneActs
  BY DEF SyncTypeOK, WindowOK, LocalTrue, CloudTrue
<1>2. Quieted(d) \/ \A e \in Devices \ {d} : Quiet(e)
  BY <1>1, OneActs DEF DeviceStep, PassStep, Fault
<1>3. handler[Pusher(d)].stage = "idle"
  <2>1. pass[d].pc \in {"idle", "reading"}
    BY <1>1, ReadDoes, ReadFailsDoes DEF StartPass, At
  <2> QED
    BY <2>1 DEF SyncTypeOK, WindowOK, CallsOK
<1>4. CASE StartPass(d)
  <2>1. pass[d].pc = "idle"
    BY <1>4 DEF StartPass, At
  <2>2. pass[d] = NoPass /\ pass'[d] = [NoPass EXCEPT !.pc = "reading"]
    BY <1>1, <1>4, <2>1, StartPassDoes DEF PassTrue
  <2>3. SeenTrue(docs, Known, [NoPass EXCEPT !.pc = "reading"], conflicts[d], resolution[d], rows[d])
    BY <1>1, <2>2 DEF SeenTrue, NoPass, UnderWay
  <2>4. CallsTrue(docs, pass'[d], resolution[d], handler[Pusher(d)], handler[Dialog(d)])
    BY <1>1, <1>3 DEF CallsTrue
  <2> QED
    BY <1>1, <1>2, <1>4, <2>2, <2>3, <2>4, StartPassDoes, CloudAfter DEF PassAlone, SameStore, SameCalls
<1>5. CASE Read(d)
  <2>1. PassAlone(d) /\ pass[d].pc = "reading" /\ UnderWay(pass[d]) = {}
    BY <1>1, <1>5, ReadDoes DEF UnderWay
  <2>2. /\ pass'[d].pc = "reading" /\ pass'[d].pushes = pass[d].pushes
        /\ pass'[d].found = pass[d].found
        /\ pass'[d].pulls = pass[d].pulls /\ pass'[d].marks = pass[d].marks
        /\ pass'[d].cloudState \in {pass[d].cloudState, StateOfDocs(docs, Known)}
        /\ \/ pass'[d].cloudList = pass[d].cloudList
           \/ \E S \in SUBSET Known : pass'[d].cloudList = [i \in S |-> docs[i]]
        /\ UnderWay(pass'[d]) = {}
    <3>1. CASE pass'[d] = [pass[d] EXCEPT !.localState = StateOf(rows[d])]
      BY <1>1, <2>1, <3>1 DEF PassTyped, NoPass, UnderWay
    <3>2. CASE pass'[d] = [pass[d] EXCEPT !.localList = ListOf(rows[d])]
      BY <1>1, <2>1, <3>2 DEF PassTyped, NoPass, UnderWay
    <3>3. CASE pass'[d] = [pass[d] EXCEPT !.cloudState = StateOfDocs(docs, Known)]
      BY <1>1, <2>1, <3>3 DEF PassTyped, NoPass, UnderWay
    <3>4. CASE \E S \in SUBSET Known : pass'[d] = [pass[d] EXCEPT !.cloudList = [i \in S |-> docs[i]]]
      BY <1>1, <2>1, <3>4 DEF PassTyped, NoPass, UnderWay
    <3> QED
      BY <1>1, <1>5, <3>1, <3>2, <3>3, <3>4, ReadDoes
  <2>3. pass'[d].cloudList # NotRead =>
          \A i \in DOMAIN pass'[d].cloudList : pass'[d].cloudList[i] = docs[i]
    BY <1>1, <2>1, <2>2 DEF SeenTrue
  <2>4. SeenTrue(docs, Known, pass'[d], conflicts[d], resolution[d], rows[d])
    BY <1>1, <2>1, <2>2, <2>3 DEF SeenTrue
  <2>5. CallsTrue(docs, pass'[d], resolution[d], handler[Pusher(d)], handler[Dialog(d)])
    BY <1>1, <1>3 DEF CallsTrue
  <2> QED
    BY <1>2, <2>1, <2>4, <2>5, CloudAfter DEF PassAlone, SameStore, SameCalls
<1>6. CASE ReadFails(d)
  <2>1. pass[d].pc = "reading" /\ resolution[d] = NoCall
    BY <1>1, <1>6, ReadFailsDoes DEF PassTrue
  <2>2. SeenTrue(docs, Known, NoPass, {}, resolution[d], rows[d])
    <3>1. \A l \in StoredIn(rows[d]) : RowTrue(docs, rows[d][l])
      BY <1>1 DEF SeenTrue
    <3> QED
      BY <2>1, <3>1, SeenIdle
  <2>3. CallsTrue(docs, pass'[d], resolution[d], handler[Pusher(d)], handler[Dialog(d)])
    BY <1>1, <1>3 DEF CallsTrue
  <2> QED
    BY <1>1, <1>2, <1>6, <2>2, <2>3, ReadFailsDoes, CloudAfter DEF SameStore, SameCalls
<1> QED
  BY <1>4, <1>5, <1>6

\* What Decide makes of the responses is what the documents are.
LEMMA DecidedSeen ==
  ASSUME NEW p, NEW D, NEW known \in SUBSET DocIds, PassTyped(p, known),
         \A i \in known : D[i] \in Doc,
         NEW asks, NEW r, NEW rs, SeenTrue(D, known, p, asks, r, rs),
         p.pc = "reading",
         NotRead \notin {p.localState, p.localList, p.cloudState, p.cloudList},
         NEW f \in LocalByCloudId(p.localState, p.cloudState)
  PROVE  SeenTrue(D, known, Decided(p, f), asks, r, rs)
<1> DEFINE ls == p.localState
           ll == p.localList
           cs == p.cloudState
           cl == p.cloudList
           n  == Decided(p, f)
<1>1. /\ DOMAIN cs = known
      /\ \A i \in known : cs[i].version = D[i].version /\ cs[i].deleted = D[i].deleted
      /\ DOMAIN cl \subseteq known /\ \A i \in DOMAIN cl : cl[i] = D[i]
  <2>1. cs = StateOfDocs(D, known) /\ \A i \in DOMAIN cl : cl[i] = D[i]
    BY DEF SeenTrue
  <2> QED
    BY <2>1 DEF StateOfDocs, PassTyped, Partial
<1>2. \A i \in known : /\ D[i].version \in Nat /\ D[i].payload \in Payload
                       /\ D[i].payload # NoPayload
  BY SentinelAssumption DEF Doc
<1>3. /\ n.pc = "pushing" /\ n.pushes = Pushes(ls, ll, cs, cl) /\ n.found = {}
      /\ n.pulls = NewRecords(ls, cs, cl) /\ n.marks = StaleMarks(ls, cs, cl, f)
  BY DEF Decided, NoPass
<1> HIDE DEF n, ls, ll, cs, cl
<1>4. \A e \in n.pulls : Snapshot(D, e.cloudId, e.version, e.payload)
  <2> SUFFICES ASSUME NEW e \in NewRecords(ls, cs, cl)
               PROVE  Snapshot(D, e.cloudId, e.version, e.payload)
    BY <1>3
  <2>1. PICK i \in DOMAIN cs \cap DOMAIN cl :
          e = [cloudId |-> i, version |-> cs[i].version, payload |-> cl[i].payload]
    BY DEF NewRecords
  <2> QED
    BY <1>1, <1>2, <2>1 DEF Snapshot
<1>5. \A l \in DOMAIN n.marks : MarkTrue(D, n.marks[l])
  <2> SUFFICES ASSUME NEW l \in StaleRows(ls, cs, cl, f)
               PROVE  MarkTrue(D, n.marks[l])
    BY <1>3 DEF StaleMarks
  <2> DEFINE i == ls[l].cloudId
  <2>1. n.marks[l] = MarkEntry(i, cs[i].version, cs[i].deleted,
                               IF cs[i].deleted THEN NoPayload ELSE cl[i].payload)
    BY <1>3 DEF StaleMarks
  <2>2. i \in known /\ (~cs[i].deleted => i \in DOMAIN cl)
    BY <1>1 DEF StaleRows, LocalByCloudId, LinkedRows, ls, cs
  <2> HIDE DEF i
  <2> QED
    BY <1>1, <1>2, <2>1, <2>2 DEF MarkEntry, MarkTrue, Snapshot
<1>6. \A q \in n.pushes : \A k \in q.collision : CardShown(D, k)
  <2> SUFFICES ASSUME NEW q \in n.pushes, NEW k \in q.collision PROVE CardShown(D, k)
    OBVIOUS
  <2>1. PICK l \in DOMAIN ls \cap DOMAIN ll :
          q = PushOf(l, ll[l], [op |-> "create", payload |-> ll[l]], Namesake(l, ll[l], cl))
    <3>1. q \in Creates(ls, ll, cl) \/ q.collision = {}
      BY <1>3 DEF Pushes, Deletes, Updates, PushOf
    <3> QED
      BY <3>1 DEF Creates
  <2>2. PICK i \in DOMAIN cl : k = Conflict(l, ll[l], i, cl[i])
    BY <2>1 DEF PushOf, Namesake
  <2> QED
    BY <1>1, <1>2, <2>2 DEF Conflict, CardShown, Snapshot
<1>7. /\ \A l \in StoredIn(rs) : RowTrue(D, rs[l])
      /\ r # NoCall => r.card \in asks
      /\ r # NoCall /\ r.stage = "marking" => Snapshot(D, r.doc, r.version, r.card.local)
  BY DEF SeenTrue
<1>8. \A k \in n.found : CardShown(D, k)
  BY <1>3
<1>9. SeenTrue(D, known, n, asks, r, rs)
  <2>1. n.pc = "pushing"
    BY <1>3
  <2> QED
    BY <1>4, <1>5, <1>6, <1>7, <1>8, <2>1, SeenPushing
<1> QED
  BY <1>9 DEF n

LEMMA DecideSeen ==
  ASSUME OneAtATime, SyncTypeOK, CloudTrue, NEW d \in Devices, Decide(d)
  PROVE  CloudTrue'
<1>1. /\ Shape /\ PassTyped(pass[d], Known) /\ Known \in SUBSET DocIds
      /\ \A i \in Known : docs[i] \in Doc
      /\ SeenTrue(docs, Known, pass[d], conflicts[d], resolution[d], rows[d])
      /\ CallsTrue(docs, pass[d], resolution[d], handler[Pusher(d)], handler[Dialog(d)])
      /\ OnlyOneActs
  BY KnownAre DEF SyncTypeOK, WindowOK, CloudTrue
<1>2. Quieted(d) \/ \A e \in Devices \ {d} : Quiet(e)
  BY <1>1, OneActs DEF DeviceStep, PassStep
<1>3. /\ PassAlone(d) /\ pass[d].pc = "reading"
      /\ NotRead \notin {pass[d].localState, pass[d].localList,
                         pass[d].cloudState, pass[d].cloudList}
  BY <1>1, DecideDoes
<1>4. PICK f \in LocalByCloudId(pass[d].localState, pass[d].cloudState) :
        pass'[d] = Decided(pass[d], f)
  BY <1>1, DecideDoes
<1>5. SeenTrue(docs, Known, pass'[d], conflicts[d], resolution[d], rows[d])
  BY <1>1, <1>3, <1>4, DecidedSeen
<1>6. CallsTrue(docs, pass'[d], resolution[d], handler[Pusher(d)], handler[Dialog(d)])
  BY <1>1, <1>3 DEF CallsTrue, SyncTypeOK, WindowOK, CallsOK
<1> QED
  BY <1>2, <1>3, <1>5, <1>6, CloudAfter DEF PassAlone, SameStore, SameCalls

LEMMA PushSeen ==
  ASSUME OneAtATime, SyncTypeOK, CloudTrue, NEW d \in Devices, Push(d)
  PROVE  CloudTrue'
<1> DEFINE p == pass[d]
           n == pass'[d]
<1>1. /\ Shape /\ PassTyped(p, Known)
      /\ SeenTrue(docs, Known, p, conflicts[d], resolution[d], rows[d])
      /\ CallsTrue(docs, p, resolution[d], handler[Pusher(d)], handler[Dialog(d)])
      /\ OnlyOneActs
  BY DEF SyncTypeOK, WindowOK, CloudTrue
<1>2. Quieted(d) \/ \A e \in Devices \ {d} : Quiet(e)
  BY <1>1, OneActs DEF DeviceStep, PassStep
<1>3. PICK q \in p.pushes : /\ handler'[Pusher(d)] = Cloud!Received(q.request)
                            /\ n = StartPush(p, q)
  BY <1>1, PushDoes
<1>4. /\ n.pc = "calling" /\ n.current = q /\ n.pushes = p.pushes \ {q} /\ n.found = p.found
      /\ n.pulls = p.pulls /\ n.marks = p.marks /\ p.pc = "pushing"
  BY <1>1, <1>3, PushDoes DEF StartPush, PassTyped, NoPass
<1>5. SeenTrue(docs, Known, n, conflicts[d], resolution[d], rows[d])
  BY <1>1, <1>4 DEF SeenTrue, UnderWay
<1>6. handler'[Pusher(d)].stage = "received"
  BY <1>3 DEF Cloud!Received
<1>7. CallsTrue(docs, n, resolution[d], handler'[Pusher(d)], handler[Dialog(d)])
  BY <1>1, <1>6 DEF CallsTrue, ServedTrue
<1> QED
  BY <1>1, <1>2, <1>5, <1>7, PushDoes, CloudAfter DEF SameStore

LEMMA AnswerSeen ==
  ASSUME OneAtATime, SyncTypeOK, LocalTrue, CloudTrue, NEW d \in Devices,
         PushAccepted(d) \/ PushConflicts(d) \/ PushCollides(d) \/ PushLost(d)
  PROVE  CloudTrue'
<1> DEFINE p == pass[d]
           c == pass[d].current
           h == handler[Pusher(d)]
<1>1. /\ Shape /\ PassTyped(p, Known)
      /\ SeenTrue(docs, Known, p, conflicts[d], resolution[d], rows[d])
      /\ CallsTrue(docs, p, resolution[d], handler[Pusher(d)], handler[Dialog(d)])
      /\ OnlyOneActs /\ PassTrue(p, resolution[d], rows[d])
  BY DEF SyncTypeOK, WindowOK, CloudTrue, LocalTrue
<1>2. Quieted(d) \/ \A e \in Devices \ {d} : Quiet(e)
  BY <1>1, OneActs DEF DeviceStep, PassStep, Fault
<1>3. Taken(d) /\ Answer(d) = h
  BY <1>1, PushAcceptedDoes, PushConflictsDoes, PushCollidesDoes, PushLostDoes, ZenonT(60) DEF Answer
<1>4. p.pc = "calling" /\ UnderWay(p) = {c}
  BY <1>3 DEF Taken, UnderWay
<1>5. /\ c \in PushCall(Known)
      /\ h.stage = "replied" => Serves(h, c.request, Known) /\ ServedTrue(docs, h, c.request)
  BY <1>1, <1>4 DEF SyncTypeOK, WindowOK, CallsOK, CallsTrue
<1>6. \A i \in Known : docs[i] \in Doc /\ docs[i].version \in Nat
  BY KnownAre DEF Doc
<1>7. ASSUME NEW n, n = pass'[d], SeenTrue(docs, Known, n, conflicts[d], resolution[d], rows[d])
      PROVE  CloudTrue'
  <2>1. CallsTrue(docs, n, resolution[d], handler'[Pusher(d)], handler'[Dialog(d)])
    BY <1>1, <1>3, IdleHandler DEF CallsTrue, Taken
  <2> QED
    BY <1>2, <1>3, <1>7, <2>1, CloudAfter DEF Taken, SameStore
<1>8. ASSUME NEW found, \A k \in found \ p.found : CardShown(docs, k),
             pass'[d] = NextPush(p, found)
      PROVE  CloudTrue'
  <2>1. (\A k \in found : CardShown(docs, k)) /\ \A l \in StoredIn(rows[d]) : RowTrue(docs, rows[d][l])
    BY <1>1, <1>8 DEF SeenTrue
  <2>2. SeenTrue(docs, Known, NextPush(p, found), conflicts[d], resolution[d], rows[d])
    BY <1>1, <2>1, SeenNext
  <2> QED
    BY <1>7, <1>8, <2>2
<1>9. CASE PushAccepted(d)
  <2> DEFINE m == MarkEntry(h.doc, h.result.version, c.request.op = "delete", NoPayload)
             n == AcceptPush(p, m)
  <2>1. pass'[d] = n /\ h.stage = "replied" /\ h.status = 200
    BY <1>1, <1>3, <1>9, PushAcceptedDoes
  <2>2. m.cloudId = h.doc /\ m.base = h.result.version /\ m.deleted = (c.request.op = "delete")
    BY DEF MarkEntry
  <2>3. h.doc \in Known /\ h.result = docs[h.doc]
    BY <1>5, <2>1 DEF Serves, ServedTrue
  <2>4. /\ m.base <= docs[m.cloudId].version
        /\ ~m.deleted => Snapshot(docs, m.cloudId, m.base, rows[d][c.row].payload)
    <3>1. m.base = docs[m.cloudId].version /\ m.base \in Nat
      BY <1>6, <2>2, <2>3
    <3>2. ~m.deleted => docs[m.cloudId].payload = rows[d][c.row].payload
      <4> SUFFICES ASSUME c.request.op # "delete"
                   PROVE  docs[h.doc].payload = rows[d][c.row].payload
        BY <2>2
      <4>1. docs[h.doc].payload = c.request.payload
        BY <1>5, <2>1 DEF ServedTrue
      <4>2. c.request.payload = c.local
        BY <1>5, PushParts
      <4>3. c.local = rows[d][c.row].payload
        BY <1>1, <1>4 DEF PassTrue, PushTrue
      <4> QED
        BY <4>1, <4>2, <4>3
    <3> QED
      BY <3>1, <3>2, SMTT(30) DEF Snapshot
  <2> HIDE DEF m
  <2>5. /\ n.pc = "marking" /\ n.current = c /\ n.mark = m /\ n.pushes = p.pushes
        /\ n.found = p.found /\ n.pulls = p.pulls /\ n.marks = p.marks
    BY <1>1 DEF AcceptPush, PassTyped, NoPass
  <2> HIDE DEF n
  <2>6. SeenTrue(docs, Known, n, conflicts[d], resolution[d], rows[d])
    <3>1. UnderWay(n) = {c}
      BY <2>5 DEF UnderWay
    <3> QED
      BY <1>1, <1>4, <2>4, <2>5, <3>1 DEF SeenTrue
  <2> QED
    BY <1>7, <2>1, <2>6
<1>10. CASE PushConflicts(d)
  <2> DEFINE k == Conflict(c.row, c.local, h.doc, h.result)
  <2>1. pass'[d] = NextPush(p, p.found \cup {k}) /\ h.stage = "replied" /\ h.status = 409
    BY <1>1, <1>3, <1>10, PushConflictsDoes
  <2>2. h.doc \in Known /\ h.result = docs[h.doc]
    BY <1>5, <2>1 DEF Serves, ServedTrue
  <2>3. CardShown(docs, k)
    BY <1>6, <2>2 DEF Conflict, CardShown, Snapshot
  <2> HIDE DEF k
  <2> QED
    BY <1>8, <2>1, <2>3
<1>11. CASE PushCollides(d)
  <2>1. pass'[d] = NextPush(p, p.found \cup c.collision)
    BY <1>1, <1>11, PushCollidesDoes
  <2>2. \A k \in c.collision : CardShown(docs, k)
    BY <1>1, <1>4 DEF SeenTrue
  <2> QED
    BY <1>8, <2>1, <2>2
<1>12. CASE PushLost(d)
  BY <1>1, <1>8, <1>12, PushLostDoes
<1> QED
  BY <1>9, <1>10, <1>11, <1>12

\* A row that mark-synced writes is in sync, or has fallen behind since.
LEMMA SyncedTrue ==
  ASSUME NEW D, NEW known \in SUBSET DocIds, \A i \in known : D[i] \in Doc,
         NEW row \in RowType, NEW m \in MarkOf(known),
         \/ MarkTrue(D, m)
         \/ /\ m.base <= D[m.cloudId].version /\ m.resolved = NoPayload
            /\ ~m.deleted => Snapshot(D, m.cloudId, m.base, row.payload)
  PROVE  RowTrue(D, Local!SyncedRow(row, m))
<1> DEFINE new == Local!SyncedRow(row, m)
<1>1. /\ new.cloudId = m.cloudId /\ new.version = m.base /\ new.base = m.base
      /\ new.deleted = m.deleted
      /\ new.payload = IF m.resolved = NoPayload THEN row.payload ELSE m.resolved
  BY DEF Local!SyncedRow
<1>2. m.base \in Nat /\ m.base >= m.base
  BY DEF MarkOf
<1>3. ~m.deleted => Snapshot(D, m.cloudId, m.base, new.payload)
  BY <1>1 DEF MarkTrue
<1>4. m.base <= D[m.cloudId].version
  BY DEF MarkTrue
<1> HIDE DEF new
<1>5. RowTrue(D, new)
  BY <1>1, <1>2, <1>3, <1>4 DEF RowTrue, Snapshot, DerivesFrom
<1> QED
  BY <1>5 DEF new

\* mark-synced, with entries that are true of the documents.
LEMMA MarkedTrue ==
  ASSUME NEW D, NEW known \in SUBSET DocIds, \A i \in known : D[i] \in Doc,
         NEW rs, NEW ids, StoreOK(rs, ids, known), \A l \in StoredIn(rs) : RowTrue(D, rs[l]),
         NEW marks,
         \A l \in DOMAIN marks \cap StoredIn(rs) :
           /\ marks[l] \in MarkOf(known)
           /\ \/ MarkTrue(D, marks[l])
              \/ /\ marks[l].base <= D[marks[l].cloudId].version
                 /\ marks[l].resolved = NoPayload
                 /\ ~marks[l].deleted =>
                      Snapshot(D, marks[l].cloudId, marks[l].base, rs[l].payload)
  PROVE  \A l \in StoredIn(Marked(rs, marks)) : RowTrue(D, Marked(rs, marks)[l])
<1> SUFFICES ASSUME NEW l \in StoredIn(Marked(rs, marks))
             PROVE  RowTrue(D, Marked(rs, marks)[l])
  OBVIOUS
<1>1. l \in LocalIds /\ Marked(rs, marks)[l] # NoRow
  BY DEF StoredIn
<1>2. CASE l \in DOMAIN marks /\ l \in StoredIn(rs)
  <2>1. Marked(rs, marks)[l] = Local!SyncedRow(rs[l], marks[l]) /\ rs[l] \in RowType
    BY <1>1, <1>2, SameData DEF Marked, StoreOK, StoredIn
  <2> DEFINE m == marks[l]
  <2>2. /\ m \in MarkOf(known)
        /\ \/ MarkTrue(D, m)
           \/ /\ m.base <= D[m.cloudId].version /\ m.resolved = NoPayload
              /\ ~m.deleted => Snapshot(D, m.cloudId, m.base, rs[l].payload)
    BY <1>2
  <2> HIDE DEF m
  <2>3. RowTrue(D, Local!SyncedRow(rs[l], m))
    BY <2>1, <2>2, SyncedTrue
  <2> QED
    BY <2>1, <2>3 DEF m
<1>3. CASE ~(l \in DOMAIN marks /\ l \in StoredIn(rs))
  <2>1. Marked(rs, marks)[l] = rs[l]
    BY <1>1, <1>3 DEF Marked
  <2> QED
    BY <1>1, <2>1 DEF StoredIn
<1> QED
  BY <1>2, <1>3

LEMMA ConfirmSeen ==
  ASSUME OneAtATime, SyncTypeOK, LocalTrue, CloudTrue, NEW d \in Devices,
         Confirm(d) \/ ConfirmLost(d)
  PROVE  CloudTrue'
<1> DEFINE p == pass[d]
<1>1. /\ Shape /\ PassTyped(p, Known) /\ StoreOK(rows[d], issued[d], Known)
      /\ Known \in SUBSET DocIds /\ \A i \in Known : docs[i] \in Doc
      /\ SeenTrue(docs, Known, p, conflicts[d], resolution[d], rows[d])
      /\ CallsTrue(docs, p, resolution[d], handler[Pusher(d)], handler[Dialog(d)])
      /\ OnlyOneActs
  BY KnownAre DEF SyncTypeOK, WindowOK, CloudTrue
<1>2. Quieted(d) \/ \A e \in Devices \ {d} : Quiet(e)
  BY <1>1, OneActs DEF DeviceStep, PassStep, Fault
<1>3. /\ OthersStay(d) /\ SameCalls(d) /\ p.pc = "marking"
      /\ conflicts'[d] = conflicts[d] /\ resolution'[d] = resolution[d]
      /\ pass'[d] = NextPush(p, p.found)
  BY <1>1, ConfirmDoes, ConfirmLostDoes DEF PassAlone
<1>4. p.mark \in MarkOf(Known) /\ handler[Pusher(d)].stage = "idle"
  BY <1>3 DEF SyncTypeOK, WindowOK, CallsOK
<1>5. /\ \A l \in StoredIn(rows[d]) : RowTrue(docs, rows[d][l])
      /\ \A k \in p.found : CardShown(docs, k)
      /\ p.mark.base <= docs[p.mark.cloudId].version
      /\ ~p.mark.deleted =>
           Snapshot(docs, p.mark.cloudId, p.mark.base, rows[d][p.current.row].payload)
  BY <1>1, <1>3 DEF SeenTrue
<1>6. \A l \in StoredIn(rows'[d]) : RowTrue(docs, rows'[d][l])
  <2>1. CASE Confirm(d)
    <3> DEFINE marks == [l \in {p.current.row} |-> p.mark]
    <3>1. rows'[d] = Marked(rows[d], marks)
      BY <1>1, <2>1, ConfirmDoes
    <3>2. p.mark.resolved = NoPayload
      BY <1>3, <2>1 DEF LocalTrue, PassTrue
    <3>3. \A l \in DOMAIN marks : marks[l] = p.mark /\ l = p.current.row
      OBVIOUS
    <3> HIDE DEF marks
    <3> QED
      BY <1>1, <1>4, <1>5, <3>1, <3>2, <3>3, MarkedTrue
  <2>2. CASE ConfirmLost(d)
    BY <1>1, <1>5, <2>2, ConfirmLostDoes DEF PassAlone, SameStore
  <2> QED
    BY <2>1, <2>2
<1>7. SeenTrue(docs, Known, NextPush(p, p.found), conflicts[d], resolution[d], rows'[d])
  BY <1>1, <1>5, <1>6, SeenNext
<1>8. CallsTrue(docs, pass'[d], resolution[d], handler[Pusher(d)], handler[Dialog(d)])
  BY <1>1, <1>4 DEF CallsTrue
<1> QED
  BY <1>2, <1>3, <1>7, <1>8, CloudAfter DEF SameCalls

LEMMA PullSeen ==
  ASSUME OneAtATime, SyncTypeOK, CloudTrue, NEW d \in Devices,
         PullNew(d) \/ MarkPulled(d) \/ PullLost(d)
  PROVE  CloudTrue'
<1> DEFINE p == pass[d]
           n == pass'[d]
           rs == rows[d]
           rt == rows'[d]
<1>1. /\ Shape /\ PassTyped(p, Known) /\ StoreOK(rs, issued[d], Known)
      /\ Known \in SUBSET DocIds /\ \A i \in Known : docs[i] \in Doc
      /\ SeenTrue(docs, Known, p, conflicts[d], resolution[d], rs)
      /\ CallsTrue(docs, p, resolution[d], handler[Pusher(d)], handler[Dialog(d)])
      /\ OnlyOneActs
  BY KnownAre DEF SyncTypeOK, WindowOK, CloudTrue
<1>2. Quieted(d) \/ \A e \in Devices \ {d} : Quiet(e)
  BY <1>1, OneActs DEF DeviceStep, PassStep, Fault
<1>3. /\ OthersStay(d) /\ SameCalls(d) /\ p.pc = "pushing"
      /\ conflicts'[d] = conflicts[d] /\ resolution'[d] = resolution[d]
      /\ \/ n = [p EXCEPT !.pulls = {}]
         \/ n = [p EXCEPT !.marks = <<>>]
  BY <1>1, PullNewDoes, MarkPulledDoes, PullLostDoes DEF PassAlone
<1>4. /\ n.pc = "pushing" /\ n.pushes = p.pushes /\ n.found = p.found
      /\ n.pulls \in {p.pulls, {}} /\ n.marks \in {p.marks, <<>>}
  BY <1>1, <1>3 DEF PassTyped, NoPass
<1>5. /\ \A l \in StoredIn(rs) : RowTrue(docs, rs[l])
      /\ \A e \in p.pulls : Snapshot(docs, e.cloudId, e.version, e.payload)
      /\ \A l \in DOMAIN p.marks : MarkTrue(docs, p.marks[l])
  BY <1>1 DEF SeenTrue
<1>6. \A l \in StoredIn(rt) : RowTrue(docs, rt[l])
  <2>1. CASE PullNew(d)
    <3> SUFFICES ASSUME NEW l \in StoredIn(rt) PROVE RowTrue(docs, rt[l])
      OBVIOUS
    <3>1. l \in LocalIds /\ rt[l] # NoRow
      BY DEF StoredIn
    <3>2. CASE rt[l] = rs[l]
      BY <1>5, <3>1, <3>2 DEF StoredIn
    <3>3. CASE rt[l] # rs[l]
      <4>1. PICK e \in p.pulls : rt[l] = Local!PulledRow(e)
        BY <1>1, <2>1, <3>1, <3>3, PullNewDoes
      <4>2. e \in PullOf(Known) /\ Snapshot(docs, e.cloudId, e.version, e.payload)
        BY <1>1, <1>5 DEF PassTyped
      <4>3. e.version \in Nat /\ e.version >= e.version
        BY <4>2 DEF PullOf
      <4>4. /\ rt[l].cloudId = e.cloudId /\ rt[l].payload = e.payload
            /\ rt[l].version = e.version /\ rt[l].base = e.version
        BY <4>1 DEF Local!PulledRow
      <4> QED
        BY <4>2, <4>3, <4>4 DEF RowTrue, Snapshot, DerivesFrom
    <3> QED
      BY <3>2, <3>3
  <2>2. CASE MarkPulled(d)
    <3>1. rt = Marked(rs, p.marks)
      BY <1>1, <2>2, MarkPulledDoes
    <3>2. \A l \in DOMAIN p.marks : p.marks[l] \in MarkOf(Known)
      BY <1>1 DEF PassTyped, Partial
    <3> QED
      BY <1>1, <1>5, <3>1, <3>2, MarkedTrue
  <2>3. CASE PullLost(d)
    BY <1>1, <1>5, <2>3, PullLostDoes DEF PassAlone, SameStore
  <2> QED
    BY <2>1, <2>2, <2>3
<1>7. \A l \in DOMAIN n.marks : MarkTrue(docs, n.marks[l])
  BY <1>4, <1>5
<1>8. SeenTrue(docs, Known, n, conflicts[d], resolution[d], rt)
  <2> HIDE DEF n, rt
  <2> QED
    BY <1>1, <1>3, <1>4, <1>5, <1>6, <1>7, SeenPushing
<1>9. CallsTrue(docs, n, resolution[d], handler[Pusher(d)], handler[Dialog(d)])
  BY <1>1, <1>3 DEF CallsTrue, SyncTypeOK, WindowOK, CallsOK
<1> QED
  BY <1>2, <1>3, <1>8, <1>9, CloudAfter DEF SameCalls

\* The dialog opens on what the pass found, which is what the rows hold.
LEMMA EndSeen ==
  ASSUME OneAtATime, SyncTypeOK, LocalTrue, CloudTrue, NEW d \in Devices,
         EndPass(d) \/ WindowCloses(d)
  PROVE  CloudTrue'
<1>1. /\ Shape /\ SeenTrue(docs, Known, pass[d], conflicts[d], resolution[d], rows[d])
      /\ CallsTrue(docs, pass[d], resolution[d], handler[Pusher(d)], handler[Dialog(d)])
      /\ OnlyOneActs /\ PassTrue(pass[d], resolution[d], rows[d])
  BY DEF SyncTypeOK, CloudTrue, LocalTrue
<1>2. Quieted(d) \/ \A e \in Devices \ {d} : Quiet(e)
  BY <1>1, OneActs DEF DeviceStep, PassStep, Fault
<1>3. \A l \in StoredIn(rows[d]) : RowTrue(docs, rows[d][l])
  BY <1>1 DEF SeenTrue
<1>4. CASE EndPass(d)
  <2>1. /\ OthersStay(d) /\ SameStore(d) /\ SameCalls(d) /\ resolution'[d] = resolution[d]
        /\ pass[d].pc = "pushing" /\ pass'[d] = NoPass /\ conflicts'[d] = pass[d].found
    BY <1>1, <1>4, EndPassDoes
  <2>2. resolution[d] = NoCall /\ \A k \in pass[d].found : CardShown(docs, k) /\ CardTrue(rows[d], k)
    BY <1>1, <2>1 DEF PassTrue, SeenTrue
  <2>3. SeenTrue(docs, Known, NoPass, pass[d].found, resolution[d], rows[d])
    BY <1>3, <2>2, SeenIdle
  <2>4. CallsTrue(docs, pass'[d], resolution[d], handler[Pusher(d)], handler[Dialog(d)])
    BY <1>1, <2>1 DEF CallsTrue, SyncTypeOK, WindowOK, CallsOK
  <2> QED
    BY <1>2, <2>1, <2>3, <2>4, CloudAfter DEF SameStore, SameCalls
<1>5. CASE WindowCloses(d)
  <2>1. SeenTrue(docs, Known, NoPass, {}, NoCall, rows[d])
    BY <1>3, SeenIdle
  <2>2. CallsTrue(docs, NoPass, NoCall, Cloud!Idle, Cloud!Idle)
    BY IdleHandler DEF CallsTrue
  <2> QED
    BY <1>1, <1>2, <1>5, <2>1, <2>2, WindowClosesDoes, CloudAfter DEF SameStore
<1> QED
  BY <1>4, <1>5

\* Answering a conflict writes the card's own row.
LEMMA AnsweredCards ==
  ASSUME NEW rs, NEW marks, NEW l, DOMAIN marks = {l},
         NEW asks, \A k \in asks : CardTrue(rs, k)
  PROVE  \A k \in Without(asks, l) : k \in asks /\ CardTrue(Marked(rs, marks), k)
<1> SUFFICES ASSUME NEW k \in Without(asks, l)
             PROVE  k \in asks /\ CardTrue(Marked(rs, marks), k)
  OBVIOUS
<1>1. k \in asks /\ k.row # l /\ k.row \in LocalIds
  BY DEF Without, CardTrue, StoredIn
<1>2. Marked(rs, marks)[k.row] = rs[k.row]
  BY <1>1 DEF Marked
<1> QED
  BY <1>1, <1>2, SameRow

LEMMA KeepCloudSeen ==
  ASSUME OneAtATime, SyncTypeOK, LocalTrue, CloudTrue, NEW d \in Devices, KeepCloud(d)
  PROVE  CloudTrue'
<1>1. /\ Shape /\ StoreOK(rows[d], issued[d], Known) /\ conflicts[d] \subseteq CardOf(Known)
      /\ Known \in SUBSET DocIds /\ \A i \in Known : docs[i] \in Doc
      /\ SeenTrue(docs, Known, pass[d], conflicts[d], resolution[d], rows[d])
      /\ CallsTrue(docs, pass[d], resolution[d], handler[Pusher(d)], handler[Dialog(d)])
      /\ OnlyOneActs /\ PassTrue(pass[d], resolution[d], rows[d])
  BY KnownAre DEF SyncTypeOK, WindowOK, CloudTrue, LocalTrue
<1>2. Quieted(d) \/ \A e \in Devices \ {d} : Quiet(e)
  BY <1>1, OneActs DEF DeviceStep, User
<1>3. /\ OthersStay(d) /\ SameCalls(d) /\ MayAct(d) /\ pass'[d] = pass[d]
      /\ resolution[d] = NoCall /\ resolution'[d] = NoCall
  BY <1>1, KeepCloudDoes
<1>4. pass[d] = NoPass
  BY <1>1, <1>3 DEF OneAtATime, MayAct, Quiet, At, PassTrue
<1> DEFINE Entry(k) == MarkEntry(k.doc, k.cloud.version, k.cloud.deleted,
                                 IF k.cloud.deleted THEN NoPayload ELSE k.cloud.payload)
<1>5. PICK k \in conflicts[d] :
        /\ rows'[d] = Marked(rows[d], [l \in {k.row} |-> Entry(k)])
        /\ conflicts'[d] = Without(conflicts[d], k.row)
  BY <1>1, KeepCloudDoes
<1>6. /\ \A l \in StoredIn(rows[d]) : RowTrue(docs, rows[d][l])
      /\ \A o \in conflicts[d] : CardShown(docs, o) /\ CardTrue(rows[d], o)
  BY <1>1, <1>4, SeenIdle
<1>7. /\ k \in CardOf(Known) /\ CardShown(docs, k)
      /\ k.cloud.payload \in Payload /\ k.cloud.payload # NoPayload
  BY <1>1, <1>6, SentinelAssumption DEF CardOf, Doc
<1>8. Entry(k) \in MarkOf(Known) /\ MarkTrue(docs, Entry(k))
  BY <1>7 DEF MarkEntry, MarkOf, CardOf, Doc, MarkTrue, CardShown, Snapshot
<1> DEFINE marks == [l \in {k.row} |-> Entry(k)]
<1>9. DOMAIN marks = {k.row} /\ \A l \in DOMAIN marks : marks[l] = Entry(k)
  OBVIOUS
<1>10. rows'[d] = Marked(rows[d], marks)
  BY <1>5
<1> HIDE DEF marks, Entry
<1>11. \A l \in StoredIn(rows'[d]) : RowTrue(docs, rows'[d][l])
  BY <1>1, <1>6, <1>8, <1>9, <1>10, MarkedTrue
<1>12. \A o \in Without(conflicts[d], k.row) : o \in conflicts[d] /\ CardTrue(rows'[d], o)
  BY <1>6, <1>9, <1>10, AnsweredCards
<1>13. SeenTrue(docs, Known, NoPass, conflicts'[d], NoCall, rows'[d])
  BY <1>5, <1>6, <1>11, <1>12, SeenIdle
<1>14. CallsTrue(docs, pass'[d], resolution'[d], handler'[Pusher(d)], handler'[Dialog(d)])
  BY <1>1, <1>3 DEF SameCalls
<1> QED
  BY <1>2, <1>3, <1>4, <1>13, <1>14, CloudAfter

LEMMA KeepLocalSeen ==
  ASSUME OneAtATime, SyncTypeOK, LocalTrue, CloudTrue, NEW d \in Devices, KeepLocal(d)
  PROVE  CloudTrue'
<1>1. /\ Shape
      /\ SeenTrue(docs, Known, pass[d], conflicts[d], resolution[d], rows[d])
      /\ CallsTrue(docs, pass[d], resolution[d], handler[Pusher(d)], handler[Dialog(d)])
      /\ OnlyOneActs /\ PassTrue(pass[d], resolution[d], rows[d])
  BY DEF SyncTypeOK, CloudTrue, LocalTrue
<1>2. Quieted(d) \/ \A e \in Devices \ {d} : Quiet(e)
  BY <1>1, OneActs DEF DeviceStep, User
<1>3. /\ OthersStay(d) /\ SameStore(d) /\ MayAct(d)
      /\ pass'[d] = pass[d] /\ conflicts'[d] = conflicts[d]
      /\ handler'[Pusher(d)] = handler[Pusher(d)] /\ resolution[d] = NoCall
  BY <1>1, KeepLocalDoes
<1>4. pass[d] = NoPass
  BY <1>1, <1>3 DEF OneAtATime, MayAct, Quiet, At, PassTrue
<1>5. handler[Dialog(d)].stage = "idle" /\ handler[Pusher(d)].stage = "idle"
  BY <1>3, <1>4, NoPassTyped DEF SyncTypeOK, WindowOK, CallsOK
<1>6. PICK k \in conflicts[d] :
        \/ /\ resolution'[d] = Opening(k)
           /\ handler'[Dialog(d)] = Cloud!Received([op |-> "create", payload |-> k.local])
        \/ /\ resolution'[d] = Aiming(k)
           /\ handler'[Dialog(d)] = handler[Dialog(d)]
  BY <1>1, KeepLocalDoes
<1>7. /\ resolution'[d].card = k /\ resolution'[d].stage # "marking"
      /\ handler'[Dialog(d)].stage \in {"idle", "received"}
  BY <1>5, <1>6 DEF Opening, Aiming, Cloud!Received
<1>8. SeenTrue(docs, Known, NoPass, conflicts[d], resolution'[d], rows[d])
  BY <1>1, <1>4, <1>7, SeenIdle
<1>9. CallsTrue(docs, pass'[d], resolution'[d], handler'[Pusher(d)], handler'[Dialog(d)])
  BY <1>3, <1>5, <1>7 DEF CallsTrue, ServedTrue
<1> QED
  BY <1>2, <1>3, <1>4, <1>8, <1>9, CloudAfter DEF SameStore

LEMMA ResolveSeen ==
  ASSUME OneAtATime, SyncTypeOK, LocalTrue, CloudTrue, NEW d \in Devices,
         DialogStep(d) \/ KeepLocalLost(d)
  PROVE  CloudTrue'
<1> DEFINE r == resolution[d]
           h == handler[Dialog(d)]
<1>1. /\ Shape /\ StoreOK(rows[d], issued[d], Known)
      /\ Known \in SUBSET DocIds /\ \A i \in Known : docs[i] \in Doc
      /\ SeenTrue(docs, Known, pass[d], conflicts[d], r, rows[d])
      /\ CallsTrue(docs, pass[d], r, handler[Pusher(d)], h)
      /\ OnlyOneActs /\ PassTrue(pass[d], r, rows[d])
      /\ r \in Resolution(Known) \cup {NoCall}
      /\ CallsOK(pass[d], r, handler[Pusher(d)], h, Known)
  BY KnownAre DEF SyncTypeOK, WindowOK, CloudTrue, LocalTrue
<1>2. Quieted(d) \/ \A e \in Devices \ {d} : Quiet(e)
  BY <1>1, OneActs DEF DeviceStep, Fault
<1>3. OthersStay(d) /\ pass'[d] = pass[d] /\ r # NoCall
  BY <1>1, DialogOthers
<1>4. pass[d] = NoPass
  BY <1>1, <1>3 DEF PassTrue
<1>5. /\ r \in Resolution(Known) /\ r.card \in conflicts[d] /\ handler[Pusher(d)].stage = "idle"
      /\ r.stage # "recreating" => r.doc \in Known
  BY <1>1, <1>3, <1>4, NoPassTyped, SeenIdle DEF CallsOK
<1>6. /\ \A l \in StoredIn(rows[d]) : RowTrue(docs, rows[d][l])
      /\ \A o \in conflicts[d] : CardShown(docs, o) /\ CardTrue(rows[d], o)
      /\ r.stage = "marking" => Snapshot(docs, r.doc, r.version, r.card.local)
  BY <1>1, <1>3, <1>4, SeenIdle
<1>7. h.stage = "replied" =>
        Serves(h, DialogRequest(r), Known) /\ ServedTrue(docs, h, DialogRequest(r))
  BY <1>1 DEF CallsOK, CallsTrue
\* The step aims at a document, calls, or takes the answer.
<1>8. ASSUME NEW s, s = resolution'[d],
             s = NoCall \/ (s.card = r.card /\ (s.stage = "marking" =>
                                Snapshot(docs, s.doc, s.version, s.card.local))),
             SameStore(d), conflicts'[d] = conflicts[d],
             handler'[Pusher(d)] = handler[Pusher(d)],
             handler'[Dialog(d)].stage \in {"idle", "received"}
      PROVE  CloudTrue'
  <2>1. SeenTrue(docs, Known, NoPass, conflicts[d], s, rows[d])
    BY <1>5, <1>6, <1>8, SeenIdle
  <2>2. CallsTrue(docs, pass'[d], s, handler'[Pusher(d)], handler'[Dialog(d)])
    BY <1>5, <1>8 DEF CallsTrue, ServedTrue
  <2> QED
    BY <1>2, <1>3, <1>4, <1>8, <2>1, <2>2, CloudAfter DEF SameStore
<1> HIDE DEF r, h
<1>9. CASE Recreated(d)
  <2>1. DialogAlone(d, "recreating") /\ handler'[Dialog(d)].stage = "idle"
        /\ h.stage = "replied" /\ h.status = 200 /\ resolution'[d] = AimAt(r, h.doc)
    BY <1>1, <1>9, RecreatedDoes, IdleHandler DEF r, h
  <2>2. h.doc \in Known
    BY <1>7, <2>1 DEF Serves
  <2>3. AimAt(r, h.doc).card = r.card /\ AimAt(r, h.doc).stage = "target"
    BY <1>1, <1>5, <2>2, Resolves
  <2> QED
    BY <1>8, <2>1, <2>3 DEF DialogAlone
<1>10. CASE ForceLocal(d)
  <2>1. DialogAlone(d, "target") /\ handler'[Dialog(d)].stage = "received"
        /\ resolution'[d] = [r EXCEPT !.stage = "forcing"]
    <3>1. \A req : Cloud!Received(req).stage = "received"
      BY DEF Cloud!Received
    <3> QED
      BY <1>1, <1>10, <3>1, ForceLocalDoes, ZenonT(60) DEF r
  <2>2. [r EXCEPT !.stage = "forcing"].card = r.card /\ [r EXCEPT !.stage = "forcing"].stage = "forcing"
    BY <1>1, <1>5, Resolves
  <2> QED
    BY <1>8, <2>1, <2>2 DEF DialogAlone
<1>11. CASE Forced(d)
  <2>1. DialogAlone(d, "forcing") /\ handler'[Dialog(d)].stage = "idle" /\ r.stage = "forcing"
        /\ h.stage = "replied" /\ h.status = 200 /\ resolution'[d] = Settle(r, h.result.version)
    BY <1>1, <1>11, ForcedDoes, IdleHandler DEF r, h, DialogAlone
  <2>2. /\ DialogRequest(r).op = "update" /\ DialogRequest(r).doc = r.doc
        /\ DialogRequest(r).payload = r.card.local
    BY <2>1 DEF DialogRequest
  <2>3. h.doc = r.doc /\ h.result = docs[r.doc] /\ docs[r.doc].payload = r.card.local
        /\ r.doc \in Known
    BY <1>5, <1>7, <2>1, <2>2 DEF Serves, ServedTrue
  <2> DEFINE v == h.result.version
             s == Settle(r, v)
  <2>4. v \in Nat /\ v = docs[r.doc].version
    BY <1>1, <2>3 DEF Doc
  <2> HIDE DEF v
  <2>5. s.card = r.card /\ s.doc = r.doc /\ s.version = v
    BY <1>1, <1>5, <2>4, Resolves
  <2>6. Snapshot(docs, s.doc, s.version, s.card.local)
    BY <2>3, <2>4, <2>5 DEF Snapshot
  <2>7. resolution'[d] = s
    BY <2>1 DEF v
  <2> HIDE DEF s
  <2> QED
    BY <1>8, <2>1, <2>5, <2>6, <2>7 DEF DialogAlone
<1>12. CASE FinishKeepLocal(d)
  <2> DEFINE entry == MarkEntry(r.doc, r.version, FALSE, NoPayload)
             marks == [l \in {r.card.row} |-> entry]
  <2>1. /\ SameCalls(d) /\ r.stage = "marking" /\ resolution'[d] = NoCall
        /\ conflicts'[d] = Without(conflicts[d], r.card.row)
        /\ rows'[d] = Marked(rows[d], marks)
    BY <1>1, <1>12, FinishKeepLocalDoes DEF r
  <2>2. DOMAIN marks = {r.card.row} /\ \A l \in DOMAIN marks : marks[l] = entry
    OBVIOUS
  <2>3. /\ entry.base <= docs[entry.cloudId].version /\ entry.resolved = NoPayload
        /\ Snapshot(docs, entry.cloudId, entry.base, rows[d][r.card.row].payload)
        /\ entry \in MarkOf(Known)
    <3>1. /\ entry.base = r.version /\ entry.cloudId = r.doc /\ entry.resolved = NoPayload
      BY DEF MarkEntry
    <3>2. Snapshot(docs, r.doc, r.version, rows[d][r.card.row].payload)
      BY <1>5, <1>6, <2>1 DEF CardTrue
    <3>3. r.doc \in Known /\ r.version \in Nat
      BY <1>1, <1>5, <2>1, ResolutionParts
    <3>4. entry \in MarkOf(Known)
      BY <3>3, MarkEntryOK
    <3> QED
      BY <3>1, <3>2, <3>4 DEF Snapshot
  <2> HIDE DEF entry, marks
  <2>4. \A l \in StoredIn(rows'[d]) : RowTrue(docs, rows'[d][l])
    BY <1>1, <1>6, <2>1, <2>2, <2>3, MarkedTrue
  <2>5. \A o \in Without(conflicts[d], r.card.row) : o \in conflicts[d] /\ CardTrue(rows'[d], o)
    BY <1>6, <2>1, <2>2, AnsweredCards
  <2>6. SeenTrue(docs, Known, NoPass, conflicts'[d], NoCall, rows'[d])
    BY <1>6, <2>1, <2>4, <2>5, SeenIdle
  <2>7. handler[Dialog(d)].stage = "idle"
    BY <1>1, <1>3, <2>1 DEF CallsOK, r, h
  <2>8. CallsTrue(docs, pass'[d], resolution'[d], handler'[Pusher(d)], handler'[Dialog(d)])
    BY <1>5, <2>1, <2>7 DEF CallsTrue, SameCalls
  <2> QED
    BY <1>2, <1>3, <1>4, <2>1, <2>6, <2>8, CloudAfter
<1>13. CASE KeepLocalRefused(d) \/ KeepLocalLost(d)
  <2>1. /\ SameStore(d) /\ conflicts'[d] = conflicts[d]
        /\ handler'[Pusher(d)] = handler[Pusher(d)] /\ resolution'[d] = NoCall
        /\ handler'[Dialog(d)] = Cloud!Idle \/ (r.stage = "marking" /\ handler'[Dialog(d)] = h)
    BY <1>1, <1>13, KeepLocalEnds DEF r, h
  <2>2. handler'[Dialog(d)].stage = "idle"
    BY <1>1, <1>3, <2>1, IdleHandler DEF CallsOK
  <2> QED
    BY <1>8, <2>1, <2>2
<1> QED
  BY <1>9, <1>10, <1>11, <1>12, <1>13 DEF DialogStep

\* An edited row still comes from its document, and is dirty now.
LEMMA EditedTrue ==
  ASSUME NEW D, NEW row \in RowType, RowTrue(D, row), NEW p \in Payload
  PROVE  /\ RowTrue(D, Local!NewRow(p))
         /\ DerivesFrom(p, row.payload) => RowTrue(D, Local!EditedRow(row, p))
         /\ RowTrue(D, Local!BuriedRow(row))
<1>1. RowTrue(D, Local!NewRow(p))
  BY DEF RowTrue, Local!NewRow, Local!Linked
<1>2. row.version \in Nat /\ row.base \in Nat /\ row.version >= row.base
  BY DEF RowTrue, RowType
<1>3. row.version + 1 >= row.base /\ row.version + 1 > row.base
  BY <1>2
<1>4. ASSUME DerivesFrom(p, row.payload) PROVE RowTrue(D, Local!EditedRow(row, p))
  <2> DEFINE new == Local!EditedRow(row, p)
  <2>1. /\ new.cloudId = row.cloudId /\ new.payload = p /\ new.version = row.version + 1
        /\ new.base = row.base /\ new.deleted = row.deleted
    BY DEF Local!EditedRow, RowType
  <2> HIDE DEF new
  <2>2. RowTrue(D, new)
    BY <1>3, <1>4, <2>1 DEF RowTrue, Local!Linked, Local!Dirty, DerivesFrom
  <2> QED
    BY <2>2 DEF new
<1>5. RowTrue(D, Local!BuriedRow(row))
  <2> DEFINE new == Local!BuriedRow(row)
  <2>1. /\ new.cloudId = row.cloudId /\ new.version = row.version + 1
        /\ new.base = row.base /\ new.deleted
    BY DEF Local!BuriedRow, RowType
  <2> HIDE DEF new
  <2>2. RowTrue(D, new)
    BY <1>3, <2>1 DEF RowTrue, Local!Linked
  <2> QED
    BY <2>2 DEF new
<1> QED
  BY <1>1, <1>4, <1>5

LEMMA UserSeen ==
  ASSUME OneAtATime, SyncTypeOK, LocalTrue, CloudTrue, NEW d \in Devices,
         UserCreates(d) \/ UserEdits(d) \/ UserDeletes(d)
  PROVE  CloudTrue'
<1>1. /\ Shape /\ StoreOK(rows[d], issued[d], Known)
      /\ SeenTrue(docs, Known, pass[d], conflicts[d], resolution[d], rows[d])
      /\ CallsTrue(docs, pass[d], resolution[d], handler[Pusher(d)], handler[Dialog(d)])
      /\ OnlyOneActs /\ PassTrue(pass[d], resolution[d], rows[d])
  BY DEF SyncTypeOK, CloudTrue, LocalTrue
<1>2. Quieted(d) \/ \A e \in Devices \ {d} : Quiet(e)
  BY <1>1, OneActs DEF DeviceStep, User
<1>3. /\ OthersStay(d) /\ SameCalls(d) /\ SameWindow(d)
      /\ pass[d] = NoPass /\ resolution[d] = NoCall /\ conflicts[d] = {}
  BY <1>1, UserActsDo DEF OneAtATime, MayAct, Quiet, At, PassTrue
<1>4. PICK l \in LocalIds :
        /\ \A k \in LocalIds \ {l} : rows'[d][k] = rows[d][k]
        /\ rows'[d] = [k \in LocalIds |-> rows'[d][k]]
        /\ \/ /\ l \notin issued[d] /\ issued'[d] = issued[d] \cup {l}
              /\ \E p \in Payload : rows'[d][l] = Local!NewRow(p)
           \/ /\ rows[d][l] # NoRow /\ ~rows[d][l].deleted /\ issued'[d] = issued[d]
              /\ \E p \in Payload : /\ rows'[d][l] = Local!EditedRow(rows[d][l], p)
                                    /\ DerivesFrom(p, rows[d][l].payload)
           \/ /\ rows[d][l] # NoRow /\ ~rows[d][l].deleted /\ issued'[d] = issued[d]
              /\ rows'[d][l] = IF Local!Linked(rows[d][l])
                                 THEN Local!BuriedRow(rows[d][l]) ELSE NoRow
  BY UserActsDo
<1>5. \A k \in StoredIn(rows[d]) : RowTrue(docs, rows[d][k]) /\ rows[d][k] \in RowType
  BY <1>1, SameData DEF SeenTrue, StoreOK, StoredIn
<1>6. rows'[d][l] = NoRow \/ RowTrue(docs, rows'[d][l])
  <2>1. CASE rows[d][l] # NoRow
    <3>1. rows[d][l] \in RowType /\ RowTrue(docs, rows[d][l]) /\ l \in issued[d]
      BY <1>1, <1>5, <2>1 DEF StoredIn, StoreOK
    <3>2. CASE \E p \in Payload : /\ rows'[d][l] = Local!EditedRow(rows[d][l], p)
                                  /\ DerivesFrom(p, rows[d][l].payload)
      BY <3>1, <3>2, EditedTrue
    <3>3. CASE rows'[d][l] = Local!BuriedRow(rows[d][l])
      <4>1. PICK p : p \in Payload
        BY <3>1 DEF RowType
      <4> QED
        BY <3>1, <3>3, <4>1, EditedTrue
    <3> QED
      BY <1>4, <3>1, <3>2, <3>3
  <2>2. CASE rows[d][l] = NoRow
    <3>1. PICK p \in Payload : rows'[d][l] = Local!NewRow(p)
      BY <1>4, <2>2
    <3> QED
      BY <3>1 DEF RowTrue, Local!NewRow, Local!Linked
  <2> QED
    BY <2>1, <2>2
<1>7. \A k \in StoredIn(rows'[d]) : RowTrue(docs, rows'[d][k])
  BY <1>4, <1>5, <1>6 DEF StoredIn
<1>8. SeenTrue(docs, Known, NoPass, conflicts'[d], resolution'[d], rows'[d])
  BY <1>3, <1>7, SeenIdle DEF SameWindow
<1>9. CallsTrue(docs, pass'[d], resolution'[d], handler'[Pusher(d)], handler'[Dialog(d)])
  BY <1>1, <1>3 DEF SameWindow, SameCalls
<1> QED
  BY <1>2, <1>3, <1>8, <1>9, CloudAfter DEF SameWindow

\* The documents that are known only move on.
LEMMA Evolved ==
  ASSUME NEW known \in SUBSET DocIds, NEW D, NEW E,
         \A i \in known : /\ D[i].version \in Nat /\ E[i].version \in Nat
                          /\ E[i] = D[i] \/ E[i].version > D[i].version
  PROVE  /\ \A i \in known, v \in Nat : \A p : Snapshot(D, i, v, p) => Snapshot(E, i, v, p)
         /\ \A row \in RowType : RowTrue(D, row) /\ (Local!Linked(row) => row.cloudId \in known)
                                   => RowTrue(E, row)
         /\ \A m \in MarkOf(known) : MarkTrue(D, m) => MarkTrue(E, m)
         /\ \A k \in CardOf(known) : CardShown(D, k) => CardShown(E, k)
<1>1. \A i \in known, v \in Nat :
        v <= D[i].version => v <= E[i].version /\ (v = E[i].version => E[i] = D[i])
  OBVIOUS
<1>2. \A i \in known, v \in Nat : \A p : Snapshot(D, i, v, p) => Snapshot(E, i, v, p)
  BY <1>1 DEF Snapshot
<1>3. ASSUME NEW row \in RowType, RowTrue(D, row), Local!Linked(row) => row.cloudId \in known
      PROVE  RowTrue(E, row)
  <2>1. CASE ~Local!Linked(row)
    BY <1>3, <2>1 DEF RowTrue
  <2>2. CASE Local!Linked(row)
    <3>1. row.cloudId \in known /\ row.base \in Nat /\ row.base <= D[row.cloudId].version
      BY <1>3, <2>2 DEF RowTrue, RowType
    <3>2. /\ row.base <= E[row.cloudId].version
          /\ row.base = E[row.cloudId].version => E[row.cloudId] = D[row.cloudId]
      BY <1>1, <3>1
    <3> QED
      BY <1>3, <2>2, <3>2 DEF RowTrue
  <2> QED
    BY <2>1, <2>2
<1>4. \A m \in MarkOf(known) : MarkTrue(D, m) => MarkTrue(E, m)
  BY <1>1, <1>2 DEF MarkTrue, MarkOf
<1>5. \A k \in CardOf(known) : CardShown(D, k) => CardShown(E, k)
  BY <1>2 DEF CardShown, CardOf, Doc
<1> QED
  BY <1>2, <1>3, <1>4, <1>5

\* A handler at work is the only one, and its device's pass does not read.
LEMMA CloudSeen ==
  ASSUME OneAtATime, SyncTypeOK, LocalTrue, CloudTrue, CloudStep
  PROVE  CloudTrue'
<1>1. /\ Shape /\ Known \in SUBSET DocIds /\ \A i \in Known : docs[i] \in Doc
      /\ docs \in [DocIds -> Doc \cup {NoDoc}] /\ NoDoc \notin Doc
  BY KnownAre, SentinelAssumption DEF SyncTypeOK
<1>2. /\ SyncTypeOK' /\ Known \subseteq Known'
      /\ \A e \in Devices : SameStore(e) /\ SameWindow(e)
  BY <1>1, CloudTypes, CloudStepDoes
<1>3. PICK d \in Devices :
        /\ \A e \in Devices \ {d} : SameCalls(e)
        /\ \/ /\ handler[Pusher(d)].stage # "idle" /\ handler'[Pusher(d)].stage # "idle"
              /\ handler'[Dialog(d)] = handler[Dialog(d)]
              /\ Moves(Pusher(d), handler[Pusher(d)], pass[d].current.request)
           \/ /\ handler[Dialog(d)].stage # "idle" /\ handler'[Dialog(d)].stage # "idle"
              /\ handler'[Pusher(d)] = handler[Pusher(d)]
              /\ Moves(Dialog(d), handler[Dialog(d)], DialogRequest(resolution[d]))
  BY CloudTypes
<1>4. \A e \in Devices :
        /\ PassTrue(pass[e], resolution[e], rows[e])
        /\ SeenTrue(docs, Known, pass[e], conflicts[e], resolution[e], rows[e])
        /\ CallsTrue(docs, pass[e], resolution[e], handler[Pusher(e)], handler[Dialog(e)])
        /\ WindowOK(pass[e], conflicts[e], resolution[e],
                    handler[Pusher(e)], handler[Dialog(e)], Known)
        /\ StoreOK(rows[e], issued[e], Known)
  BY DEF SyncTypeOK, LocalTrue, CloudTrue
<1>5. ~Quiet(d) /\ pass[d].pc # "reading"
      /\ (handler[Pusher(d)].stage = "idle" \/ handler[Dialog(d)].stage = "idle")
  <2>1. CASE handler[Pusher(d)].stage # "idle"
    <3>1. pass[d].pc = "calling"
      BY <1>4, <2>1 DEF WindowOK, CallsOK
    <3>2. resolution[d] = NoCall
      BY <1>4, <3>1 DEF PassTrue
    <3> QED
      BY <1>4, <3>1, <3>2 DEF Quiet, At, WindowOK, CallsOK
  <2>2. CASE handler[Dialog(d)].stage # "idle"
    <3>1. resolution[d] # NoCall
      BY <1>4, <2>2 DEF WindowOK, CallsOK
    <3>2. pass[d].pc = "idle"
      BY <1>4, <3>1 DEF PassTrue
    <3> QED
      BY <1>4, <3>1, <3>2 DEF Quiet, At, WindowOK, CallsOK
  <2> QED
    BY <1>3, <2>1, <2>2
<1>6. \A e \in Devices : pass[e].pc # "reading"
  BY <1>5 DEF CloudTrue, OnlyOneActs, Quiet, At
<1>7. PICK c \in {Pusher(d), Dialog(d)}, req \in Cloud!Request :
        /\ req = IF c = Pusher(d) THEN pass[d].current.request ELSE DialogRequest(resolution[d])
        /\ handler[c].stage # "idle" /\ handler'[c].stage # "idle"
        /\ Moves(c, handler[c], req) /\ ServedTrue(docs, handler[c], req)
        /\ Serves(handler[c], req, Known)
        /\ req.op # "create" => req.doc \in Known
        /\ handler[c] \in Cloud!Handler
        /\ \A o \in {Pusher(d), Dialog(d)} \ {c} : handler'[o] = handler[o] /\ handler[o].stage = "idle"
  <2>1. CASE /\ handler[Pusher(d)].stage # "idle" /\ handler'[Pusher(d)].stage # "idle"
             /\ handler'[Dialog(d)] = handler[Dialog(d)]
             /\ Moves(Pusher(d), handler[Pusher(d)], pass[d].current.request)
    <3>1. /\ pass[d].current \in PushCall(Known)
          /\ Serves(handler[Pusher(d)], pass[d].current.request, Known)
          /\ handler[Pusher(d)] \in Cloud!Handler
          /\ ServedTrue(docs, handler[Pusher(d)], pass[d].current.request)
      BY <1>4, <2>1 DEF WindowOK, CallsOK, CallsTrue
    <3>2. /\ pass[d].current.request \in Cloud!Request
          /\ pass[d].current.request.op # "create" => pass[d].current.request.doc \in Known
      BY <3>1, PushParts
    <3> QED
      BY <1>5, <2>1, <3>1, <3>2
  <2>2. CASE /\ handler[Dialog(d)].stage # "idle" /\ handler'[Dialog(d)].stage # "idle"
             /\ handler'[Pusher(d)] = handler[Pusher(d)]
             /\ Moves(Dialog(d), handler[Dialog(d)], DialogRequest(resolution[d]))
    <3>1. /\ resolution[d] \in Resolution(Known)
          /\ resolution[d].stage # "recreating" => resolution[d].doc \in Known
          /\ Serves(handler[Dialog(d)], DialogRequest(resolution[d]), Known)
          /\ handler[Dialog(d)] \in Cloud!Handler
          /\ ServedTrue(docs, handler[Dialog(d)], DialogRequest(resolution[d]))
      BY <1>4, <2>2 DEF WindowOK, CallsOK, CallsTrue
    <3>2. /\ DialogRequest(resolution[d]) \in Cloud!Request
          /\ DialogRequest(resolution[d]).op # "create" => DialogRequest(resolution[d]).doc \in Known
      BY <1>1, <3>1, ResolutionParts DEF DialogRequest
    <3> QED
      BY <1>5, <2>2, <3>1, <3>2, ClientsDiffer
  <2> QED
    BY <1>3, <2>1, <2>2
<1>8. \A i \in Known : /\ docs[i].version \in Nat /\ docs'[i].version \in Nat
                       /\ docs'[i] = docs[i] \/ docs'[i].version > docs[i].version
  <2>1. \A i \in Known : docs[i].version \in Nat
    BY <1>1 DEF Doc
  <2>2. CASE handler[c].stage = "received"
    BY <1>7, <2>1, <2>2 DEF Moves
  <2>3. CASE handler[c].stage = "staged" /\ req.op = "create"
    BY <1>1, <1>7, <2>1, <2>3, SMTT(30) DEF Moves
  <2>4. CASE handler[c].stage = "staged" /\ req.op # "create"
    <3>1. /\ handler[c].read = docs[req.doc].version /\ docs[req.doc] \in Doc
          /\ req.doc \in Known /\ handler[c].read \in Nat
          /\ req.op = "update" => req.payload \in Payload
      BY <1>1, <1>7, <2>1, <2>4, RequestParts DEF ServedTrue
    <3>2. PICK new \in Doc : /\ docs' = [docs EXCEPT ![req.doc] = new]
                             /\ new.version = handler[c].read + 1
      <4>1. CASE req.op = "update"
        <5> DEFINE new == Cloud!UpdatedDoc(docs[req.doc], handler[c].read, req.payload)
        <5>1. new \in Doc /\ new.version = handler[c].read + 1
          <6>1. /\ docs[req.doc] \in Doc /\ handler[c].read \in Nat
                /\ req.payload \in Payload
            BY <3>1, <4>1
          <6> HIDE DEF new
          <6>2. new = Cloud!UpdatedDoc(docs[req.doc], handler[c].read, req.payload)
            BY DEF new
          <6> QED
            BY <6>1, <6>2, UpdatedDocs, ZenonT(30)
        <5>2. docs' = [docs EXCEPT ![req.doc] = new]
          BY <1>7, <2>4, <4>1 DEF Moves
        <5> QED
          BY <5>1, <5>2
      <4>2. CASE req.op = "delete"
        <5> DEFINE new == Cloud!BuriedDoc(docs[req.doc], handler[c].read)
        <5>1. new \in Doc /\ new.version = handler[c].read + 1
          <6>1. docs[req.doc] \in Doc /\ handler[c].read \in Nat
            BY <3>1
          <6> QED
            BY <6>1, BuriedDocs
        <5>2. docs' = [docs EXCEPT ![req.doc] = new]
          BY <1>7, <2>4, <4>2 DEF Moves
        <5> QED
          BY <5>1, <5>2
      <4> QED
        BY <1>7, <2>4, <4>1, <4>2, RequestParts
    <3> QED
      BY <1>1, <2>1, <3>1, <3>2
  <2> QED
    BY <1>7, <2>2, <2>3, <2>4 DEF Moves
<1>9. ASSUME NEW e \in Devices
      PROVE  SeenTrue(docs', Known', pass[e], conflicts[e], resolution[e], rows[e])
  <2> DEFINE p == pass[e]
             r == resolution[e]
  <2>1. /\ PassTyped(p, Known) /\ conflicts[e] \subseteq CardOf(Known)
        /\ r \in Resolution(Known) \cup {NoCall}
        /\ p.pc \in {"calling", "marking"} => p.current \in PushCall(Known)
        /\ p.pc = "marking" => p.mark \in MarkOf(Known)
        /\ r # NoCall /\ r.stage # "recreating" => r.doc \in Known
        /\ SeenTrue(docs, Known, p, conflicts[e], r, rows[e])
    BY <1>4 DEF WindowOK, CallsOK
  <2>2. /\ \A i \in Known, v \in Nat : \A q : Snapshot(docs, i, v, q) => Snapshot(docs', i, v, q)
        /\ \A row \in RowType : RowTrue(docs, row) /\ (Local!Linked(row) => row.cloudId \in Known)
                                  => RowTrue(docs', row)
        /\ \A m \in MarkOf(Known) : MarkTrue(docs, m) => MarkTrue(docs', m)
        /\ \A k \in CardOf(Known) : CardShown(docs, k) => CardShown(docs', k)
    BY <1>1, <1>8, Evolved
  <2>3. \A l \in StoredIn(rows[e]) : RowTrue(docs', rows[e][l])
    <3> SUFFICES ASSUME NEW l \in StoredIn(rows[e]) PROVE RowTrue(docs', rows[e][l])
      OBVIOUS
    <3>1. /\ rows[e][l] \in RowType /\ RowTrue(docs, rows[e][l])
          /\ Local!Linked(rows[e][l]) => rows[e][l].cloudId \in Known
      BY <1>4, <2>1, SameData DEF StoreOK, StoredIn, SeenTrue, Local!Linked
    <3> QED
      BY <2>2, <3>1
  <2>4. /\ \A x \in p.pulls : Snapshot(docs', x.cloudId, x.version, x.payload)
        /\ \A l \in DOMAIN p.marks : MarkTrue(docs', p.marks[l])
        /\ \A k \in p.found : CardShown(docs', k)
    <3>1. /\ \A x \in p.pulls : x \in PullOf(Known) /\ x.cloudId \in Known /\ x.version \in Nat
          /\ \A l \in DOMAIN p.marks : p.marks[l] \in MarkOf(Known)
          /\ \A k \in p.found : k \in CardOf(Known)
      BY <2>1 DEF PassTyped, Partial, PullOf
    <3> QED
      BY <2>1, <2>2, <3>1 DEF SeenTrue
  <2>5. \A q \in p.pushes \cup UnderWay(p) : \A k \in q.collision : CardShown(docs', k)
    <3>1. \A q \in p.pushes \cup UnderWay(p) : q.collision \subseteq CardOf(Known)
      <4>1. p.pushes \cup UnderWay(p) \subseteq PushCall(Known)
        BY <2>1 DEF PassTyped, UnderWay
      <4> QED
        BY <4>1, PushParts
    <3> QED
      BY <2>1, <2>2, <3>1 DEF SeenTrue
  <2>6. p.pc = "idle" => \A k \in conflicts[e] : CardShown(docs', k) /\ CardTrue(rows[e], k)
    BY <2>1, <2>2 DEF SeenTrue
  <2>7. p.pc = "marking" =>
          /\ p.mark.base <= docs'[p.mark.cloudId].version
          /\ ~p.mark.deleted => Snapshot(docs', p.mark.cloudId, p.mark.base, rows[e][p.current.row].payload)
    <3> SUFFICES ASSUME p.pc = "marking"
                 PROVE  /\ p.mark.base <= docs'[p.mark.cloudId].version
                        /\ ~p.mark.deleted =>
                             Snapshot(docs', p.mark.cloudId, p.mark.base, rows[e][p.current.row].payload)
      OBVIOUS
    <3>1. p.mark.cloudId \in Known /\ p.mark.base \in Nat
      BY <2>1 DEF MarkOf
    <3>2. /\ p.mark.base <= docs[p.mark.cloudId].version
          /\ ~p.mark.deleted =>
               Snapshot(docs, p.mark.cloudId, p.mark.base, rows[e][p.current.row].payload)
      BY <2>1 DEF SeenTrue
    <3>3. p.mark.base <= docs'[p.mark.cloudId].version
      BY <1>8, <3>1, <3>2
    <3> QED
      BY <2>2, <3>1, <3>2, <3>3
  <2>8. /\ r # NoCall => r.card \in conflicts[e]
        /\ r # NoCall /\ r.stage = "marking" => Snapshot(docs', r.doc, r.version, r.card.local)
    <3>1. r # NoCall /\ r.stage = "marking" => r.doc \in Known /\ r.version \in Nat
      BY <1>1, <2>1, ResolutionParts
    <3> QED
      BY <2>1, <2>2, <3>1 DEF SeenTrue
  <2> QED
    BY <1>6, <2>3, <2>4, <2>5, <2>6, <2>7, <2>8 DEF SeenTrue
<1>10. ServedTrue(docs', handler'[c], req)
  <2>1. CASE handler[c].stage = "received" /\ ~(req.op # "create" /\ req.doc \notin Known)
    <3>1. docs' = docs
      BY <1>7, <2>1 DEF Moves
    <3>2. \/ req.op = "update" /\ handler'[c] = Cloud!Replied(409, req.doc, docs[req.doc])
          \/ handler'[c] = Cloud!Replied(400, NoDoc, NoDoc)
          \/ /\ req.op = "update" => req.force \/ docs[req.doc].version = req.expected
             /\ req.op = "create" => handler'[c] = Cloud!Staged(req, 0)
             /\ req.op # "create" => handler'[c] = Cloud!Staged(req, docs[req.doc].version)
      BY <1>7, <2>1 DEF Moves
    <3> QED
      BY <3>1, <3>2 DEF ServedTrue, Cloud!Replied, Cloud!Staged
  <2>2. CASE handler[c].stage = "staged"
    <3>1. PICK i \in DocIds, new \in Doc :
            /\ docs' = [docs EXCEPT ![i] = new] /\ handler'[c] = Cloud!Replied(200, i, new)
            /\ req.op # "create" => i = req.doc
            /\ req.op # "delete" => new.payload = req.payload
      <4>1. CASE req.op = "create"
        <5>1. \A q \in Payload : Cloud!CreatedDoc(q) \in Doc /\ Cloud!CreatedDoc(q).payload = q
          BY CreatedDocs DEF Cloud!CreatedDoc, OneAtATime
        <5>2. req.payload \in Payload
          BY <1>7, <4>1, RequestParts
        <5>3. PICK i \in DocIds \ Known :
                /\ docs' = [docs EXCEPT ![i] = Cloud!CreatedDoc(req.payload)]
                /\ handler'[c] = Cloud!Replied(200, i, Cloud!CreatedDoc(req.payload))
          BY <1>7, <2>2, <4>1 DEF Moves
        <5> QED
          BY <4>1, <5>1, <5>2, <5>3
      <4>2. CASE req.op # "create"
        <5>1. /\ docs[req.doc] \in Doc /\ req.doc \in DocIds
              /\ handler[c].read \in Nat
              /\ req.op = "update" => req.payload \in Payload
          BY <1>1, <1>7, <2>2, <4>2, RequestParts, HandlerParts
        <5>2. CASE req.op = "update"
          <6> DEFINE new == Cloud!UpdatedDoc(docs[req.doc], handler[c].read, req.payload)
          <6>1. new \in Doc /\ new.payload = req.payload
            BY <5>1, <5>2, UpdatedDocs
          <6>2. docs' = [docs EXCEPT ![req.doc] = new]
                /\ handler'[c] = Cloud!Replied(200, req.doc, new)
            BY <1>7, <2>2, <5>2 DEF Moves
          <6> QED
            BY <5>1, <6>1, <6>2
        <5>3. CASE req.op = "delete"
          <6> DEFINE new == Cloud!BuriedDoc(docs[req.doc], handler[c].read)
          <6>1. new \in Doc
            BY <5>1, BuriedDocs
          <6>2. docs' = [docs EXCEPT ![req.doc] = new]
                /\ handler'[c] = Cloud!Replied(200, req.doc, new)
            BY <1>7, <2>2, <5>3 DEF Moves
          <6> QED
            BY <5>1, <5>3, <6>1, <6>2
        <5> QED
          BY <1>7, <4>2, <5>2, <5>3, RequestParts
      <4> QED
        BY <4>1, <4>2
    <3>2. docs'[i] = new
      BY <1>1, <3>1
    <3> QED
      BY <3>1, <3>2 DEF ServedTrue, Cloud!Replied
  <2> QED
    BY <1>7, <2>1, <2>2 DEF Moves
<1>11. ASSUME NEW e \in Devices
       PROVE  CallsTrue(docs', pass[e], resolution[e], handler'[Pusher(e)], handler'[Dialog(e)])
  <2>1. CASE e = d
    BY <1>7, <1>10, <2>1, ClientsDiffer DEF CallsTrue
  <2>2. CASE e # d
    <3>1. Quiet(e) /\ SameCalls(e)
      BY <1>3, <1>5, <2>2 DEF CloudTrue, OnlyOneActs
    <3>2. handler[Pusher(e)].stage = "idle" /\ handler[Dialog(e)].stage = "idle"
      BY <1>4, <3>1 DEF WindowOK, CallsOK, Quiet, At
    <3> QED
      BY <3>1, <3>2 DEF CallsTrue, SameCalls
  <2> QED
    BY <2>1, <2>2
<1>12. OnlyOneActs'
  BY <1>2 DEF CloudTrue, OnlyOneActs, Quiet, At, SameWindow
<1> QED
  BY <1>2, <1>9, <1>11, <1>12 DEF CloudTrue, SameStore, SameWindow

LEMMA CloudSteps ==
  ASSUME OneAtATime
  PROVE  SyncTypeOK /\ LocalTrue /\ CloudTrue /\ [Next]_vars => CloudTrue'
<1> SUFFICES ASSUME SyncTypeOK, LocalTrue, CloudTrue, [Next]_vars PROVE CloudTrue'
  OBVIOUS
<1>1. CASE UNCHANGED vars
  BY <1>1 DEF vars, localVars, cloudVars, CloudTrue, OnlyOneActs, Quiet, At, Known, Cloud!Exists
<1>2. ASSUME NEW d \in Devices, DeviceStep(d) PROVE CloudTrue'
  <2>1. CASE StartPass(d) \/ Read(d) \/ ReadFails(d)
    BY <2>1, ReadSeen
  <2>2. CASE Decide(d) \/ Push(d)
    BY <2>2, DecideSeen, PushSeen
  <2>3. CASE PushAccepted(d) \/ PushConflicts(d) \/ PushCollides(d) \/ PushLost(d)
    BY <2>3, AnswerSeen
  <2>4. CASE Confirm(d) \/ ConfirmLost(d)
    BY <2>4, ConfirmSeen
  <2>5. CASE PullNew(d) \/ MarkPulled(d) \/ PullLost(d)
    BY <2>5, PullSeen
  <2>6. CASE EndPass(d) \/ WindowCloses(d)
    BY <2>6, EndSeen
  <2>7. CASE DialogStep(d) \/ KeepLocalLost(d)
    BY <2>7, ResolveSeen
  <2>8. CASE User(d)
    BY <2>8, KeepCloudSeen, KeepLocalSeen, UserSeen DEF User
  <2> QED
    BY <1>2, <2>1, <2>2, <2>3, <2>4, <2>5, <2>6, <2>7, <2>8 DEF DeviceStep, PassStep, Fault
<1>3. CASE CloudStep
  BY <1>3, CloudSeen
<1> QED
  BY <1>1, <1>2, <1>3 DEF Next, DeviceStep

LEMMA CloudStarts == Init => CloudTrue
<1> SUFFICES ASSUME Init PROVE CloudTrue
  OBVIOUS
<1>1. \A d \in Devices :
        /\ pass[d] = NoPass /\ conflicts[d] = {} /\ resolution[d] = NoCall
        /\ handler[Pusher(d)].stage = "idle" /\ handler[Dialog(d)].stage = "idle"
        /\ StoredIn(rows[d]) = {}
  BY ClientsDiffer, IdleHandler DEF Init, Cloud!CloudInit, Local!LocalInit, StoredIn
<1>2. \A d \in Devices :
        SeenTrue(docs, Known, pass[d], conflicts[d], resolution[d], rows[d])
  BY <1>1, SeenIdle
<1> QED
  BY <1>1, <1>2, NoPassTyped DEF CloudTrue, OnlyOneActs, Quiet, At, CallsTrue

\* The inductive invariant of sync with one device at a time.
LEMMA CloudTrueHolds ==
  ASSUME OneAtATime
  PROVE  Spec => [](SyncTypeOK /\ LocalTrue /\ CloudTrue)
<1>1. ~EditDuringPass
  BY DEF OneAtATime
<1>2. SyncTypeOK /\ LocalTrue /\ [Next]_vars => LocalTrue'
  BY <1>1, LocalSteps
<1>3. SyncTypeOK /\ LocalTrue /\ CloudTrue /\ [Next]_vars => CloudTrue'
  BY CloudSteps
<1> QED
  BY <1>2, <1>3, SyncTypeCorrect, LocalStarts, CloudStarts, PTL DEF Spec

\* A clean row never differs from the document it was synced with, whatever
\* calls are lost and windows closed, as long as one device acts at a time.
THEOREM CleanRowsAreSynced ==
  ASSUME OneAtATime
  PROVE  Spec => []CleanMeansSynced
<1>1. CloudTrue => CleanMeansSynced
  BY DEF CloudTrue, SeenTrue, RowTrue, CleanMeansSynced, CleanRows, Row, DocOf, StoredIn,
         Local!Stored
<1> QED
  BY <1>1, CloudTrueHolds, PTL

\* Every update the cloud accepts without force comes from the content it
\* replaces: nobody's edit is overwritten unseen.
THEOREM OnlySupersededIsReplaced ==
  ASSUME OneAtATime
  PROVE  Spec => PushesOnlySuperseded
<1> DEFINE Seen == \A c \in Clients :
      /\ Cloud!Pending(c, "update") /\ ~handler[c].req.force
      /\ handler'[c].stage = "replied"
      => DerivesFrom(handler[c].req.payload, docs[handler[c].req.doc].payload)
<1>1. SyncTypeOK /\ LocalTrue /\ CloudTrue => [Seen]_vars
  <2> SUFFICES ASSUME SyncTypeOK, LocalTrue, CloudTrue, NEW c \in Clients,
                      handler[c].stage = "staged", handler[c].req.op = "update",
                      ~handler[c].req.force
               PROVE  DerivesFrom(handler[c].req.payload, docs[handler[c].req.doc].payload)
    BY DEF Cloud!Pending
  <2>1. PICK d \in Devices : c = Pusher(d) \/ c = Dialog(d)
    BY ClientsDiffer
  <2>2. /\ WindowOK(pass[d], conflicts[d], resolution[d],
                    handler[Pusher(d)], handler[Dialog(d)], Known)
        /\ PassTrue(pass[d], resolution[d], rows[d])
        /\ SeenTrue(docs, Known, pass[d], conflicts[d], resolution[d], rows[d])
        /\ CallsTrue(docs, pass[d], resolution[d], handler[Pusher(d)], handler[Dialog(d)])
    BY DEF SyncTypeOK, LocalTrue, CloudTrue
  <2>3. c = Pusher(d)
    <3> SUFFICES ASSUME c = Dialog(d) PROVE FALSE
      BY <2>1
    <3>1. handler[Dialog(d)].req = DialogRequest(resolution[d])
      BY <2>2 DEF WindowOK, CallsOK, Serves
    <3> QED
      BY <3>1 DEF DialogRequest
  <2> DEFINE q == pass[d].current
  <2>4. /\ handler[c].req = q.request /\ pass[d].pc = "calling" /\ q \in PushCall(Known)
        /\ ServedTrue(docs, handler[c], q.request)
    BY <2>2, <2>3 DEF WindowOK, CallsOK, Serves, CallsTrue
  <2>5. PushTrue(rows[d], q)
    BY <2>2, <2>4 DEF PassTrue, UnderWay
  <2>6. /\ q.row \in StoredIn(rows[d]) /\ ~rows[d][q.row].deleted
        /\ Local!Linked(rows[d][q.row]) /\ q.request.doc = rows[d][q.row].cloudId
        /\ q.request.expected = rows[d][q.row].base
        /\ q.request.payload = rows[d][q.row].payload
    <3>1. q.request.payload = q.local
      BY <2>4, PushParts
    <3> QED
      BY <2>4, <2>5, <3>1 DEF PushTrue, ToPush
  <2>7. q.request.expected = docs[q.request.doc].version
    BY <2>4 DEF ServedTrue
  <2>8. RowTrue(docs, rows[d][q.row])
    BY <2>2, <2>6 DEF SeenTrue
  <2> QED
    BY <2>4, <2>6, <2>7, <2>8 DEF RowTrue
<1> QED
  BY <1>1, CloudTrueHolds, PTL DEF PushesOnlySuperseded

-----------------------------------------------------------------------------
(* A pass forgets no dirty row. *)

LEMMA IdleForgetsNothing == \A rs : NoneForgotten(NoPass, rs)
BY DEF NoneForgotten, NoPass

\* Once its call is over a pass still remembers the rows, but for the one the
\* call was about if that is in sync now, or on a card.
LEMMA NextRemembers ==
  ASSUME NEW D, NEW p, NEW rs, NEW rt, NEW found, PassTyped(p, D),
         p.pc \in {"calling", "marking"}, NoneForgotten(p, rs), p.found \subseteq found,
         \A l \in LocalIds \ {p.current.row} : rt[l] = rs[l],
         \/ \E k \in found : k.row = p.current.row
         \/ ~Local!Linked(rt[p.current.row])
         \/ ~Local!Dirty(rt[p.current.row])
  PROVE  NoneForgotten(NextPush(p, found), rt)
<1> DEFINE n == NextPush(p, found)
<1>1. n.pc = "pushing" /\ n.pushes = p.pushes /\ n.found = found
  BY DEF NextPush, PassTyped, NoPass
<1> HIDE DEF n
<1>2. ASSUME NEW l \in StoredIn(rt), Local!Linked(rt[l]), Local!Dirty(rt[l])
      PROVE  Kept(n, rt, l)
  <2>1. CASE l = p.current.row
    BY <1>1, <1>2, <2>1 DEF Kept
  <2>2. CASE l # p.current.row
    <3>1. l \in StoredIn(rs) /\ rt[l] = rs[l]
      BY <2>2 DEF StoredIn
    <3>2. Kept(p, rs, l)
      BY <1>2, <3>1 DEF NoneForgotten
    <3> QED
      BY <1>1, <2>2, <3>2 DEF Kept, UnderWay
  <2> QED
    BY <2>1, <2>2
<1>3. NoneForgotten(n, rt)
  BY <1>1, <1>2 DEF NoneForgotten
<1> QED
  BY <1>3 DEF n

\* Every dirty row whose document the cloud knows is pushed.
LEMMA DecidedRemembers ==
  ASSUME NEW p, NEW rs, p.pc = "reading", NoneForgotten(p, rs), PassTrue(p, NoCall, rs),
         NotRead \notin {p.localState, p.localList, p.cloudState, p.cloudList}, NEW f
  PROVE  NoneForgotten(Decided(p, f), rs)
<1> DEFINE ls == p.localState
           ll == p.localList
           cs == p.cloudState
           cl == p.cloudList
           n  == Decided(p, f)
<1>1. ls = StateOf(rs) /\ ll = ListOf(rs)
  BY DEF PassTrue
<1>2. n.pc = "pushing" /\ n.pushes = Pushes(ls, ll, cs, cl)
  BY DEF Decided, NoPass
<1> HIDE DEF n
<1>3. ASSUME NEW l \in StoredIn(rs), Local!Linked(rs[l]), Local!Dirty(rs[l])
      PROVE  \E q \in n.pushes : q.row = l
  <2>1. rs[l].cloudId \in DOMAIN cs
    BY <1>3 DEF NoneForgotten
  <2>2. /\ l \in DOMAIN ls /\ ls[l].cloudId = rs[l].cloudId /\ ls[l].dirty
        /\ ls[l].deleted = rs[l].deleted
        /\ ~rs[l].deleted => l \in DOMAIN ll
    BY <1>1, <1>3 DEF StateOf, ListOf
  <2> HIDE DEF ls, ll, cs, cl
  <2>3. l \in DirtyKnown(ls, cs)
    BY <2>1, <2>2 DEF DirtyKnown
  <2>4. CASE rs[l].deleted
    <3> DEFINE q == PushOf(l, NoPayload, [op |-> "delete", doc |-> ls[l].cloudId], {})
    <3>1. q \in Deletes(ls, cs) /\ q.row = l
      BY <2>2, <2>3, <2>4 DEF Deletes, PushOf
    <3> QED
      BY <1>2, <3>1 DEF Pushes
  <2>5. CASE ~rs[l].deleted
    <3> DEFINE q == PushOf(l, ll[l], [op |-> "update", doc |-> ls[l].cloudId, payload |-> ll[l],
                                      expected |-> ls[l].base, force |-> FALSE], {})
    <3>1. q \in Updates(ls, ll, cs) /\ q.row = l
      BY <2>2, <2>3, <2>5 DEF Updates, PushOf
    <3> QED
      BY <1>2, <3>1 DEF Pushes
  <2> QED
    BY <2>4, <2>5
<1>4. NoneForgotten(n, rs)
  BY <1>2, <1>3 DEF NoneForgotten, Kept
<1> QED
  BY <1>4 DEF n

\* mark-synced leaves the rows it writes clean, and the others alone.
LEMMA MarkedClean ==
  ASSUME NEW D \in SUBSET DocIds, NEW rs, NEW marks, NEW l \in LocalIds
  PROVE  /\ Marked(rs, marks)[l] = rs[l]
            \/ (l \in DOMAIN marks /\ Marked(rs, marks)[l] = Local!SyncedRow(rs[l], marks[l]))
         /\ l \in DOMAIN marks /\ l \in StoredIn(rs) /\ marks[l] \in MarkOf(D) =>
              ~Local!Dirty(Marked(rs, marks)[l])
BY DEF Marked, Local!SyncedRow, Local!Dirty, MarkOf

\* Nothing is lost.
NoFaults == MaxFaults = 0 /\ ~EditDuringPass

LEMMA PassRemembers ==
  ASSUME ~EditDuringPass, SyncTypeOK, LocalTrue, AllRemembered,
         NEW d \in Devices, DeviceStep(d), ~Fault(d)
  PROVE  NoneForgotten(pass'[d], rows'[d])
<1> DEFINE p == pass[d]
           n == pass'[d]
           rs == rows[d]
           rt == rows'[d]
           c == pass[d].current
<1> SUFFICES NoneForgotten(n, rt)
  OBVIOUS
<1>1. /\ Shape /\ PassTyped(p, Known) /\ PassTrue(p, resolution[d], rs) /\ NoneForgotten(p, rs)
      /\ StoreOK(rs, issued[d], Known) /\ Known \in SUBSET DocIds
      /\ CallsOK(p, resolution[d], handler[Pusher(d)], handler[Dialog(d)], Known)
  BY KnownAre DEF SyncTypeOK, WindowOK, LocalTrue, AllRemembered
<1>2. CASE StartPass(d)
  <2>1. p.pc = "idle"
    BY <1>2 DEF StartPass, At
  <2>2. n = [NoPass EXCEPT !.pc = "reading"]
    BY <1>1, <1>2, <2>1, StartPassDoes DEF PassTrue
  <2> QED
    BY <2>2 DEF NoneForgotten, NoPass
<1>3. CASE Read(d)
  <2>1. p.pc = "reading" /\ rt = rs
    BY <1>1, <1>3, ReadDoes DEF PassAlone, SameStore
  <2>2. n.pc = "reading" /\ n.cloudState \in {p.cloudState, StateOfDocs(docs, Known)}
    <3>1. CASE n = [p EXCEPT !.localState = StateOf(rs)]
      BY <1>1, <2>1, <3>1 DEF PassTyped, NoPass
    <3>2. CASE n = [p EXCEPT !.localList = ListOf(rs)]
      BY <1>1, <2>1, <3>2 DEF PassTyped, NoPass
    <3>3. CASE n = [p EXCEPT !.cloudState = StateOfDocs(docs, Known)]
      BY <1>1, <2>1, <3>3 DEF PassTyped, NoPass
    <3>4. CASE \E S \in SUBSET Known : n = [p EXCEPT !.cloudList = [i \in S |-> docs[i]]]
      BY <1>1, <2>1, <3>4 DEF PassTyped, NoPass
    <3> QED
      BY <1>1, <1>3, <3>1, <3>2, <3>3, <3>4, ReadDoes
  <2>3. \A l \in StoredIn(rs) : Local!Linked(rs[l]) => rs[l].cloudId \in Known
    BY <1>1 DEF StoreOK, StoredIn, Local!Linked
  <2>4. DOMAIN StateOfDocs(docs, Known) = Known
    BY DEF StateOfDocs
  <2> HIDE DEF n
  <2> QED
    BY <1>1, <2>1, <2>2, <2>3, <2>4 DEF NoneForgotten
<1>4. CASE Decide(d)
  <2>1. /\ p.pc = "reading" /\ rt = rs
        /\ NotRead \notin {p.localState, p.localList, p.cloudState, p.cloudList}
    BY <1>1, <1>4, DecideDoes DEF PassAlone, SameStore
  <2>2. PICK f : n = Decided(p, f)
    BY <1>1, <1>4, DecideDoes
  <2>3. resolution[d] = NoCall
    BY <1>1, <2>1 DEF PassTrue
  <2> QED
    BY <1>1, <2>1, <2>2, <2>3, DecidedRemembers
<1>5. CASE Push(d)
  <2>1. PICK q \in p.pushes : n = StartPush(p, q)
    BY <1>1, <1>5, PushDoes
  <2>2. /\ n.pc = "calling" /\ n.current = q /\ n.pushes = p.pushes \ {q} /\ n.found = p.found
        /\ p.pc = "pushing" /\ rt = rs
    BY <1>1, <1>5, <2>1, PushDoes DEF StartPush, PassTyped, NoPass, SameStore
  <2> HIDE DEF n
  <2> QED
    BY <1>1, <2>1, <2>2 DEF NoneForgotten, Kept, UnderWay
<1>6. CASE PushAccepted(d) \/ PushConflicts(d) \/ PushCollides(d)
  <2>1. Taken(d)
    BY <1>1, <1>6, PushAcceptedDoes, PushConflictsDoes, PushCollidesDoes, ZenonT(60)
  <2>2. p.pc = "calling" /\ rt = rs /\ c \in PushCall(Known) /\ PushTrue(rs, c)
    BY <1>1, <2>1 DEF Taken, SameStore, CallsOK, PassTrue, UnderWay
  <2>3. CASE PushAccepted(d)
    <3>1. PICK m : n = AcceptPush(p, m)
      BY <1>1, <2>3, PushAcceptedDoes
    <3>2. n.pc = "marking" /\ n.current = c /\ n.pushes = p.pushes /\ n.found = p.found
      BY <1>1, <3>1 DEF AcceptPush, PassTyped, NoPass
    <3> HIDE DEF n
    <3> QED
      BY <1>1, <2>2, <3>2 DEF NoneForgotten, Kept, UnderWay
  <2>4. CASE PushConflicts(d)
    <3> DEFINE k == Conflict(c.row, c.local, Answer(d).doc, Answer(d).result)
    <3>1. n = NextPush(p, p.found \cup {k}) /\ k.row = c.row
      BY <1>1, <2>4, PushConflictsDoes DEF Conflict
    <3> HIDE DEF k, n
    <3> QED
      BY <1>1, <2>2, <3>1, NextRemembers
  <2>5. CASE PushCollides(d)
    <3>1. /\ n = NextPush(p, p.found \cup c.collision) /\ Answer(d).stage = "replied"
          /\ Answer(d).status = 400
      BY <1>1, <2>5, PushCollidesDoes
    <3>2. c.request.op = "create"
      BY <1>1, <3>1 DEF CallsOK, Serves, Answer
    <3>3. ~Local!Linked(rs[c.row])
      BY <2>2, <3>2 DEF PushTrue
    <3> HIDE DEF n
    <3> QED
      BY <1>1, <2>2, <3>1, <3>3, NextRemembers
  <2> QED
    BY <1>6, <2>3, <2>4, <2>5
<1>7. CASE Confirm(d)
  <2> DEFINE marks == [l \in {c.row} |-> p.mark]
  <2>1. p.pc = "marking" /\ n = NextPush(p, p.found) /\ rt = Marked(rs, marks)
    BY <1>1, <1>7, ConfirmDoes
  <2>2. /\ p.mark \in MarkOf(Known) /\ c.row \in StoredIn(rs) /\ c.row \in LocalIds
        /\ DOMAIN marks = {c.row} /\ marks[c.row] = p.mark
    BY <1>1, <2>1 DEF CallsOK, PassTrue, PushTrue, ToPush, UnderWay, StoredIn
  <2> HIDE DEF marks
  <2>3. \A l \in LocalIds \ {c.row} : rt[l] = rs[l]
    BY <2>1, <2>2 DEF Marked
  <2>4. ~Local!Dirty(rt[c.row])
    BY <1>1, <2>1, <2>2, MarkedClean
  <2> HIDE DEF n, rt
  <2> QED
    BY <1>1, <2>1, <2>3, <2>4, NextRemembers
<1>8. CASE PullNew(d) \/ MarkPulled(d)
  <2>1. p.pc = "pushing" /\ p.pushes = {}
        /\ (n = [p EXCEPT !.pulls = {}] \/ n = [p EXCEPT !.marks = <<>>])
    BY <1>1, <1>8, PullNewDoes, MarkPulledDoes
  <2>2. n.pc = "pushing" /\ n.pushes = {} /\ n.found = p.found
    BY <1>1, <2>1 DEF PassTyped, NoPass
  <2>3. \A l \in StoredIn(rt) : (l \in StoredIn(rs) /\ rt[l] = rs[l]) \/ ~Local!Dirty(rt[l])
    <3> SUFFICES ASSUME NEW l \in StoredIn(rt), ~(l \in StoredIn(rs) /\ rt[l] = rs[l])
                 PROVE  ~Local!Dirty(rt[l])
      OBVIOUS
    <3>1. l \in LocalIds /\ rt[l] # rs[l]
      BY DEF StoredIn
    <3>2. CASE PullNew(d)
      <4>1. PICK e \in p.pulls : rt[l] = Local!PulledRow(e)
        BY <1>1, <3>1, <3>2, PullNewDoes
      <4>2. e.version \in Nat
        BY <1>1 DEF PassTyped, PullOf
      <4> QED
        BY <4>1, <4>2 DEF Local!PulledRow, Local!Dirty
    <3>3. CASE MarkPulled(d)
      <4>1. rt = Marked(rs, p.marks)
        BY <1>1, <3>3, MarkPulledDoes
      <4>2. l \in DOMAIN p.marks /\ l \in StoredIn(rs)
        BY <3>1, <4>1 DEF Marked
      <4>3. p.marks[l] \in MarkOf(Known)
        BY <1>1, <4>2 DEF PassTyped, Partial
      <4> QED
        BY <1>1, <3>1, <4>1, <4>2, <4>3, MarkedClean
    <3> QED
      BY <1>8, <3>2, <3>3
  <2> HIDE DEF n, rt
  <2> QED
    BY <1>1, <2>1, <2>2, <2>3 DEF NoneForgotten, Kept, UnderWay
<1>9. CASE EndPass(d)
  BY <1>1, <1>9, EndPassDoes, IdleForgetsNothing
<1>10. CASE DialogStep(d)
  <2>1. n = p /\ resolution[d] # NoCall
    BY <1>1, <1>10, DialogOthers
  <2> QED
    BY <1>1, <2>1, IdleForgetsNothing DEF PassTrue
<1>11. CASE User(d)
  <2>1. n = p /\ MayAct(d)
    BY <1>1, <1>11, UserActsDo, KeepCloudDoes, KeepLocalDoes DEF User, SameWindow
  <2> QED
    BY <1>1, <2>1, IdleForgetsNothing DEF MayAct, Quiet, At, PassTrue
<1> QED
  BY <1>2, <1>3, <1>4, <1>5, <1>6, <1>7, <1>8, <1>9, <1>10, <1>11
  DEF DeviceStep, PassStep

LEMMA Remembers ==
  ASSUME NoFaults
  PROVE  SyncTypeOK /\ LocalTrue /\ AllRemembered /\ [Next]_vars => AllRemembered'
<1> SUFFICES ASSUME SyncTypeOK, LocalTrue, AllRemembered, [Next]_vars PROVE AllRemembered'
  OBVIOUS
<1>1. CASE UNCHANGED vars
  BY <1>1 DEF vars, localVars, AllRemembered
<1>2. ASSUME NEW d \in Devices, DeviceStep(d) PROVE AllRemembered'
  <2>1. \A e \in Devices \ {d} : pass'[e] = pass[e] /\ rows'[e] = rows[e]
    BY <1>2, PassOthers DEF OthersStay, SameStore, SameWindow
  <2>2. ~Fault(d) /\ ~EditDuringPass
    BY DEF NoFaults, SyncTypeOK, Fault, ReadFails, PushLost, ConfirmLost, PullLost, KeepLocalLost,
           WindowCloses
  <2> QED
    BY <1>2, <2>1, <2>2, PassRemembers DEF AllRemembered
<1>3. CASE CloudStep
  BY <1>3, CloudStepDoes DEF SyncTypeOK, AllRemembered, SameStore, SameWindow
<1> QED
  BY <1>1, <1>2, <1>3 DEF Next, DeviceStep

\* As long as no call is lost, a pass never takes a conflict off the dialog
\* that its row still has: however many devices push at the same time.
THEOREM ConflictsStay ==
  ASSUME NoFaults
  PROVE  Spec => ConflictsAreNotDropped
<1> DEFINE Stay == \A d \in Devices : \A k \in conflicts[d] :
      /\ ReadFails(d) \/ EndPass(d)
      /\ k.row \in Local!Stored(d) /\ Local!Dirty(Row(d, k.row))
      /\ Row(d, k.row).cloudId = k.doc /\ docs[k.doc].version > Row(d, k.row).base
      => \E m \in conflicts'[d] : m.row = k.row
<1>1. SyncTypeOK /\ LocalTrue /\ AllRemembered => [Stay]_vars
  <2> SUFFICES ASSUME SyncTypeOK, LocalTrue, AllRemembered,
                      NEW d \in Devices, NEW k \in conflicts[d], ReadFails(d) \/ EndPass(d),
                      k.row \in Local!Stored(d), Local!Dirty(rows[d][k.row]),
                      rows[d][k.row].cloudId = k.doc
               PROVE  \E m \in conflicts'[d] : m.row = k.row
    BY DEF Row
  <2>1. ~ReadFails(d)
    BY DEF NoFaults, SyncTypeOK, ReadFails
  <2>2. pass[d].pc = "pushing" /\ pass[d].pushes = {} /\ conflicts'[d] = pass[d].found
    BY <2>1, EndPassDoes DEF SyncTypeOK
  <2>3. k \in CardOf(Known) /\ Known \subseteq DocIds
    BY KnownAre DEF SyncTypeOK, WindowOK
  <2>4. Local!Linked(rows[d][k.row]) /\ k.row \in StoredIn(rows[d])
    BY <2>3, SentinelAssumption DEF CardOf, Local!Linked, Local!Stored, StoredIn
  <2>5. Kept(pass[d], rows[d], k.row)
    BY <2>2, <2>4 DEF AllRemembered, NoneForgotten
  <2> QED
    BY <2>2, <2>5 DEF Kept, UnderWay
<1>2. ~EditDuringPass
  BY DEF NoFaults
<1>3. Init => AllRemembered
  BY IdleForgetsNothing DEF Init, AllRemembered
<1>4. SyncTypeOK /\ LocalTrue /\ [Next]_vars => LocalTrue'
  BY <1>2, LocalSteps
<1>5. SyncTypeOK /\ LocalTrue /\ AllRemembered /\ [Next]_vars => AllRemembered'
  BY Remembers
<1> QED
  BY <1>1, <1>3, <1>4, <1>5, SyncTypeCorrect, LocalStarts, PTL DEF Spec, ConflictsAreNotDropped


-----------------------------------------------------------------------------
(***************************************************************************)
(* That a profile names the same auth function wherever it is shown as     *)
(* synced, for any number of devices, functions and profiles, and whatever *)
(* fails, as long as nobody takes a function off a profile.                *)
(*                                                                         *)
(* ReferencesAgree alone is not inductive: it says nothing of a row that   *)
(* is behind the cloud or not synced yet, nor of what a card remembers.    *)
(***************************************************************************)

\* The cloud's versions only grow, so no row is ahead of them; and a profile
\* that is not in the cloud yet is on one device only.
RowsFollow ==
  \A d \in RefDevices : \A p \in Profiles :
    profileRows[d][p] # NoProfile =>
      /\ profileRows[d][p].base = 0 =>
           /\ profileRows[d][p].dirty
           /\ profileDocs[p] = NoProfile
           /\ \A e \in RefDevices \ {d} : profileRows[e][p] = NoProfile
      /\ profileRows[d][p].base # 0 =>
           profileDocs[p] # NoProfile /\ profileRows[d][p].base <= profileDocs[p].version

\* A row that is up to date has no function only if the document has none.
NothingTakenOff ==
  \A d \in RefDevices : \A p \in Profiles :
    /\ profileRows[d][p] # NoProfile /\ profileDocs[p] # NoProfile
    /\ profileRows[d][p].base = profileDocs[p].version
    /\ profileRows[d][p].ref = NoRef
    => profileDocs[p].ref = NoRef

\* A card is about a row that still waits, says what it says, and remembers a
\* version of the document as it was; there is one per profile.
CardsAreTrue ==
  \A d \in RefDevices :
    /\ \A c \in cards[d] :
         /\ profileRows[d][c.profile] # NoProfile
         /\ profileRows[d][c.profile].dirty /\ profileRows[d][c.profile].base # 0
         /\ profileRows[d][c.profile].ref = c.local
         /\ profileDocs[c.profile] # NoProfile
         /\ c.version <= profileDocs[c.profile].version
         /\ c.version = profileDocs[c.profile].version => c.cloud = profileDocs[c.profile].ref
    /\ \A a, b \in cards[d] : a.profile = b.profile => a = b

ReferencesInv ==
  RefTypeOK /\ RowsFollow /\ NothingTakenOff /\ CardsAreTrue /\ ReferencesAgree

-----------------------------------------------------------------------------
LEMMA ReferencesStart == RefInit => ReferencesInv
BY RefAssumption
DEF RefInit, ReferencesInv, RefTypeOK, RowsFollow, NothingTakenOff, CardsAreTrue, ReferencesAgree,
    FunctionList, FunctionRow, FunctionDoc, RefPass, NoRefPass

\* What is sent for a reference is the cloud id of the function it names.
LEMMA ResolvedMeansTheSame ==
  ASSUME NEW d \in RefDevices, NEW list \in FunctionList, NEW ref \in Ref,
         NEW sent \in Resolved(d, list, ref)
  PROVE  /\ sent \in CloudRef /\ Meaning(sent) = Meaning(ref)
         /\ sent = NoRef <=> ref = NoRef
BY NothingAssumption, RefAssumption DEF Resolved, CloudRef, Ref, Meaning, Id

\* The ways in which a pass leaves a profile: alone, pulled, created, updated,
\* or on a card.
Pulled(row, doc, o) ==
  /\ doc # NoProfile /\ (row = NoProfile \/ ~row.dirty)
  /\ o = Outcome(RefRow(doc.ref, doc.version, FALSE), doc, {})
Created(row, doc, o) ==
  /\ row # NoProfile /\ row.base = 0
  /\ \E ref \in CloudRef : /\ Meaning(ref) = Meaning(row.ref) /\ (ref = NoRef <=> row.ref = NoRef)
                           /\ o = Outcome(RefRow(row.ref, 1, FALSE), Document(1, ref), {})
SentOn(row, doc, o) ==
  /\ row # NoProfile /\ row.base # 0 /\ row.base = doc.version
  /\ \E ref \in CloudRef : /\ Meaning(ref) = Meaning(row.ref) /\ (ref = NoRef <=> row.ref = NoRef)
                           /\ o = Outcome(RefRow(row.ref, doc.version + 1, FALSE), Updated(doc, ref), {})
Met(row, doc, p, o) ==
  /\ row # NoProfile /\ row.dirty /\ row.base # 0
  /\ o = Outcome(row, doc, {[profile |-> p, local |-> row.ref, cloud |-> doc.ref,
                             version |-> doc.version]})

LEMMA WaysToReconcile ==
  ASSUME RefTypeOK, NEW d \in RefDevices, NEW list \in FunctionList, NEW p \in Profiles,
         NEW failed, NEW o \in Reconciled(d, list, p, failed)
  PROVE  LET row == profileRows[d][p]  doc == profileDocs[p] IN
         \/ o = Outcome(row, doc, {})
         \/ Pulled(row, doc, o) \/ Created(row, doc, o) \/ SentOn(row, doc, o)
         \/ Met(row, doc, p, o)
<1> DEFINE row == profileRows[d][p]
           doc == profileDocs[p]
<1>1. row \in ProfileRow \cup {NoProfile}
  BY DEF RefTypeOK
<1>2. CASE p \in failed
  BY <1>2 DEF Reconciled
<1>3. CASE p \notin failed /\ p \notin ProfilesToPush(d)
  <2>1. o = PullProfile(d, p) /\ (row = NoProfile \/ ~row.dirty)
    BY <1>3 DEF Reconciled, ProfilesToPush
  <2> QED
    BY <2>1 DEF PullProfile, Pulled
<1>4. CASE p \notin failed /\ p \in ProfilesToPush(d)
  <2>1. row # NoProfile /\ row.dirty /\ row.ref \in Ref
    BY <1>1, <1>4 DEF ProfilesToPush, ProfileRow
  <2>2. CASE Resolved(d, list, row.ref) = {}
    BY <1>4, <2>2 DEF Reconciled
  <2>3. CASE Resolved(d, list, row.ref) # {}
    <3>1. PICK ref \in Resolved(d, list, row.ref) : o = Sent(row, doc, p, ref)
      BY <1>4, <2>3 DEF Reconciled, PushProfile
    <3>2. ref \in CloudRef /\ Meaning(ref) = Meaning(row.ref) /\ (ref = NoRef <=> row.ref = NoRef)
      BY <2>1, ResolvedMeansTheSame
    <3>3. CASE row.base = 0
      BY <2>1, <3>1, <3>2, <3>3 DEF Sent, Created
    <3>4. CASE row.base # 0 /\ row.base = doc.version
      BY <2>1, <3>1, <3>2, <3>4 DEF Sent, SentOn
    <3>5. CASE row.base # 0 /\ row.base # doc.version
      BY <2>1, <3>1, <3>5 DEF Sent, Met
    <3> QED
      BY <3>3, <3>4, <3>5
  <2> QED
    BY <2>2, <2>3
<1> QED
  BY <1>2, <1>3, <1>4

\* What the pass leaves of the document: itself, its next version, or its first.
Grown(row, doc, after) ==
  \/ after = doc
  \/ /\ doc \in ProfileDoc /\ after \in ProfileDoc /\ after.version = doc.version + 1
  \/ /\ doc = NoProfile /\ after \in ProfileDoc /\ row # NoProfile /\ row.base = 0

\* ReferencesInv, of one row and its document.
RowIsTrue(row, doc, d) ==
  /\ row \in ProfileRow \cup {NoProfile} /\ doc \in ProfileDoc \cup {NoProfile}
  /\ row # NoProfile =>
       /\ row.ref \in RefOn(d)
       /\ row.base = 0 => row.dirty /\ doc = NoProfile
       /\ row.base # 0 => doc # NoProfile /\ row.base <= doc.version
       /\ doc # NoProfile /\ row.base = doc.version =>
            /\ row.ref = NoRef => doc.ref = NoRef
            /\ ~row.dirty => Meaning(row.ref) = Meaning(doc.ref)

LEMMA RowsAreTrue ==
  ASSUME ReferencesInv, NEW d \in RefDevices, NEW p \in Profiles
  PROVE  RowIsTrue(profileRows[d][p], profileDocs[p], d)
BY DEF ReferencesInv, RefTypeOK, RowsFollow, NothingTakenOff, ReferencesAgree, RowIsTrue

LEMMA RowsStayTrue ==
  ASSUME NEW d \in RefDevices, NEW p \in Profiles, NEW row, NEW doc, NEW o, RowIsTrue(row, doc, d),
         \/ o = Outcome(row, doc, {}) \/ Pulled(row, doc, o) \/ Created(row, doc, o)
         \/ SentOn(row, doc, o) \/ Met(row, doc, p, o)
  PROVE  /\ RowIsTrue(o.row, o.doc, d) /\ Grown(row, doc, o.doc)
         /\ row = NoProfile /\ doc = NoProfile => o.row = NoProfile /\ o.doc = NoProfile
         /\ o.row # NoProfile /\ o.row.base = 0 => o.row = row
         /\ \A c \in o.conflict :
              /\ c \in Card /\ c.profile = p /\ c.local = o.row.ref /\ c.version = o.doc.version
              /\ c.cloud = o.doc.ref /\ o.doc # NoProfile
              /\ o.row # NoProfile /\ o.row.dirty /\ o.row.base # 0
         /\ \A a, b \in o.conflict : a = b
<1> USE NothingAssumption DEF RowIsTrue, Grown, Outcome, RefRow, Document
<1>1. CASE o = Outcome(row, doc, {})
  BY <1>1
<1>2. CASE Pulled(row, doc, o)
  <2>1. doc.ref \in CloudRef /\ doc.version \in Nat \ {0} /\ doc.ref \in RefOn(d) /\ doc.ref \in Ref
    BY <1>2 DEF Pulled, ProfileDoc, CloudRef, RefOn, Ref
  <2>2. RefRow(doc.ref, doc.version, FALSE) \in ProfileRow
    BY <2>1 DEF ProfileRow
  <2> QED
    BY <1>2, <2>1, <2>2 DEF Pulled
<1>3. CASE Created(row, doc, o)
  <2>1. PICK ref \in CloudRef : /\ Meaning(ref) = Meaning(row.ref) /\ (ref = NoRef <=> row.ref = NoRef)
                               /\ o = Outcome(RefRow(row.ref, 1, FALSE), Document(1, ref), {})
    BY <1>3 DEF Created
  <2>2. row # NoProfile /\ row.base = 0 /\ row \in ProfileRow /\ doc = NoProfile
    BY <1>3 DEF Created
  <2>3. RefRow(row.ref, 1, FALSE) \in ProfileRow /\ Document(1, ref) \in ProfileDoc
    BY <2>2 DEF ProfileRow, ProfileDoc
  <2> QED
    BY <2>1, <2>2, <2>3
<1>4. CASE SentOn(row, doc, o)
  <2>1. PICK ref \in CloudRef :
          /\ Meaning(ref) = Meaning(row.ref) /\ (ref = NoRef <=> row.ref = NoRef)
          /\ o = Outcome(RefRow(row.ref, doc.version + 1, FALSE), Updated(doc, ref), {})
    BY <1>4 DEF SentOn
  <2>2. /\ row # NoProfile /\ row.base # 0 /\ row.base = doc.version /\ row \in ProfileRow
        /\ doc \in ProfileDoc
    BY <1>4 DEF SentOn
  <2>3. doc.version \in Nat \ {0} /\ doc.ref \in CloudRef
    BY <2>2 DEF ProfileDoc
  <2>4. Updated(doc, ref).version = doc.version + 1 /\ Updated(doc, ref) \in ProfileDoc
    BY <2>3 DEF Updated, ProfileDoc
  <2>5. RefRow(row.ref, doc.version + 1, FALSE) \in ProfileRow
    BY <2>2, <2>3 DEF ProfileRow
  <2>6. /\ row.ref = NoRef => Updated(doc, ref).ref = NoRef
        /\ Meaning(row.ref) = Meaning(Updated(doc, ref).ref)
    BY <2>1, <2>2 DEF Updated, Meaning
  <2> QED
    BY <2>1, <2>2, <2>3, <2>4, <2>5, <2>6
<1>5. CASE Met(row, doc, p, o)
  <2>1. row \in ProfileRow /\ doc \in ProfileDoc
    BY <1>5 DEF Met
  <2>2. [profile |-> p, local |-> row.ref, cloud |-> doc.ref, version |-> doc.version] \in Card
    BY <2>1 DEF ProfileRow, ProfileDoc, Card
  <2> QED
    BY <1>5, <2>1, <2>2 DEF Met
<1> QED
  BY <1>1, <1>2, <1>3, <1>4, <1>5

\* A document that grows under another device's hands leaves a row true.
LEMMA OthersStayTrue ==
  ASSUME NEW e \in RefDevices, NEW row, NEW other, NEW doc, NEW after,
         RowIsTrue(other, doc, e), Grown(row, doc, after),
         row # NoProfile /\ row.base = 0 => other = NoProfile
  PROVE  RowIsTrue(other, after, e)
<1> USE NothingAssumption DEF RowIsTrue, Grown
<1>1. CASE after = doc
  BY <1>1
<1>2. CASE doc \in ProfileDoc /\ after \in ProfileDoc /\ after.version = doc.version + 1
  <2>1. doc.version \in Nat /\ (other # NoProfile => other.base \in Nat)
    BY <1>2 DEF ProfileDoc, ProfileRow
  <2> QED
    BY <1>2, <2>1
<1>3. CASE doc = NoProfile /\ after \in ProfileDoc /\ row # NoProfile /\ row.base = 0
  BY <1>3
<1> QED
  BY <1>1, <1>2, <1>3

\* A profile that is not in the cloud is on one device only.
OnOneDevice ==
  \A d, e \in RefDevices : \A p \in Profiles :
    /\ d # e /\ profileRows[d][p] # NoProfile /\ profileRows[d][p].base = 0
    => profileRows[e][p] = NoProfile

LEMMA PartsSuffice ==
  (/\ RefTypeOK /\ OnOneDevice /\ CardsAreTrue
   /\ \A d \in RefDevices : \A p \in Profiles : RowIsTrue(profileRows[d][p], profileDocs[p], d))
  => ReferencesInv
BY DEF ReferencesInv, RefTypeOK, OnOneDevice, RowIsTrue, RowsFollow, NothingTakenOff, ReferencesAgree

LEMMA InvHasParts == ReferencesInv => RefTypeOK /\ OnOneDevice /\ CardsAreTrue
BY DEF ReferencesInv, RowsFollow, OnOneDevice

-----------------------------------------------------------------------------
\* The whole reconciliation of the profiles of one device.
LEMMA SyncProfilesKeepsInv ==
  ASSUME ReferencesInv, NEW d \in RefDevices, SyncProfiles(d)
  PROVE  ReferencesInv'
<1>1. PICK failed \in Failing(Profiles, ProfilesToPush(d)) :
        /\ Faults(failed)
        /\ \E after \in [Profiles -> UNION {Reconciled(d, refPass[d].list, p, failed) : p \in Profiles}] :
             /\ \A p \in Profiles : after[p] \in Reconciled(d, refPass[d].list, p, failed)
             /\ profileRows' = [profileRows EXCEPT ![d] = [p \in Profiles |-> after[p].row]]
             /\ profileDocs' = [p \in Profiles |-> after[p].doc]
             /\ cards' = [cards EXCEPT ![d] = UNION {after[p].conflict : p \in Profiles}]
  BY DEF SyncProfiles
<1>2. PICK after \in [Profiles -> UNION {Reconciled(d, refPass[d].list, p, failed) : p \in Profiles}] :
        /\ \A p \in Profiles : after[p] \in Reconciled(d, refPass[d].list, p, failed)
        /\ profileRows' = [profileRows EXCEPT ![d] = [p \in Profiles |-> after[p].row]]
        /\ profileDocs' = [p \in Profiles |-> after[p].doc]
        /\ cards' = [cards EXCEPT ![d] = UNION {after[p].conflict : p \in Profiles}]
  BY <1>1
<1>3. RefTypeOK /\ OnOneDevice /\ CardsAreTrue
  BY InvHasParts
<1>4. refPass[d].list \in FunctionList
  <2>1. refPass[d].at = "profiles"
    BY DEF SyncProfiles
  <2>2. refPass[d] \in RefPass
    BY <1>3 DEF RefTypeOK
  <2> QED
    BY <2>1, <2>2 DEF RefPass, NoRefPass
<1>5. \A p \in Profiles :
        LET row == profileRows[d][p]  doc == profileDocs[p]  o == after[p] IN
        /\ RowIsTrue(o.row, o.doc, d) /\ Grown(row, doc, o.doc)
        /\ row = NoProfile /\ doc = NoProfile => o.row = NoProfile /\ o.doc = NoProfile
        /\ o.row # NoProfile /\ o.row.base = 0 => o.row = row
        /\ \A c \in o.conflict :
             /\ c \in Card /\ c.profile = p /\ c.local = o.row.ref /\ c.version = o.doc.version
             /\ c.cloud = o.doc.ref /\ o.doc # NoProfile
             /\ o.row # NoProfile /\ o.row.dirty /\ o.row.base # 0
        /\ \A a, b \in o.conflict : a = b
  <2> TAKE p \in Profiles
  <2>1. RowIsTrue(profileRows[d][p], profileDocs[p], d)
    BY RowsAreTrue
  <2>2. LET row == profileRows[d][p]  doc == profileDocs[p]  o == after[p] IN
        \/ o = Outcome(row, doc, {}) \/ Pulled(row, doc, o) \/ Created(row, doc, o)
        \/ SentOn(row, doc, o) \/ Met(row, doc, p, o)
    BY <1>2, <1>3, <1>4, WaysToReconcile
  <2> QED
    BY <2>1, <2>2, RowsStayTrue
<1>6. /\ \A p \in Profiles : profileRows'[d][p] = after[p].row /\ profileDocs'[p] = after[p].doc
      /\ \A e \in RefDevices \ {d} : profileRows'[e] = profileRows[e] /\ cards'[e] = cards[e]
      /\ cards'[d] = UNION {after[p].conflict : p \in Profiles}
  BY <1>2, <1>3 DEF RefTypeOK
<1>7. RefTypeOK'
  <2>1. profileRows' \in [RefDevices -> [Profiles -> ProfileRow \cup {NoProfile}]]
    <3>1. [p \in Profiles |-> after[p].row] \in [Profiles -> ProfileRow \cup {NoProfile}]
      BY <1>5 DEF RowIsTrue
    <3> QED
      BY <3>1, <1>2, <1>3 DEF RefTypeOK
  <2>2. profileDocs' \in [Profiles -> ProfileDoc \cup {NoProfile}]
    BY <1>2, <1>5 DEF RowIsTrue
  <2>3. cards' \in [RefDevices -> SUBSET Card]
    <3>1. UNION {after[p].conflict : p \in Profiles} \subseteq Card
      BY <1>5
    <3> QED
      BY <3>1, <1>2, <1>3 DEF RefTypeOK
  <2>4. refPass' \in [RefDevices -> RefPass]
    BY <1>3 DEF SyncProfiles, RefTypeOK, RefPass
  <2>5. refFaults' \in 0..MaxRefFaults
    BY <1>1, <1>3, RefAssumption DEF RefTypeOK, Faults
  <2> QED
    BY <1>3, <2>1, <2>2, <2>3, <2>4, <2>5 DEF RefTypeOK, SyncProfiles, functionVars
<1>8. \A e \in RefDevices : \A p \in Profiles : RowIsTrue(profileRows[e][p], profileDocs[p], e)'
  <2> SUFFICES ASSUME NEW e \in RefDevices, NEW p \in Profiles
               PROVE  RowIsTrue(profileRows'[e][p], profileDocs'[p], e)
    BY DEF RowIsTrue
  <2>1. CASE e = d
    BY <1>5, <1>6, <2>1
  <2>2. CASE e # d
    <3>1. RowIsTrue(profileRows[e][p], profileDocs[p], e)
      BY RowsAreTrue
    <3>2. profileRows[d][p] # NoProfile /\ profileRows[d][p].base = 0 => profileRows[e][p] = NoProfile
      BY <1>3, <2>2 DEF OnOneDevice
    <3>3. Grown(profileRows[d][p], profileDocs[p], after[p].doc)
      BY <1>5
    <3>4. RowIsTrue(profileRows[e][p], after[p].doc, e)
      BY <3>1, <3>2, <3>3, OthersStayTrue
    <3> QED
      BY <1>6, <2>2, <3>4
  <2> QED
    BY <2>1, <2>2
<1>9. OnOneDevice'
  <2> SUFFICES ASSUME NEW a \in RefDevices, NEW b \in RefDevices, NEW p \in Profiles, a # b,
                      profileRows'[a][p] # NoProfile, profileRows'[a][p].base = 0
               PROVE  profileRows'[b][p] = NoProfile
    BY DEF OnOneDevice
  <2>1. CASE a = d
    BY <1>3, <1>5, <1>6, <2>1 DEF OnOneDevice
  <2>2. CASE a # d
    <3>1. profileRows[a][p] # NoProfile /\ profileRows[a][p].base = 0
      BY <1>6, <2>2
    <3>2. profileRows[b][p] = NoProfile /\ profileDocs[p] = NoProfile
      BY <1>3, <3>1, RowsAreTrue DEF OnOneDevice, RowIsTrue
    <3> QED
      BY <1>5, <1>6, <3>2
  <2> QED
    BY <2>1, <2>2
<1>10. CardsAreTrue'
  <2> SUFFICES ASSUME NEW e \in RefDevices
               PROVE  /\ \A c \in cards'[e] :
                           /\ profileRows'[e][c.profile] # NoProfile
                           /\ profileRows'[e][c.profile].dirty /\ profileRows'[e][c.profile].base # 0
                           /\ profileRows'[e][c.profile].ref = c.local
                           /\ profileDocs'[c.profile] # NoProfile
                           /\ c.version <= profileDocs'[c.profile].version
                           /\ c.version = profileDocs'[c.profile].version
                                => c.cloud = profileDocs'[c.profile].ref
                      /\ \A a, b \in cards'[e] : a.profile = b.profile => a = b
    BY DEF CardsAreTrue
  <2>1. CASE e = d
    <3>1. \A c \in cards'[d] : c.profile \in Profiles /\ c \in after[c.profile].conflict
      BY <1>5, <1>6
    <3>2. \A a, b \in cards'[d] : a.profile = b.profile => a = b
      BY <1>5, <3>1
    <3>3. ASSUME NEW c \in cards'[d]
          PROVE  /\ profileRows'[d][c.profile] # NoProfile
                 /\ profileRows'[d][c.profile].dirty /\ profileRows'[d][c.profile].base # 0
                 /\ profileRows'[d][c.profile].ref = c.local
                 /\ profileDocs'[c.profile] # NoProfile
                 /\ c.version = profileDocs'[c.profile].version
                 /\ c.cloud = profileDocs'[c.profile].ref /\ c.version \in Nat
      <4>1. c.profile \in Profiles /\ c \in after[c.profile].conflict
        BY <3>1
      <4>2. profileRows'[d][c.profile] = after[c.profile].row /\ profileDocs'[c.profile] = after[c.profile].doc
        BY <1>6, <4>1
      <4>3. c \in Card
        BY <1>5, <4>1
      <4> QED
        BY <1>5, <4>1, <4>2, <4>3 DEF Card
    <3> QED
      BY <2>1, <3>2, <3>3
  <2>2. CASE e # d
    <3>1. \A a, b \in cards'[e] : a.profile = b.profile => a = b
      BY <1>3, <1>6, <2>2 DEF CardsAreTrue
    <3>2. ASSUME NEW c \in cards'[e]
          PROVE  /\ profileDocs'[c.profile] # NoProfile
                 /\ c.version <= profileDocs'[c.profile].version
                 /\ c.version = profileDocs'[c.profile].version
                      => c.cloud = profileDocs'[c.profile].ref
      <4> DEFINE doc == profileDocs[c.profile]
      <4>1. c \in cards[e] /\ c \in Card /\ c.profile \in Profiles /\ c.version \in Nat
        BY <1>3, <1>6, <2>2 DEF RefTypeOK, Card
      <4>2. /\ doc # NoProfile /\ c.version <= doc.version
            /\ c.version = doc.version => c.cloud = doc.ref
        BY <1>3, <4>1 DEF CardsAreTrue
      <4>3. doc \in ProfileDoc /\ doc.version \in Nat
        BY <1>3, <4>1, <4>2 DEF RefTypeOK, ProfileDoc
      <4>4. profileDocs'[c.profile] = doc \/ (/\ profileDocs'[c.profile] \in ProfileDoc
                                              /\ profileDocs'[c.profile].version = doc.version + 1)
        BY <1>5, <1>6, <4>1, <4>2 DEF Grown
      <4> QED
        BY <4>1, <4>2, <4>3, <4>4, NothingAssumption
    <3> QED
      BY <1>3, <1>6, <2>2, <3>1, <3>2 DEF CardsAreTrue
  <2> QED
    BY <2>1, <2>2
<1> QED
  BY <1>7, <1>8, <1>9, <1>10
  DEF ReferencesInv, RefTypeOK, OnOneDevice, RowIsTrue, RowsFollow, NothingTakenOff, ReferencesAgree

-----------------------------------------------------------------------------
\* What the other steps make of the parts that are about one row.
LEMMA RowsUnchanged ==
  ASSUME ReferencesInv, RefTypeOK', UNCHANGED profileVars,
         \A d \in RefDevices : cards'[d] \subseteq cards[d]
  PROVE  ReferencesInv'
BY DEF ReferencesInv, RowsFollow, NothingTakenOff, CardsAreTrue, ReferencesAgree, profileVars

\* One row of d changes, and the document as Grown says.
LEMMA OneRowChanges ==
  ASSUME ReferencesInv, RefTypeOK', NEW d \in RefDevices, NEW p \in Profiles,
         \A e \in RefDevices : \A q \in Profiles :
           <<e, q>> # <<d, p>> => profileRows'[e][q] = profileRows[e][q],
         \A q \in Profiles \ {p} : profileDocs'[q] = profileDocs[q],
         \A e \in RefDevices : cards'[e] \subseteq cards[e],
         \A c \in cards'[d] : c.profile # p,
         Grown(profileRows[d][p], profileDocs[p], profileDocs'[p]),
         RowIsTrue(profileRows'[d][p], profileDocs'[p], d),
         profileRows'[d][p] # NoProfile /\ profileRows'[d][p].base = 0 =>
           \A e \in RefDevices \ {d} : profileRows[e][p] = NoProfile,
         profileRows[d][p] = NoProfile => \A e \in RefDevices \ {d} : profileRows[e][p] = NoProfile
  PROVE  ReferencesInv'
<1>1. RefTypeOK /\ OnOneDevice /\ CardsAreTrue
  BY InvHasParts
<1>2. ASSUME NEW e \in RefDevices, NEW q \in Profiles
      PROVE  RowIsTrue(profileRows'[e][q], profileDocs'[q], e)
  <2>1. RowIsTrue(profileRows[e][q], profileDocs[q], e)
    BY RowsAreTrue
  <2>2. CASE q = p /\ e # d
    <3>1. profileRows[d][p] # NoProfile /\ profileRows[d][p].base = 0 => profileRows[e][p] = NoProfile
      BY <1>1, <2>2 DEF OnOneDevice
    <3>2. RowIsTrue(profileRows[e][p], profileDocs'[p], e)
      BY <2>1, <2>2, <3>1, OthersStayTrue
    <3> QED
      BY <2>2, <3>2
  <2> QED
    BY <2>1, <2>2
<1>3. OnOneDevice'
  BY <1>1 DEF OnOneDevice
<1>4. CardsAreTrue'
  <2>1. \A e \in RefDevices : \A a, b \in cards'[e] : a.profile = b.profile => a = b
    BY <1>1 DEF CardsAreTrue
  <2>2. ASSUME NEW e \in RefDevices, NEW c \in cards'[e]
        PROVE  /\ profileRows'[e][c.profile] # NoProfile
               /\ profileRows'[e][c.profile].dirty /\ profileRows'[e][c.profile].base # 0
               /\ profileRows'[e][c.profile].ref = c.local
               /\ profileDocs'[c.profile] # NoProfile
               /\ c.version <= profileDocs'[c.profile].version
               /\ c.version = profileDocs'[c.profile].version => c.cloud = profileDocs'[c.profile].ref
    <3>1. c \in cards[e] /\ c \in Card /\ c.profile \in Profiles /\ c.version \in Nat
      BY <1>1 DEF RefTypeOK, Card
    <3>2. profileRows'[e][c.profile] = profileRows[e][c.profile]
      BY <3>1
    <3>3. /\ profileDocs[c.profile] # NoProfile /\ c.version <= profileDocs[c.profile].version
          /\ c.version = profileDocs[c.profile].version => c.cloud = profileDocs[c.profile].ref
      BY <1>1, <3>1 DEF CardsAreTrue
    <3>4. profileDocs[c.profile] \in ProfileDoc /\ profileDocs[c.profile].version \in Nat
      BY <1>1, <3>1, <3>3 DEF RefTypeOK, ProfileDoc
    <3>5. \/ profileDocs'[c.profile] = profileDocs[c.profile]
          \/ /\ profileDocs'[c.profile] \in ProfileDoc
             /\ profileDocs'[c.profile].version = profileDocs[c.profile].version + 1
      BY <3>1, <3>3 DEF Grown
    <3>6. /\ profileDocs'[c.profile] # NoProfile /\ c.version <= profileDocs'[c.profile].version
          /\ c.version = profileDocs'[c.profile].version => c.cloud = profileDocs'[c.profile].ref
      BY <3>1, <3>3, <3>4, <3>5, NothingAssumption
    <3> QED
      BY <1>1, <3>1, <3>2, <3>6 DEF CardsAreTrue
  <2> QED
    BY <2>1, <2>2 DEF CardsAreTrue
<1> QED
  BY <1>2, <1>3, <1>4
  DEF ReferencesInv, RefTypeOK, OnOneDevice, RowIsTrue, RowsFollow, NothingTakenOff, ReferencesAgree

\* One entry of a table changes.
LEMMA OneEntry ==
  ASSUME NEW D, NEW S, NEW T, NEW table \in [D -> [S -> T]], NEW d \in D, NEW x \in S, NEW v \in T
  PROVE  [table EXCEPT ![d][x] = v] \in [D -> [S -> T]]
OBVIOUS

LEMMA ActsAreCounted == RefTypeOK /\ UserActed => refActs' \in 0..MaxRefActs
BY RefAssumption DEF RefTypeOK, UserActed

\* The steps that leave every profile alone.
LEMMA OtherStepsKeepInv ==
  ASSUME ReferencesInv, NEW d \in RefDevices,
         \/ \E f \in AuthFunctions : CreateFunction(d, f) \/ DeleteFunction(d, f)
         \/ SyncFunctions(d) \/ ListFunctions(d) \/ SyncTimer(d) \/ CloseWindow(d)
  PROVE  ReferencesInv'
<1>1. RefTypeOK
  BY InvHasParts
<1>2. \A both \in BOOLEAN : Triggered(d, both) \in [RefDevices -> RefPass]
  BY <1>1 DEF Triggered, RefTypeOK, RefPass
<1>3. CASE \E f \in AuthFunctions : CreateFunction(d, f)
  <2>1. PICK f \in AuthFunctions : CreateFunction(d, f)
    BY <1>3
  <2> DEFINE row == "new"
  <2>2. functionRows' = [functionRows EXCEPT ![d][f] = row]
    BY <1>1, <2>1 DEF RefTypeOK, CreateFunction
  <2>3. functionRows \in [RefDevices -> [AuthFunctions -> FunctionRow]] /\ row \in FunctionRow
    BY <1>1 DEF RefTypeOK, FunctionList, FunctionRow
  <2>4. functionRows' \in [RefDevices -> FunctionList]
    <3> HIDE DEF row
    <3> QED
      BY <2>2, <2>3, OneEntry DEF FunctionList
  <2>5. refPass' \in [RefDevices -> RefPass]
    BY <1>2, <2>1 DEF CreateFunction
  <2>6. refActs' \in 0..MaxRefActs
    BY <1>1, <2>1, ActsAreCounted DEF CreateFunction
  <2>7. RefTypeOK'
    BY <1>1, <2>1, <2>4, <2>5, <2>6 DEF RefTypeOK, CreateFunction, UserActed
  <2> QED
    BY <2>1, <2>7, RowsUnchanged DEF CreateFunction, UserActed, profileVars
<1>4. CASE \E f \in AuthFunctions : DeleteFunction(d, f)
  <2>1. PICK f \in AuthFunctions : DeleteFunction(d, f)
    BY <1>4
  <2> DEFINE row == IF functionRows[d][f] = "new" THEN "gone" ELSE "tombstone"
  <2>2. functionRows' = [functionRows EXCEPT ![d][f] = row]
    BY <1>1, <2>1 DEF RefTypeOK, DeleteFunction
  <2>3. functionRows \in [RefDevices -> [AuthFunctions -> FunctionRow]] /\ row \in FunctionRow
    BY <1>1 DEF RefTypeOK, FunctionList, FunctionRow
  <2>4. functionRows' \in [RefDevices -> FunctionList]
    <3> HIDE DEF row
    <3> QED
      BY <2>2, <2>3, OneEntry DEF FunctionList
  <2>5. refPass' \in [RefDevices -> RefPass]
    BY <1>2, <2>1 DEF DeleteFunction
  <2>6. refActs' \in 0..MaxRefActs
    BY <1>1, <2>1, ActsAreCounted DEF DeleteFunction
  <2>7. RefTypeOK'
    BY <1>1, <2>1, <2>4, <2>5, <2>6 DEF RefTypeOK, DeleteFunction, UserActed
  <2> QED
    BY <2>1, <2>7, RowsUnchanged DEF DeleteFunction, UserActed, profileVars
<1>5. CASE SyncFunctions(d)
  <2>1. PICK failed \in Failing(AuthFunctions, FunctionsToPush(d)) :
          /\ functionRows' = [functionRows EXCEPT ![d] =
               [f \in AuthFunctions |-> IF f \in failed THEN @[f] ELSE ReconciledFunction(d, f)]]
          /\ functionDocs' =
               [f \in AuthFunctions |-> IF f \in failed THEN functionDocs[f] ELSE PushedFunction(d, f)]
          /\ Faults(failed)
    BY <1>5 DEF SyncFunctions
  <2>2. \A f \in AuthFunctions : ReconciledFunction(d, f) \in FunctionRow /\ PushedFunction(d, f) \in FunctionDoc
    BY <1>1 DEF RefTypeOK, FunctionList, FunctionRow, FunctionDoc, ReconciledFunction, PushedFunction
  <2>3. functionRows' \in [RefDevices -> FunctionList]
    BY <1>1, <2>1, <2>2 DEF RefTypeOK, FunctionList
  <2>4. functionDocs' \in [AuthFunctions -> FunctionDoc]
    BY <1>1, <2>1, <2>2 DEF RefTypeOK
  <2>5. refPass' \in [RefDevices -> RefPass]
    BY <1>1, <1>5 DEF RefTypeOK, SyncFunctions, RefPass, NoRefPass
  <2>6. refFaults' \in 0..MaxRefFaults
    BY <1>1, <2>1, RefAssumption DEF RefTypeOK, Faults
  <2>7. RefTypeOK'
    BY <1>1, <1>5, <2>3, <2>4, <2>5, <2>6 DEF RefTypeOK, SyncFunctions, profileVars
  <2> QED
    BY <1>5, <2>7, RowsUnchanged DEF SyncFunctions, profileVars
<1>6. CASE ListFunctions(d)
  <2>1. PICK failed \in {{}, AuthFunctions} :
          /\ refPass' = [refPass EXCEPT ![d] =
               [at |-> "profiles",
                list |-> [f \in AuthFunctions |-> IF f \in failed THEN "none" ELSE functionRows[d][f]]]]
          /\ Faults(failed)
    BY <1>6 DEF ListFunctions
  <2>2. [f \in AuthFunctions |-> IF f \in failed THEN "none" ELSE functionRows[d][f]] \in FunctionList
    BY <1>1 DEF RefTypeOK, FunctionList, FunctionRow
  <2>3. refPass' \in [RefDevices -> RefPass]
    BY <1>1, <2>1, <2>2 DEF RefTypeOK, RefPass
  <2>4. refFaults' \in 0..MaxRefFaults
    BY <1>1, <2>1, RefAssumption DEF RefTypeOK, Faults
  <2>5. RefTypeOK'
    BY <1>1, <1>6, <2>3, <2>4 DEF RefTypeOK, ListFunctions, functionVars, profileVars
  <2> QED
    BY <1>6, <2>5, RowsUnchanged DEF ListFunctions, profileVars
<1>7. CASE SyncTimer(d)
  <2>1. RefTypeOK'
    BY <1>1, <1>2, <1>7 DEF RefTypeOK, SyncTimer, functionVars, profileVars
  <2> QED
    BY <1>7, <2>1, RowsUnchanged DEF SyncTimer, profileVars
<1>8. CASE CloseWindow(d)
  <2>1. refFaults' \in 0..MaxRefFaults
    BY <1>1, <1>8, RefAssumption DEF RefTypeOK, CloseWindow, Faults
  <2>2. RefTypeOK'
    BY <1>1, <1>8, <2>1 DEF RefTypeOK, CloseWindow, RefPass, functionVars, profileVars
  <2>3. \A e \in RefDevices : cards'[e] \subseteq cards[e]
    BY <1>1, <1>8 DEF RefTypeOK, CloseWindow
  <2> QED
    BY <1>8, <2>2, <2>3, RowsUnchanged DEF CloseWindow, profileVars
<1> QED
  BY <1>3, <1>4, <1>5, <1>6, <1>7, <1>8

LEMMA OfferedRefs == \A d \in RefDevices : Offered(d) \subseteq RefOn(d) /\ NoRef \notin Offered(d)
BY NothingAssumption DEF Offered, Id, RefOn

\* A user makes or edits a profile.
LEMMA UsersKeepInv ==
  ASSUME ~Unlinks, ReferencesInv, NEW d \in RefDevices, NEW p \in Profiles,
         CreateProfile(d, p) \/ EditProfile(d, p)
  PROVE  ReferencesInv'
<1>1. RefTypeOK /\ OnOneDevice /\ CardsAreTrue
  BY InvHasParts
<1>2. Triggered(d, TRUE) \in [RefDevices -> RefPass]
  BY <1>1 DEF Triggered, RefTypeOK, RefPass
<1>3. RowIsTrue(profileRows[d][p], profileDocs[p], d)
  BY RowsAreTrue
<1>4. \A ref \in RefOn(d) : ref \in Ref
  BY DEF RefOn, Ref
<1>5. CASE CreateProfile(d, p)
  <2>1. PICK ref \in Offered(d) \cup {NoRef} :
          profileRows' = [profileRows EXCEPT ![d][p] = RefRow(ref, 0, TRUE)]
    BY <1>5 DEF CreateProfile
  <2>2. ref \in RefOn(d)
    BY OfferedRefs DEF RefOn
  <2>3. RefRow(ref, 0, TRUE) \in ProfileRow /\ RefRow(ref, 0, TRUE) # NoProfile
    <3>1. ref \in Ref
      BY <1>4, <2>2
    <3>2. RefRow(ref, 0, TRUE) \in ProfileRow
      BY <3>1 DEF RefRow, ProfileRow
    <3> QED
      BY <3>2, NothingAssumption
  <2>4. profileRows' \in [RefDevices -> [Profiles -> ProfileRow \cup {NoProfile}]]
    BY <1>1, <2>1, <2>3, OneEntry DEF RefTypeOK
  <2>5. refPass' \in [RefDevices -> RefPass] /\ refActs' \in 0..MaxRefActs
    BY <1>1, <1>2, <1>5, ActsAreCounted DEF CreateProfile
  <2>6. RefTypeOK'
    BY <1>1, <1>5, <2>4, <2>5 DEF RefTypeOK, CreateProfile, UserActed
  <2>7. profileRows'[d][p] = RefRow(ref, 0, TRUE)
    BY <1>1, <2>1 DEF RefTypeOK
  <2>8. RowIsTrue(profileRows'[d][p], profileDocs'[p], d)
    BY <1>5, <2>2, <2>3, <2>7 DEF RowIsTrue, CreateProfile, UserActed, RefRow
  <2>9. \A e \in RefDevices : \A q \in Profiles :
          <<e, q>> # <<d, p>> => profileRows'[e][q] = profileRows[e][q]
    BY <1>1, <2>1 DEF RefTypeOK
  <2>10. \A c \in cards'[d] : c.profile # p
    BY <1>1, <1>5 DEF CreateProfile, UserActed, CardsAreTrue
  <2>11. profileDocs' = profileDocs /\ cards' = cards /\ \A e \in RefDevices : profileRows[e][p] = NoProfile
    BY <1>5 DEF CreateProfile, UserActed
  <2> QED
    BY <2>6, <2>8, <2>9, <2>10, <2>11, OneRowChanges DEF Grown
<1>6. CASE EditProfile(d, p)
  <2>1. PICK ref \in Offered(d) \cup {profileRows[d][p].ref} :
          profileRows' = [profileRows EXCEPT ![d][p] = RefRow(ref, profileRows[d][p].base, TRUE)]
    BY <1>1, <1>6 DEF EditProfile, RefTypeOK
  <2>2. profileRows[d][p] # NoProfile /\ profileRows[d][p] \in ProfileRow
    BY <1>1, <1>6 DEF EditProfile, RefTypeOK
  <2>3. ref \in RefOn(d) /\ (ref = NoRef => profileRows[d][p].ref = NoRef)
    BY <1>3, <2>1, <2>2, OfferedRefs DEF RowIsTrue
  <2>4. RefRow(ref, profileRows[d][p].base, TRUE) \in ProfileRow
    BY <1>4, <2>2, <2>3 DEF RefRow, ProfileRow
  <2>5. profileRows' \in [RefDevices -> [Profiles -> ProfileRow \cup {NoProfile}]]
    BY <1>1, <2>1, <2>4, OneEntry DEF RefTypeOK
  <2>6. refPass' \in [RefDevices -> RefPass] /\ refActs' \in 0..MaxRefActs
    BY <1>1, <1>2, <1>6, ActsAreCounted DEF EditProfile
  <2>7. RefTypeOK'
    BY <1>1, <1>6, <2>5, <2>6 DEF RefTypeOK, EditProfile, UserActed
  <2>8. profileRows'[d][p] = RefRow(ref, profileRows[d][p].base, TRUE)
    BY <1>1, <2>1 DEF RefTypeOK
  <2>9. profileDocs' = profileDocs /\ cards' = cards
    BY <1>6 DEF EditProfile, UserActed
  <2>10. RowIsTrue(profileRows'[d][p], profileDocs'[p], d)
    BY <1>3, <2>2, <2>3, <2>4, <2>8, <2>9 DEF RowIsTrue, RefRow
  <2>11. \A e \in RefDevices : \A q \in Profiles :
          <<e, q>> # <<d, p>> => profileRows'[e][q] = profileRows[e][q]
    BY <1>1, <2>1 DEF RefTypeOK
  <2>12. \A c \in cards'[d] : c.profile # p
    BY <1>6, <2>9 DEF EditProfile
  <2>13. profileRows'[d][p].base = 0 => \A e \in RefDevices \ {d} : profileRows[e][p] = NoProfile
    BY <1>1, <2>2, <2>8 DEF OnOneDevice, RefRow
  <2> QED
    BY <2>2, <2>7, <2>9, <2>10, <2>11, <2>12, <2>13, OneRowChanges DEF Grown
<1> QED
  BY <1>5, <1>6

\* A conflict is answered.
LEMMA AnswersKeepInv ==
  ASSUME ~Unlinks, ReferencesInv, NEW d \in RefDevices, NEW c \in cards[d],
         AnswerKeepCloud(d, c) \/ AnswerKeepLocal(d, c)
  PROVE  ReferencesInv'
<1> DEFINE p == c.profile
           row == profileRows[d][p]
           doc == profileDocs[p]
<1>1. RefTypeOK /\ OnOneDevice /\ CardsAreTrue
  BY InvHasParts
<1>2. c \in Card /\ p \in Profiles /\ c.version \in Nat \ {0} /\ c.cloud \in CloudRef
  BY <1>1 DEF RefTypeOK, Card
<1>3. RowIsTrue(row, doc, d)
  BY <1>2, RowsAreTrue
<1>4. /\ row # NoProfile /\ row.dirty /\ row.base # 0 /\ row.ref = c.local
      /\ doc # NoProfile /\ c.version <= doc.version /\ (c.version = doc.version => c.cloud = doc.ref)
  BY <1>1 DEF CardsAreTrue
<1>5. row \in ProfileRow /\ doc \in ProfileDoc /\ doc.version \in Nat \ {0} /\ doc.ref \in CloudRef
  BY <1>3, <1>4 DEF RowIsTrue, ProfileDoc
<1>6. c.cloud \in RefOn(d) /\ c.cloud \in Ref
  BY <1>2 DEF CloudRef, RefOn, Ref
<1>7. cards' = [cards EXCEPT ![d] = @ \ {c}]
  BY DEF AnswerKeepCloud, AnswerKeepLocal
<1>8. (\A e \in RefDevices : cards'[e] \subseteq cards[e]) /\ (\A x \in cards'[d] : x.profile # p)
  BY <1>1, <1>7 DEF RefTypeOK, CardsAreTrue
<1>9. cards' \in [RefDevices -> SUBSET Card]
  BY <1>1, <1>7 DEF RefTypeOK
<1>10. CASE AnswerKeepCloud(d, c)
  <2>1. profileRows' = [profileRows EXCEPT ![d][p] = RefRow(c.cloud, c.version, FALSE)]
    BY <1>10 DEF AnswerKeepCloud
  <2>2. RefRow(c.cloud, c.version, FALSE) \in ProfileRow
    BY <1>2, <1>6 DEF RefRow, ProfileRow
  <2>3. profileRows' \in [RefDevices -> [Profiles -> ProfileRow \cup {NoProfile}]]
    BY <1>1, <1>2, <2>1, <2>2, OneEntry DEF RefTypeOK
  <2>4. RefTypeOK'
    BY <1>10, <1>9, <2>3, <1>1 DEF RefTypeOK, AnswerKeepCloud, functionVars
  <2>5. profileDocs' = profileDocs
    BY <1>10 DEF AnswerKeepCloud
  <2>6. profileRows'[d][p] = RefRow(c.cloud, c.version, FALSE)
    BY <1>1, <1>2, <2>1 DEF RefTypeOK
  <2>7. profileRows'[d][p] = RefRow(c.cloud, c.version, FALSE) /\ profileDocs' = profileDocs
    BY <2>5, <2>6
  <2>8. RowIsTrue(profileRows'[d][p], profileDocs'[p], d)
    BY <1>2, <1>4, <1>5, <1>6, <2>2, <2>7 DEF RowIsTrue, RefRow
  <2>9. \A e \in RefDevices : \A q \in Profiles :
          <<e, q>> # <<d, p>> => profileRows'[e][q] = profileRows[e][q]
    BY <1>1, <1>2, <2>1 DEF RefTypeOK
  <2>10. profileRows'[d][p].base # 0
    BY <1>2, <2>7 DEF RefRow
  <2> QED
    BY <1>2, <1>4, <1>8, <2>4, <2>7, <2>8, <2>9, <2>10, OneRowChanges DEF Grown
<1>11. CASE AnswerKeepLocal(d, c)
  <2>1. /\ profileDocs' = [profileDocs EXCEPT ![p] = Updated(doc, c.local)]
        /\ profileRows' = [profileRows EXCEPT ![d][p] = RefRow(row.ref, doc.version + 1, FALSE)]
        /\ c.local \in CloudRef /\ (c.local = NoRef => doc.ref = NoRef)
    BY <1>1, <1>2, <1>11 DEF AnswerKeepLocal, RefTypeOK
  <2>2. /\ Updated(doc, c.local) \in ProfileDoc /\ Updated(doc, c.local).version = doc.version + 1
        /\ Updated(doc, c.local).ref = c.local
    BY <1>5, <2>1 DEF Updated, Document, ProfileDoc
  <2>3. row.ref \in RefOn(d) /\ RefRow(row.ref, doc.version + 1, FALSE) \in ProfileRow
    BY <1>3, <1>4, <1>5 DEF RowIsTrue, RefRow, ProfileRow
  <2>4. profileRows' \in [RefDevices -> [Profiles -> ProfileRow \cup {NoProfile}]]
    BY <1>1, <1>2, <2>1, <2>3, OneEntry DEF RefTypeOK
  <2>5. profileDocs' \in [Profiles -> ProfileDoc \cup {NoProfile}]
    BY <1>1, <1>2, <2>1, <2>2 DEF RefTypeOK
  <2>6. RefTypeOK'
    BY <1>1, <1>11, <1>9, <2>4, <2>5 DEF RefTypeOK, AnswerKeepLocal, functionVars
  <2>7. /\ profileRows'[d][p] = RefRow(row.ref, doc.version + 1, FALSE)
        /\ profileDocs'[p] = Updated(doc, c.local)
    BY <1>1, <1>2, <2>1 DEF RefTypeOK
  <2>8. RowIsTrue(profileRows'[d][p], profileDocs'[p], d)
    BY <1>4, <1>5, <2>2, <2>3, <2>7, NothingAssumption DEF RowIsTrue, RefRow
  <2>9. \A e \in RefDevices : \A q \in Profiles :
          <<e, q>> # <<d, p>> => profileRows'[e][q] = profileRows[e][q]
    BY <1>1, <1>2, <2>1 DEF RefTypeOK
  <2>10. \A q \in Profiles \ {p} : profileDocs'[q] = profileDocs[q]
    BY <1>1, <2>1 DEF RefTypeOK
  <2>11. profileRows'[d][p].base # 0
    BY <1>5, <2>7 DEF RefRow
  <2>12. Grown(row, doc, profileDocs'[p])
    BY <1>5, <2>2, <2>7 DEF Grown
  <2> QED
    BY <1>2, <1>4, <1>8, <2>6, <2>8, <2>9, <2>10, <2>11, <2>12, OneRowChanges
<1> QED
  BY <1>10, <1>11

-----------------------------------------------------------------------------
LEMMA ReferencesStep ==
  ASSUME ~Unlinks, ReferencesInv, [RefNext]_refVars
  PROVE  ReferencesInv'
<1>1. ASSUME NEW d \in RefDevices, SyncProfiles(d) PROVE ReferencesInv'
  BY <1>1, SyncProfilesKeepsInv
<1>2. ASSUME NEW d \in RefDevices,
             \/ \E f \in AuthFunctions : CreateFunction(d, f) \/ DeleteFunction(d, f)
             \/ SyncFunctions(d) \/ ListFunctions(d) \/ SyncTimer(d) \/ CloseWindow(d)
      PROVE  ReferencesInv'
  BY <1>2, OtherStepsKeepInv
<1>3. ASSUME NEW d \in RefDevices, NEW p \in Profiles, CreateProfile(d, p) \/ EditProfile(d, p)
      PROVE  ReferencesInv'
  BY <1>3, UsersKeepInv
<1>4. ASSUME NEW d \in RefDevices, NEW c \in cards[d], AnswerKeepCloud(d, c) \/ AnswerKeepLocal(d, c)
      PROVE  ReferencesInv'
  BY <1>4, AnswersKeepInv
<1>5. CASE UNCHANGED refVars
  BY <1>5
  DEF refVars, functionVars, profileVars, ReferencesInv, RefTypeOK, RowsFollow, NothingTakenOff,
      CardsAreTrue, ReferencesAgree
<1> QED
  BY <1>1, <1>2, <1>3, <1>4, <1>5 DEF RefNext, RefPassStep

\* Whatever fails, is deferred or is answered, a profile that a device shows as
\* synced names the same auth function there as in the cloud, by an id the device
\* can look up (resolveBrowserProfileOutgoing, mark_synced and update_profile
\* together), as long as nobody takes a function off a profile.
THEOREM SyncedReferencesAgree ==
  ASSUME ~Unlinks
  PROVE  RefSpec => []ReferencesAgree
<1>1. ReferencesInv /\ [RefNext]_refVars => ReferencesInv'
  BY ReferencesStep
<1>2. ReferencesInv => ReferencesAgree
  BY DEF ReferencesInv
<1> QED
  BY <1>1, <1>2, ReferencesStart, PTL DEF RefSpec
=============================================================================
