----------------------------- MODULE SyncEngine -----------------------------
(***************************************************************************)
(* Local-first sync of one entity type (frontend/.../syncEngine.ts, driven *)
(* by AppContext.tsx): on every device a window reconciles the sidecar's   *)
(* local store with the cloud by passes, while its user edits records and  *)
(* answers the conflicts a pass reports.                                   *)
(*                                                                         *)
(* A pass reads both stores (four independent requests), pushes what is    *)
(* new or dirty (per row one cloud call, then one mark-synced call), and   *)
(* finally pulls.  Nothing locks the stores meanwhile.                     *)
(***************************************************************************)
EXTENDS SyncDiff, Functions

CONSTANTS
  Devices, LocalIds, NoRow,                      \* see LocalStore
  UniqueNames, CreateDropsContent, Serialized,   \* see CloudStore
  ListLimit,          \* how many documents the cloud list route returns
  NotRead,            \* "this response has not arrived yet"
  NoCall,             \* "no push under way", "no resolution under way"
  UserActs,           \* what users do in this instance
  EditDuringPass,     \* the user acts while the window's own pass runs
  EditBehindDialog,   \* records change while the conflict dialog shows
  ConcurrentDevices,  \* two devices sync at the same time
  MaxRecords,         \* bound: users stop creating records at this many
  MaxFaults           \* bound: lost calls and closed windows

ASSUME EngineAssumption ==
  /\ ListLimit \in Nat /\ MaxFaults \in Nat /\ MaxRecords \in Nat
  /\ UserActs \subseteq {"create", "update", "delete", "keepLocal", "keepCloud"}
  /\ {EditDuringPass, EditBehindDialog, ConcurrentDevices} \subseteq BOOLEAN

VARIABLES
  rows, issued,    \* the devices' local stores
  docs, handler,   \* the cloud and its route handlers
  pass,            \* pass[d]: the sync pass of the device's window
  conflicts,       \* conflicts[d]: the cards of the conflict dialog
  resolution,      \* resolution[d]: the "keep local" under way
  lastEdit,        \* the newest edit any user made
  faults           \* how many faults have happened

\* The pass and the conflict dialog of a window each make calls of their own.
Clients   == Devices \X {"pass", "dialog"}
Pusher(d) == <<d, "pass">>
Dialog(d) == <<d, "dialog">>

Local == INSTANCE LocalStore
Cloud == INSTANCE CloudStore

\* What a window holds in memory; D is the set of documents it may name.
CardOf(D) == [row: LocalIds, local: Payload, doc: D, cloud: Doc]
PushCall(D) ==
  {p \in [row: LocalIds, local: Payload \cup {NoPayload}, request: Cloud!Request,
          collision: SUBSET CardOf(D)] :
     /\ p.request.op # "create" => p.request.doc \in D
     /\ p.request.op # "delete" => p.local = p.request.payload}
Resolution(D) ==
  [stage: {"recreating", "target", "forcing", "marking"},
   card: CardOf(D), doc: D \cup {NoDoc}, version: Nat]

ASSUME NoCallAssumption ==
  /\ NoRow \notin Local!Row
  /\ NoCall \notin PushCall(DocIds) /\ NoCall \notin Resolution(DocIds)

localVars == <<rows, issued>>
cloudVars == <<docs, handler>>
vars == <<localVars, cloudVars, pass, conflicts, resolution, lastEdit, faults>>

-----------------------------------------------------------------------------
(* The pass. *)

NoPass ==
  [pc |-> "idle",
   localState |-> NotRead, localList |-> NotRead,
   cloudState |-> NotRead, cloudList |-> NotRead,
   pushes |-> {}, current |-> NoCall, mark |-> NoCall,
   pulls |-> {}, marks |-> <<>>, found |-> {}]

At(d, pc) == pass[d].pc = pc
Quiet(d)  == At(d, "idle") /\ resolution[d] = NoCall

\* Whether d may talk to the cloud now, and whether its user may act.
MaySync(d) == ConcurrentDevices \/ \A o \in Devices \ {d} : Quiet(o)
MayAct(d)  == EditDuringPass \/ Quiet(d)

Init ==
  /\ Local!LocalInit /\ Cloud!CloudInit
  /\ pass = [d \in Devices |-> NoPass]
  /\ conflicts = [d \in Devices |-> {}]
  /\ resolution = [d \in Devices |-> NoCall]
  /\ lastEdit = 0 /\ faults = 0

Window == <<conflicts, resolution, lastEdit>>

\* A pass starts on load, on focus, every five minutes and after a save; a
\* window runs one at a time.
StartPass(d) ==
  /\ At(d, "idle") /\ MaySync(d)
  /\ EditDuringPass \/ resolution[d] = NoCall
  /\ pass' = [pass EXCEPT ![d].pc = "reading"]
  /\ UNCHANGED <<localVars, cloudVars, Window, faults>>

Arrives(d, response, value) ==
  /\ At(d, "reading") /\ pass[d][response] = NotRead
  /\ pass' = [pass EXCEPT ![d][response] = value]
  /\ UNCHANGED <<localVars, cloudVars, Window, faults>>

ReadLocalState(d) ==
  Arrives(d, "localState",
          [l \in Local!Stored(d) |->
             [cloudId |-> rows[d][l].cloudId, dirty |-> Local!Dirty(rows[d][l]),
              base |-> rows[d][l].base, deleted |-> rows[d][l].deleted]])

ReadLocalList(d) ==
  Arrives(d, "localList", [l \in Local!Visible(d) |-> rows[d][l].payload])

ReadCloudState(d) ==
  Arrives(d, "cloudState",
          [i \in {j \in DocIds : Cloud!Exists(j)} |->
             [version |-> docs[i].version, deleted |-> docs[i].deleted]])

\* The list route skips tombstones and is capped: to_list(length=100).
ReadCloudList(d) ==
  LET live == {i \in DocIds : Cloud!Live(i)} IN
  Arrives(d, "cloudList",
          Restrict(docs, {i \in live : Cardinality({j \in live : j < i}) < ListLimit}))

\* Promise.all rejects: the pass is skipped, and reports no conflicts.
ReadFails(d) ==
  /\ At(d, "reading") /\ faults < MaxFaults
  /\ pass' = [pass EXCEPT ![d] = NoPass]
  /\ conflicts' = [conflicts EXCEPT ![d] = {}]
  /\ faults' = faults + 1
  /\ UNCHANGED <<localVars, cloudVars, resolution, lastEdit>>

Decide(d) ==
  LET p == pass[d] IN
  /\ At(d, "reading")
  /\ NotRead \notin {p.localState, p.localList, p.cloudState, p.cloudList}
  /\ \E byCloudId \in LocalByCloudId(p.localState, p.cloudState) :
       pass' = [pass EXCEPT ![d] =
         [NoPass EXCEPT
            !.pc = "pushing",
            !.pushes = Pushes(p.localState, p.localList, p.cloudState, p.cloudList),
            !.pulls = NewRecords(p.localState, p.cloudState, p.cloudList),
            !.marks = StaleMarks(p.localState, p.cloudState, p.cloudList, byCloudId)]]
  /\ UNCHANGED <<localVars, cloudVars, Window, faults>>

StartPush(p, call)  == [p EXCEPT !.pc = "calling", !.current = call, !.pushes = @ \ {call}]
AcceptPush(p, mark) == [p EXCEPT !.pc = "marking", !.mark = mark]
NextPush(p, found) ==
  [p EXCEPT !.pc = "pushing", !.current = NoCall, !.mark = NoCall, !.found = found]

\* The rows come in no particular order.
Push(d) ==
  /\ At(d, "pushing")
  /\ \E p \in pass[d].pushes :
       /\ Cloud!Send(Pusher(d), p.request)
       /\ pass' = [pass EXCEPT ![d] = StartPush(@, p)]
  /\ UNCHANGED <<localVars, Window, faults>>

Answer(d) == handler[Pusher(d)]

PushAccepted(d) ==
  /\ At(d, "calling") /\ Cloud!Take(Pusher(d)) /\ Answer(d).status = 200
  /\ pass' = [pass EXCEPT ![d] =
       AcceptPush(@, MarkEntry(Answer(d).doc, Answer(d).result.version,
                               pass[d].current.request.op = "delete", NoPayload))]
  /\ UNCHANGED <<localVars, Window, faults>>

\* 409: the conflict shows the document the cloud answered with.
PushConflicts(d) ==
  LET c == pass[d].current IN
  /\ At(d, "calling") /\ Cloud!Take(Pusher(d)) /\ Answer(d).status = 409
  /\ pass' = [pass EXCEPT ![d] = NextPush(@,
       @.found \cup {Conflict(c.row, c.local, Answer(d).doc, Answer(d).result)})]
  /\ UNCHANGED <<localVars, Window, faults>>

\* 400: a conflict with the namesake of the list response, if it has one.
PushCollides(d) ==
  /\ At(d, "calling") /\ Cloud!Take(Pusher(d)) /\ Answer(d).status = 400
  /\ pass' = [pass EXCEPT ![d] = NextPush(@, @.found \cup @.current.collision)]
  /\ UNCHANGED <<localVars, Window, faults>>

\* The request or its response is lost: an error, and on to the next row.
PushLost(d) ==
  /\ At(d, "calling") /\ faults < MaxFaults
  /\ Cloud!Lose(Pusher(d))
  /\ pass' = [pass EXCEPT ![d] = NextPush(@, @.found)]
  /\ faults' = faults + 1
  /\ UNCHANGED <<localVars, Window>>

Confirm(d) ==
  /\ At(d, "marking")
  /\ Local!MarkSynced(d, [l \in {pass[d].current.row} |-> pass[d].mark])
  /\ pass' = [pass EXCEPT ![d] = NextPush(@, @.found)]
  /\ UNCHANGED <<cloudVars, Window, faults>>

ConfirmLost(d) ==
  /\ At(d, "marking") /\ faults < MaxFaults
  /\ pass' = [pass EXCEPT ![d] = NextPush(@, @.found)]
  /\ faults' = faults + 1
  /\ UNCHANGED <<localVars, cloudVars, Window>>

Pushed(d) == At(d, "pushing") /\ pass[d].pushes = {}

PullNew(d) ==
  /\ Pushed(d) /\ pass[d].pulls # {}
  /\ Local!Pull(d, pass[d].pulls)
  /\ pass' = [pass EXCEPT ![d].pulls = {}]
  /\ UNCHANGED <<cloudVars, Window, faults>>

MarkPulled(d) ==
  /\ Pushed(d) /\ pass[d].pulls = {} /\ pass[d].marks # <<>>
  /\ Local!MarkSynced(d, pass[d].marks)
  /\ pass' = [pass EXCEPT ![d].marks = <<>>]
  /\ UNCHANGED <<cloudVars, Window, faults>>

\* Either batch may fail; the other is still attempted.
PullLost(d) ==
  /\ Pushed(d) /\ faults < MaxFaults
  /\ \/ /\ pass[d].pulls # {}
        /\ pass' = [pass EXCEPT ![d].pulls = {}]
     \/ /\ pass[d].pulls = {} /\ pass[d].marks # <<>>
        /\ pass' = [pass EXCEPT ![d].marks = <<>>]
  /\ faults' = faults + 1
  /\ UNCHANGED <<localVars, cloudVars, Window>>

\* Deviation: what is on the dialog already is taken for seen.
EndPassUnseenOnly(d) ==
  /\ Pushed(d) /\ pass[d].pulls = {} /\ pass[d].marks = <<>>
  /\ conflicts' = [conflicts EXCEPT ![d] = pass[d].found \ conflicts[d]]
  /\ pass' = [pass EXCEPT ![d] = NoPass]
  /\ UNCHANGED <<localVars, cloudVars, resolution, lastEdit, faults>>

\* What the pass found replaces the cards of this entity type.
EndPass(d) ==
  /\ Pushed(d) /\ pass[d].pulls = {} /\ pass[d].marks = <<>>
  /\ conflicts' = [conflicts EXCEPT ![d] = pass[d].found]
  /\ pass' = [pass EXCEPT ![d] = NoPass]
  /\ UNCHANGED <<localVars, cloudVars, resolution, lastEdit, faults>>

-----------------------------------------------------------------------------
(* The conflict dialog. *)

Without(cards, l) == {k \in cards : k.row # l}

\* "Keep cloud": one mark-synced call with the captured document.
KeepCloud(d) ==
  /\ "keepCloud" \in UserActs /\ MayAct(d) /\ MaySync(d) /\ resolution[d] = NoCall
  /\ \E k \in conflicts[d] :
       /\ Local!MarkSynced(d, [l \in {k.row} |->
            MarkEntry(k.doc, k.cloud.version, k.cloud.deleted,
                      IF k.cloud.deleted THEN NoPayload ELSE k.cloud.payload)])
       /\ conflicts' = [conflicts EXCEPT ![d] = Without(@, k.row)]
  /\ UNCHANGED <<cloudVars, pass, resolution, lastEdit, faults>>

\* "Keep local": recreate the document first if the captured one is a
\* tombstone, force the captured local content onto it, then mark the row.
KeepLocal(d) ==
  /\ "keepLocal" \in UserActs /\ MayAct(d) /\ MaySync(d) /\ resolution[d] = NoCall
  /\ \E k \in conflicts[d] :
       IF k.cloud.deleted
         THEN /\ Cloud!Send(Dialog(d), [op |-> "create", payload |-> k.local])
              /\ resolution' = [resolution EXCEPT ![d] =
                                  [stage |-> "recreating", card |-> k, doc |-> NoDoc, version |-> 0]]
         ELSE /\ resolution' = [resolution EXCEPT ![d] =
                                  [stage |-> "target", card |-> k, doc |-> k.doc, version |-> 0]]
              /\ UNCHANGED handler
  /\ UNCHANGED <<localVars, docs, pass, conflicts, lastEdit, faults>>

AimAt(r, i)  == [r EXCEPT !.stage = "target", !.doc = i]
Settle(r, v) == [r EXCEPT !.stage = "marking", !.version = v]

Resolving(d, stage) == resolution[d] # NoCall /\ resolution[d].stage = stage

Recreated(d) ==
  /\ Resolving(d, "recreating")
  /\ Cloud!Take(Dialog(d)) /\ handler[Dialog(d)].status = 200
  /\ resolution' = [resolution EXCEPT ![d] = AimAt(@, handler[Dialog(d)].doc)]
  /\ UNCHANGED <<localVars, pass, conflicts, lastEdit, faults>>

ForceLocal(d) ==
  /\ Resolving(d, "target")
  /\ Cloud!Send(Dialog(d), [op |-> "update", doc |-> resolution[d].doc,
                            payload |-> resolution[d].card.local,
                            expected |-> 0, force |-> TRUE])
  /\ resolution' = [resolution EXCEPT ![d].stage = "forcing"]
  /\ UNCHANGED <<localVars, pass, conflicts, lastEdit, faults>>

Forced(d) ==
  /\ Resolving(d, "forcing")
  /\ Cloud!Take(Dialog(d)) /\ handler[Dialog(d)].status = 200
  /\ resolution' = [resolution EXCEPT ![d] = Settle(@, handler[Dialog(d)].result.version)]
  /\ UNCHANGED <<localVars, pass, conflicts, lastEdit, faults>>

FinishKeepLocal(d) ==
  LET r == resolution[d] IN
  /\ Resolving(d, "marking")
  /\ Local!MarkSynced(d, [l \in {r.card.row} |-> MarkEntry(r.doc, r.version, FALSE, NoPayload)])
  /\ conflicts' = [conflicts EXCEPT ![d] = Without(@, r.card.row)]
  /\ resolution' = [resolution EXCEPT ![d] = NoCall]
  /\ UNCHANGED <<cloudVars, pass, lastEdit, faults>>

\* A call throws (the name is taken again, or the call is lost): the card
\* stays, with an error.
KeepLocalRefused(d) ==
  /\ Resolving(d, "recreating")
  /\ Cloud!Take(Dialog(d)) /\ handler[Dialog(d)].status = 400
  /\ resolution' = [resolution EXCEPT ![d] = NoCall]
  /\ UNCHANGED <<localVars, pass, conflicts, lastEdit, faults>>

KeepLocalLost(d) ==
  /\ resolution[d] # NoCall /\ faults < MaxFaults
  /\ \/ Resolving(d, "recreating") /\ Cloud!Lose(Dialog(d))
     \/ Resolving(d, "forcing") /\ Cloud!Lose(Dialog(d))
     \/ Resolving(d, "marking") /\ UNCHANGED cloudVars
  /\ resolution' = [resolution EXCEPT ![d] = NoCall]
  /\ faults' = faults + 1
  /\ UNCHANGED <<localVars, pass, conflicts, lastEdit>>

-----------------------------------------------------------------------------
(* The user and the window. *)

UserStep(d, act) ==
  /\ act \in UserActs /\ MayAct(d) /\ lastEdit < MaxEdits
  /\ EditBehindDialog \/ conflicts[d] = {}
  /\ lastEdit' = lastEdit + 1
  /\ UNCHANGED <<cloudVars, pass, conflicts, resolution, faults>>

Unsent(d) == {l \in Local!Stored(d) : ~Local!Linked(rows[d][l])}

\* Documents, and rows that will become one.
Records ==
  Cardinality({i \in DocIds : Cloud!Exists(i)})
    + Cardinality({r \in Devices \X LocalIds : r[2] \in Unsent(r[1])})

UserCreates(d) ==
  /\ UserStep(d, "create") /\ Records < MaxRecords
  /\ \E l \in Local!FreshIds(d), n \in Names :
       Local!Create(d, l, [name |-> n, edits |-> {lastEdit + 1}])

UserEdits(d) ==
  /\ UserStep(d, "update")
  /\ \E l \in Local!Visible(d), n \in Names :
       Local!Update(d, l, [name |-> n, edits |-> rows[d][l].payload.edits \cup {lastEdit + 1}])

UserDeletes(d) ==
  /\ UserStep(d, "delete")
  /\ \E l \in Local!Visible(d) : Local!Delete(d, l)

\* The window closes or reloads: everything it held in memory is gone.  Its
\* requests have by then been served or will never arrive.
WindowCloses(d) ==
  /\ ~Quiet(d) \/ conflicts[d] # {}
  /\ faults < MaxFaults
  /\ \A c \in {Pusher(d), Dialog(d)} : handler[c].stage # "staged"
  /\ handler' = [c \in Clients |-> IF c[1] = d THEN Cloud!Idle ELSE handler[c]]
  /\ pass' = [pass EXCEPT ![d] = NoPass]
  /\ conflicts' = [conflicts EXCEPT ![d] = {}]
  /\ resolution' = [resolution EXCEPT ![d] = NoCall]
  /\ faults' = faults + 1
  /\ UNCHANGED <<localVars, docs, lastEdit>>

-----------------------------------------------------------------------------

Read(d) == ReadLocalState(d) \/ ReadLocalList(d) \/ ReadCloudState(d) \/ ReadCloudList(d)

PassStep(d) ==
  \/ Read(d) \/ Decide(d)
  \/ Push(d) \/ PushAccepted(d) \/ PushConflicts(d) \/ PushCollides(d) \/ Confirm(d)
  \/ PullNew(d) \/ MarkPulled(d) \/ EndPass(d)

DialogStep(d) ==
  Recreated(d) \/ ForceLocal(d) \/ Forced(d) \/ FinishKeepLocal(d) \/ KeepLocalRefused(d)

Fault(d) ==
  \/ ReadFails(d) \/ PushLost(d) \/ ConfirmLost(d) \/ PullLost(d)
  \/ KeepLocalLost(d) \/ WindowCloses(d)

User(d) ==
  UserCreates(d) \/ UserEdits(d) \/ UserDeletes(d) \/ KeepCloud(d) \/ KeepLocal(d)

CloudStep ==
  /\ \E c \in Clients : Cloud!HandlerStep(c)
  /\ UNCHANGED <<localVars, pass, Window, faults>>

Next ==
  \/ \E d \in Devices : StartPass(d) \/ PassStep(d) \/ DialogStep(d) \/ User(d) \/ Fault(d)
  \/ CloudStep

Spec == Init /\ [][Next]_vars
=============================================================================
